------------------------------ MODULE MarketProofs ------------------------------
(***************************************************************************)
(* What is proved of the orders, the stock, the revenue and the cart, for  *)
(* every number of products, orders, requests and devices.                 *)
(*                                                                         *)
(* The stages of an order: a request writes the status it has checked      *)
(* against a copy of the order, whatever the order has become.  The status *)
(* of the copy is one the order has had, though, and the history only      *)
(* grows: what is written is always a successor of a stage the order has   *)
(* been in.                                                                *)
(*                                                                         *)
(* The refinement of Checkout: a transaction commits only if nothing it    *)
(* writes has changed since its snapshot, so what was sellable in the      *)
(* snapshot is sellable now; and no two requests place the same order.     *)
(*                                                                         *)
(* The stock and the revenue are sums, handled by the laws of Sums; each   *)
(* property follows from an invariant that also counts what the requests   *)
(* in flight still owe.                                                    *)
(***************************************************************************)
EXTENDS Market, Sums, SequenceTheorems


\* The requests that are going to save a status.
Saving(o) == o.at \in {"restore", "revenue", "sold", "saveOrder"}

\* The variables are functions, and the operations have the fields of Idle.
Fields == {"kind", "at", "items", "store", "products", "o", "p", "to", "edit"}
Shapes ==
  /\ op = [r \in Procs |-> op[r]]
  /\ \A r \in Procs : op[r] = [f \in Fields |-> op[r][f]]
  /\ orders = [id \in OrderIds |-> orders[id]]
  /\ \A id \in OrderIds : orders[id] = [f \in {"st", "paid", "items"} |-> orders[id][f]]
  /\ been = [id \in OrderIds |-> been[id]]

\* A history of statuses that requests may ask for, every stage after the one
\* it needs.
InStages(hist) ==
  /\ hist \subseteq RequestedStatus \cup {"pending"}
  /\ "delivered" \in hist  => "shipped" \in hist
  /\ "shipped" \in hist    => "processing" \in hist
  /\ "processing" \in hist => "confirmed" \in hist
  /\ "confirmed" \in hist  => "pending" \in hist

\* The status of an order is in its history.
Remembered == \A id \in OrderIds : orders[id].st \in been[id] \cup {"unborn"}

\* The status o saves follows one the order has had.
Follows(o, histories) ==
  Saving(o) => /\ o.o \in OrderIds
               /\ o.to \in RequestedStatus
               /\ \E st \in histories[o.o] : o.to \in Transitions(st)

IInv ==
  /\ Shapes
  /\ Remembered
  /\ \A r \in Procs : Follows(op[r], been)
  /\ \A id \in OrderIds : InStages(been[id])

\* A history stays in stages when a requested successor of one of them is
\* added: validTransitions has no way around a stage.
LEMMA SuccessorKeepsStages ==
  ASSUME NEW hist, InStages(hist), NEW st \in hist, NEW to \in Transitions(st),
         to \in RequestedStatus
  PROVE  InStages(hist \cup {to})
  BY DEF InStages, Transitions, RequestedStatus

\* Initially no order has a history and no request is saving.
LEMMA InitStages == Init => IInv
<1> SUFFICES ASSUME Init PROVE IInv
  OBVIOUS
<1>1. Shapes
  BY DEF Init, Shapes, Idle, Fields
<1>2. Remembered /\ \A id \in OrderIds : InStages(been[id])
  BY DEF Init, Remembered, InStages
<1>3. \A r \in Procs : Follows(op[r], been)
  BY DEF Init, Follows, Saving, Idle
<1> QED
  BY <1>1, <1>2, <1>3 DEF IInv

\* A step of slot r that leaves orders and histories alone keeps the invariant
\* if the operation it leaves in the slot is well shaped and may save.
LEMMA SlotStep ==
  ASSUME IInv, NEW r \in Procs, NEW STATE o, Become(r, o),
         o = [f \in Fields |-> o[f]], Follows(o, been),
         UNCHANGED <<orders, been>>
  PROVE  IInv'
<1>1. op' = [s \in Procs |-> IF s = r THEN o ELSE op[s]]
  BY DEF IInv, Shapes, Become
<1>2. Shapes'
  <2>1. op' = [s \in Procs |-> op'[s]] /\ \A s \in Procs : op'[s] = [f \in Fields |-> op'[s][f]]
    BY <1>1 DEF IInv, Shapes
  <2> QED
    BY <2>1 DEF IInv, Shapes
<1>3. \A s \in Procs : Follows(op'[s], been')
  BY <1>1 DEF IInv
<1> QED
  BY <1>2, <1>3 DEF IInv, Remembered, InStages

\* The operation that ends a request.
LEMMA IdleOK == Idle = [f \in Fields |-> Idle[f]] /\ Follows(Idle, been)
  BY DEF Idle, Fields, Follows, Saving

-----------------------------------------------------------------------------
\* The steps that write an order add to its history what SuccessorKeepsStages
\* allows and leave the slot idle; the other requests still follow theirs.
LEMMA HistoryStep ==
  ASSUME IInv, NEW r \in Procs, Become(r, Idle), NEW STATE id, NEW STATE st,
         orders' = [i \in OrderIds |-> orders'[i]],
         \A i \in OrderIds : orders'[i] = [f \in {"st", "paid", "items"} |-> orders'[i][f]],
         \A i \in OrderIds : orders'[i].st = IF i = id THEN st ELSE orders[i].st,
         been' = [been EXCEPT ![id] = @ \cup {st}],
         id \in OrderIds => InStages(been[id] \cup {st})
  PROVE  IInv'
<1>1. op' = [s \in Procs |-> IF s = r THEN Idle ELSE op[s]]
  BY DEF IInv, Shapes, Become
<1>2. been' = [i \in OrderIds |-> IF i = id THEN been[i] \cup {st} ELSE been[i]]
  BY DEF IInv, Shapes
<1>3. Shapes'
  <2>1. op' = [s \in Procs |-> op'[s]] /\ \A s \in Procs : op'[s] = [f \in Fields |-> op'[s][f]]
    BY <1>1, IdleOK DEF IInv, Shapes
  <2>2. been' = [i \in OrderIds |-> been'[i]]
    BY <1>2
  <2> QED
    BY <2>1, <2>2 DEF Shapes
<1>4. \A s \in Procs : Follows(op'[s], been')
  <2> SUFFICES ASSUME NEW s \in Procs PROVE Follows(op'[s], been')
    OBVIOUS
  <2>1. CASE s = r
    BY <2>1, <1>1 DEF Follows, Saving, Idle
  <2>2. CASE s # r
    BY <2>2, <1>1, <1>2 DEF IInv, Follows
  <2> QED
    BY <2>1, <2>2
<1>5. Remembered'
  BY <1>2 DEF IInv, Remembered
<1>6. (\A i \in OrderIds : InStages(been[i]))'
  BY <1>2 DEF IInv
<1> QED
  BY <1>3, <1>4, <1>5, <1>6 DEF IInv

\* A committed order starts a history.
LEMMA CommitStages == ASSUME IInv, NEW r \in Procs, CommitOrder(r) PROVE IInv'
<1> DEFINE id == op[r].o
<1>1. orders' = [orders EXCEPT ![id] = [st |-> "pending", paid |-> FALSE, items |-> op[r].items]]
  BY DEF CommitOrder
<1>2. /\ orders' = [i \in OrderIds |-> orders'[i]]
      /\ \A i \in OrderIds : orders'[i] = [f \in {"st", "paid", "items"} |-> orders'[i][f]]
      /\ \A i \in OrderIds : orders'[i].st = IF i = id THEN "pending" ELSE orders[i].st
  BY <1>1 DEF IInv, Shapes
<1>3. id \in OrderIds => InStages(been[id] \cup {"pending"})
  BY DEF IInv, InStages
<1>4. been' = [been EXCEPT ![id] = @ \cup {"pending"}] /\ Become(r, Idle)
  BY DEF CommitOrder
<1> QED
  BY <1>2, <1>3, <1>4, HistoryStep

\* A saved status follows one of the history.
LEMMA SaveStages == ASSUME IInv, NEW r \in Procs, SaveOrder(r) PROVE IInv'
<1> DEFINE id == op[r].o
           to == op[r].to
<1>1. /\ orders' = [orders EXCEPT ![id].st = to, ![id].paid = @ \/ to = "delivered"]
      /\ been' = [been EXCEPT ![id] = @ \cup {to}]
      /\ Become(r, Idle)
      /\ Saving(op[r])
  BY DEF SaveOrder, Saving
<1>2. /\ id \in OrderIds
      /\ to \in RequestedStatus
      /\ \E st \in been[id] : to \in Transitions(st)
  BY <1>1 DEF IInv, Follows
<1>3. InStages(been[id] \cup {to})
  BY <1>2, SuccessorKeepsStages DEF IInv
<1>4. /\ orders' = [i \in OrderIds |-> orders'[i]]
      /\ \A i \in OrderIds : orders'[i] = [f \in {"st", "paid", "items"} |-> orders'[i][f]]
      /\ \A i \in OrderIds : orders'[i].st = IF i = id THEN to ELSE orders[i].st
  BY <1>1, <1>2 DEF IInv, Shapes
<1>5. been' = [been EXCEPT ![id] = @ \cup {to}] /\ Become(r, Idle)
  BY <1>1
<1> HIDE DEF id, to
<1> QED
  BY <1>3, <1>4, <1>5, HistoryStep

\* A request for a status: the copy's status is one of the history.
LEMMA UpdateStages ==
  ASSUME IInv, NEW r \in Procs, NEW id \in OrderIds, NEW by, NEW to \in RequestedStatus,
         UpdateOrderStatus(r, id, by, to)
  PROVE  IInv'
<1> DEFINE o == [Idle EXCEPT !.kind = "status", !.at = FirstCall(to), !.o = id,
                             !.to = to, !.items = orders[id].items]
<1>1. Become(r, o) /\ UNCHANGED <<orders, been>> /\ to \in Transitions(orders[id].st)
  BY DEF UpdateOrderStatus
<1>2. orders[id].st \in been[id]
  BY <1>1 DEF IInv, Remembered, Transitions
<1>3. o = [f \in Fields |-> o[f]] /\ o.o = id /\ o.to = to
  BY DEF Idle, Fields
<1>4. Follows(o, been)
  BY <1>1, <1>2, <1>3 DEF Follows
<1> QED
  BY <1>1, <1>3, <1>4, SlotStep

\* The calls between the check and the save keep order and status.
LEMMA LoopStages ==
  ASSUME IInv, NEW r \in Procs, RestoreLine(r) \/ CountRevenue(r) \/ CountSold(r)
  PROVE  IInv'
<1> DEFINE o == IF op[r].at = "revenue" THEN [op[r] EXCEPT !.at = "sold"] ELSE NextLine(op[r])
<1>1. Become(r, o) /\ UNCHANGED <<orders, been>> /\ Saving(op[r])
  BY DEF RestoreLine, CountRevenue, CountSold, Saving
<1>2. o = [f \in Fields |-> o[f]] /\ o.o = op[r].o /\ o.to = op[r].to
  BY DEF IInv, Shapes, NextLine, Fields
<1>3. Follows(o, been)
  BY <1>1, <1>2 DEF IInv, Follows
<1> QED
  BY <1>1, <1>2, <1>3, SlotStep

\* Requests that do not save an order: what they leave in the slot is the
\* operation with another `at`, a new one that is not about an order, or Idle.
LEMMA OtherStages ==
  ASSUME IInv, NEW r \in Procs, NEW STATE o, Become(r, o), UNCHANGED <<orders, been>>,
         o = [f \in Fields |-> o[f]], ~Saving(o)
  PROVE  IInv'
  BY SlotStep DEF Follows

LEMMA OrderRequestStages ==
  ASSUME IInv, NEW r \in Procs,
         \/ \E id \in OrderIds, items \in Baskets : CreateOrder(r, id, items)
         \/ RetryOrder(r)
  PROVE  IInv'
<1>1. CASE \E id \in OrderIds, items \in Baskets : CreateOrder(r, id, items)
  <2> PICK id \in OrderIds, items \in Baskets : CreateOrder(r, id, items)
    BY <1>1
  <2> DEFINE o == [Idle EXCEPT !.kind = "order", !.at = "commit", !.o = id, !.items = items,
                               !.store = store, !.products = products]
  <2>1. Become(r, o) /\ UNCHANGED <<orders, been>>
    BY DEF CreateOrder
  <2>2. o = [f \in Fields |-> o[f]] /\ ~Saving(o)
    BY DEF Idle, Fields, Saving
  <2> QED
    BY <2>1, <2>2, OtherStages
<1>2. CASE RetryOrder(r)
  <2> DEFINE o == IF Sellable(store, products, op[r].items)
                    THEN [op[r] EXCEPT !.store = store, !.products = products]
                    ELSE Idle
  <2>1. Become(r, o) /\ UNCHANGED <<orders, been>> /\ op[r].at = "commit"
    BY <1>2 DEF RetryOrder
  <2>2. o = [f \in Fields |-> o[f]] /\ ~Saving(o)
    BY <2>1, IdleOK DEF IInv, Shapes, Fields, Saving, Idle
  <2> QED
    BY <2>1, <2>2, OtherStages
<1> QED
  BY <1>1, <1>2

\* The handlers of products and of the store.
LEMMA ShopRequestStages ==
  ASSUME IInv, NEW r \in Procs,
         \/ \E p \in Products : \/ \E e \in Edits : UpdateProduct(r, p, e)
                                \/ DeleteProduct(r, p)
                                \/ \E st \in {"active", "hidden"} : AdminUpdateProductStatus(r, p, st)
         \/ CloseStore(r)
         \/ \E st \in {"active", "suspended", "closed"} : AdminUpdateStoreStatus(r, st)
  PROVE  IInv'
<1>1. ASSUME NEW p \in Products, NEW e \in Edits, UpdateProduct(r, p, e) PROVE IInv'
  <2> DEFINE o == [Idle EXCEPT !.kind = "edit", !.at = "verify", !.p = p,
                               !.edit = e, !.products = products]
  <2>1. Become(r, o) /\ UNCHANGED <<orders, been>>
    BY <1>1 DEF UpdateProduct
  <2>2. o = [f \in Fields |-> o[f]] /\ ~Saving(o)
    BY DEF Idle, Fields, Saving
  <2> QED
    BY <2>1, <2>2, OtherStages
<1>2. ASSUME NEW p \in Products, DeleteProduct(r, p) PROVE IInv'
  <2> DEFINE o == [Idle EXCEPT !.kind = "delete", !.at = "verify", !.p = p]
  <2>1. Become(r, o) /\ UNCHANGED <<orders, been>>
    BY <1>2 DEF DeleteProduct
  <2>2. o = [f \in Fields |-> o[f]] /\ ~Saving(o)
    BY DEF Idle, Fields, Saving
  <2> QED
    BY <2>1, <2>2, OtherStages
<1>3. ASSUME NEW p \in Products, NEW st \in {"active", "hidden"},
             AdminUpdateProductStatus(r, p, st)
      PROVE  IInv'
  <2> DEFINE o == [Idle EXCEPT !.kind = "adminProduct", !.at = "saveProduct", !.p = p,
                               !.edit.st = st, !.products = products]
  <2>1. Become(r, o) /\ UNCHANGED <<orders, been>>
    BY <1>3 DEF AdminUpdateProductStatus
  <2>2. o = [f \in Fields |-> o[f]] /\ ~Saving(o)
    BY DEF Idle, Fields, Saving
  <2> QED
    BY <2>1, <2>2, OtherStages
<1>4. ASSUME CloseStore(r) PROVE IInv'
  <2> DEFINE o == [Idle EXCEPT !.kind = "closeStore", !.at = "updateProducts",
                               !.to = "closed", !.store = store]
  <2>1. Become(r, o) /\ UNCHANGED <<orders, been>>
    BY <1>4 DEF CloseStore
  <2>2. o = [f \in Fields |-> o[f]] /\ ~Saving(o)
    BY DEF Idle, Fields, Saving
  <2> QED
    BY <2>1, <2>2, OtherStages
<1>5. ASSUME NEW st \in {"active", "suspended", "closed"}, AdminUpdateStoreStatus(r, st)
      PROVE  IInv'
  <2> DEFINE o == [Idle EXCEPT !.kind = "adminStore", !.to = st, !.store = store,
                     !.at = IF st = "suspended" THEN "updateProducts" ELSE "saveStore"]
  <2>1. Become(r, o) /\ UNCHANGED <<orders, been>>
    BY <1>5 DEF AdminUpdateStoreStatus
  <2>2. o = [f \in Fields |-> o[f]] /\ ~Saving(o)
    BY DEF Idle, Fields, Saving
  <2> QED
    BY <2>1, <2>2, OtherStages
<1> QED
  BY <1>1, <1>2, <1>3, <1>4, <1>5

\* Their later calls, and the end of a request.
LEMMA ShopStepStages ==
  ASSUME IInv, NEW r \in Procs,
         \/ VerifyStoreOwnership(r) \/ SaveProduct(r) \/ RemoveProduct(r)
         \/ UpdateProducts(r) \/ SaveStore(r) \/ Crash(r)
  PROVE  IInv'
<1>1. CASE VerifyStoreOwnership(r)
  <2> DEFINE o == IF store.st \in {"suspended", "closed"} THEN Idle
                  ELSE [op[r] EXCEPT !.at = IF op[r].kind = "edit" THEN "saveProduct"
                                                                   ELSE "removeProduct"]
  <2>1. Become(r, o) /\ UNCHANGED <<orders, been>>
    BY <1>1 DEF VerifyStoreOwnership
  <2>2. o = [f \in Fields |-> o[f]] /\ ~Saving(o)
    BY IdleOK DEF IInv, Shapes, Fields, Saving, Idle
  <2> QED
    BY <2>1, <2>2, OtherStages
<1>2. CASE UpdateProducts(r)
  <2> DEFINE o == [op[r] EXCEPT !.at = "saveStore"]
  <2>1. Become(r, o) /\ UNCHANGED <<orders, been>>
    BY <1>2 DEF UpdateProducts
  <2>2. o = [f \in Fields |-> o[f]] /\ ~Saving(o)
    BY DEF IInv, Shapes, Fields, Saving
  <2> QED
    BY <2>1, <2>2, OtherStages
<1>3. CASE SaveProduct(r) \/ RemoveProduct(r) \/ SaveStore(r) \/ Crash(r)
  <2>1. Become(r, Idle) /\ UNCHANGED <<orders, been>>
    BY <1>3 DEF SaveProduct, RemoveProduct, SaveStore, Crash
  <2> QED
    BY <2>1, IdleOK, SlotStep
<1> QED
  BY <1>1, <1>2, <1>3

-----------------------------------------------------------------------------
\* The histories and what is to be saved stay in stages.
LEMMA StagesNext == IInv /\ [Next]_vars => IInv'
<1> SUFFICES ASSUME IInv, [Next]_vars PROVE IInv'
  OBVIOUS
<1>1. CASE UNCHANGED vars
  BY <1>1 DEF vars, IInv, Shapes, Remembered
<1>2. CASE AtRest
  BY <1>1, <1>2 DEF AtRest
<1>3. ASSUME NEW r \in Procs, Request(r) PROVE IInv'
  <2>1. ASSUME NEW id \in OrderIds, NEW by \in {"owner", "buyer", "other"},
               NEW to \in RequestedStatus, UpdateOrderStatus(r, id, by, to)
        PROVE  IInv'
    BY <2>1, UpdateStages
  <2> QED
    BY <1>3, <2>1, OrderRequestStages, ShopRequestStages DEF Request
<1>4. ASSUME NEW r \in Procs, Step(r) PROVE IInv'
  BY <1>4, CommitStages, SaveStages, LoopStages, OrderRequestStages, ShopStepStages DEF Step
<1>5. ASSUME NEW r \in Procs, Crash(r) PROVE IInv'
  BY <1>5, ShopStepStages
<1> QED
  BY <1>1, <1>2, <1>3, <1>4, <1>5 DEF Next

\* The inductive invariant of order.service.ts:227-321 and of the handlers around it.
THEOREM StagesInductive == Spec => []IInv
  BY StagesNext, InitStages, PTL DEF Spec

\* No order skips a stage, however many requests race on it with copies
\* however old (validTransitions, order.service.ts:243-250).
THEOREM StagesKept == Spec => []NoStageSkipped
<1>1. IInv => NoStageSkipped
  BY DEF IInv, InStages, NoStageSkipped
<1> QED
  BY <1>1, StagesInductive, PTL

-----------------------------------------------------------------------------
ProductFields == {"exists", "st", "v", "sold", "stock"}
StoreFields   == {"st", "orders", "revenue"}

\* The store and the products have their fields.
Furnished ==
  /\ DOMAIN store = StoreFields
  /\ products = [p \in Products |-> products[p]]
  /\ \A p \in Products : DOMAIN products[p] = ProductFields

\* The order a transaction is about to place is sellable in its snapshot, has not
\* been placed, and is nobody else's.
Placing(r) ==
  op[r].at = "commit" =>
    /\ op[r].o \in OrderIds /\ orders[op[r].o].st = "unborn"
    /\ op[r].items \in Baskets
    /\ Sellable(op[r].store, op[r].products, op[r].items)
    /\ \A s \in Procs \ {r} : op[s].o # op[r].o

CInv ==
  /\ IInv
  /\ Furnished
  /\ \A r \in Procs : Placing(r)
  /\ \A id \in OrderIds : orders[id].st = "unborn" => been[id] = {}

\* Initially nothing is in flight.
LEMMA InitPlacing == Init => CInv
<1> SUFFICES ASSUME Init PROVE CInv
  OBVIOUS
<1>1. IInv
  BY InitStages
<1>2. Furnished
  BY DEF Init, Furnished, Shelf, OnShelf, NoStore, ProductFields, StoreFields
<1>3. \A r \in Procs : Placing(r)
  BY DEF Init, Placing, Idle
<1>4. \A id \in OrderIds : orders[id].st = "unborn" => been[id] = {}
  BY DEF Init
<1> QED
  BY <1>1, <1>2, <1>3, <1>4 DEF CInv

\* Every step writes documents with all their fields.
LEMMA FurnishedStep == ASSUME Furnished, Next PROVE Furnished'
<1>1. CASE UNCHANGED <<store, products>>
  BY <1>1 DEF Furnished
<1>2. ASSUME NEW r \in Procs, CommitOrder(r) PROVE Furnished'
  <2>1. store' = [store EXCEPT !.orders = @ + 1]
    BY <1>2 DEF CommitOrder
  <2>2. products' = [p \in Products |-> products'[p]]
        /\ \A p \in Products : DOMAIN products'[p] = DOMAIN products[p]
    BY <1>2 DEF CommitOrder
  <2> QED
    BY <2>1, <2>2 DEF Furnished
<1>3. ASSUME NEW r \in Procs, RestoreLine(r) \/ CountSold(r) PROVE Furnished'
  <2>1. UNCHANGED store
    BY <1>3 DEF RestoreLine, CountSold
  <2>2. products' = [p \in Products |-> products'[p]]
        /\ \A p \in Products : DOMAIN products'[p] = DOMAIN products[p]
    BY <1>3 DEF RestoreLine, CountSold, OnProduct, Furnished
  <2> QED
    BY <2>1, <2>2 DEF Furnished
<1>4. ASSUME NEW r \in Procs, CountRevenue(r) \/ SaveStore(r) PROVE Furnished'
  BY <1>4 DEF CountRevenue, SaveStore, Furnished
<1>5. ASSUME NEW r \in Procs, SaveProduct(r) \/ RemoveProduct(r) \/ UpdateProducts(r)
      PROVE  Furnished'
  <2>1. UNCHANGED store
    BY <1>5 DEF SaveProduct, RemoveProduct, UpdateProducts
  <2>2. CASE SaveProduct(r)
    <3>1. products' = [p \in Products |-> products'[p]]
          /\ \A p \in Products : DOMAIN products'[p] = DOMAIN products[p]
      BY <2>2 DEF SaveProduct, Furnished
    <3> QED
      BY <2>1, <3>1 DEF Furnished
  <2>3. CASE RemoveProduct(r) \/ UpdateProducts(r)
    <3>1. products' = [p \in Products |-> products'[p]]
          /\ \A p \in Products : DOMAIN products'[p] = DOMAIN products[p]
      BY <2>3 DEF RemoveProduct, UpdateProducts, Furnished
    <3> QED
      BY <2>1, <3>1 DEF Furnished
  <2> QED
    BY <1>5, <2>2, <2>3
<1>6. ASSUME NEW r \in Procs, Request(r) PROVE UNCHANGED <<store, products>>
  BY <1>6 DEF Request, CreateOrder, UpdateOrderStatus, UpdateProduct, DeleteProduct,
              AdminUpdateProductStatus, CloseStore, AdminUpdateStoreStatus
<1>7. ASSUME NEW r \in Procs, RetryOrder(r) \/ SaveOrder(r) \/ VerifyStoreOwnership(r) \/ Crash(r)
      PROVE  UNCHANGED <<store, products>>
  BY <1>7 DEF RetryOrder, SaveOrder, VerifyStoreOwnership, Crash
<1>8. AtRest => UNCHANGED <<store, products>>
  BY DEF AtRest, vars
<1> QED
  BY <1>1, <1>2, <1>3, <1>4, <1>5, <1>6, <1>7, <1>8 DEF Next, Step

-----------------------------------------------------------------------------
\* A slot changes, and with it at most the order it is about: no other transaction
\* notices, if the operation left in the slot places nothing.
LEMMA SlotPlacing ==
  ASSUME CInv, NEW r \in Procs, NEW STATE o, Become(r, o), o.at # "commit",
         \/ o.o = op[r].o \/ o.o \notin OrderIds
         \/ orders[o.o].st # "unborn",
         \A id \in OrderIds \ {op[r].o} : orders'[id] = orders[id]
  PROVE  (\A s \in Procs : Placing(s))'
<1>1. op' = [s \in Procs |-> IF s = r THEN o ELSE op[s]]
  BY DEF CInv, IInv, Shapes, Become
<1>2. SUFFICES ASSUME NEW s \in Procs, op'[s].at = "commit"
               PROVE  /\ op'[s].o \in OrderIds /\ orders'[op'[s].o].st = "unborn"
                      /\ op'[s].items \in Baskets
                      /\ Sellable(op'[s].store, op'[s].products, op'[s].items)
                      /\ \A t \in Procs \ {s} : op'[t].o # op'[s].o
  BY DEF Placing, Sellable
<1>3. s # r /\ op'[s] = op[s]
  BY <1>1, <1>2
<1>4. /\ op[s].o \in OrderIds /\ orders[op[s].o].st = "unborn"
      /\ op[s].items \in Baskets
      /\ Sellable(op[s].store, op[s].products, op[s].items)
      /\ \A t \in Procs \ {s} : op[t].o # op[s].o
  BY <1>2, <1>3 DEF CInv, Placing
<1>5. orders'[op[s].o] = orders[op[s].o] /\ o.o # op[s].o
  BY <1>3, <1>4
<1>6. \A t \in Procs \ {s} : op'[t].o # op[s].o
  BY <1>1, <1>4, <1>5
<1> QED
  BY <1>3, <1>4, <1>5, <1>6

\* The same for a step that leaves orders and histories alone.
LEMMA QuietStep ==
  ASSUME CInv, Next, NEW r \in Procs, NEW STATE o, Become(r, o), o.at # "commit",
         \/ o.o = op[r].o \/ o.o \notin OrderIds
         \/ orders[o.o].st # "unborn",
         UNCHANGED <<orders, been>>, IInv'
  PROVE  CInv'
<1>1. (\A s \in Procs : Placing(s))'
  BY SlotPlacing
<1>2. Furnished'
  BY FurnishedStep DEF CInv
<1> QED
  BY <1>1, <1>2 DEF CInv

\* The operation that ends a request places nothing.
LEMMA IdlePlaces == Idle.at # "commit" /\ Idle.o \notin OrderIds
  BY OrdersAssumption DEF Idle

\* A transaction starts, or reads a new snapshot.
LEMMA OrderPlacing ==
  ASSUME CInv, Next, IInv', NEW r \in Procs,
         \/ \E id \in OrderIds, items \in Baskets : CreateOrder(r, id, items)
         \/ RetryOrder(r)
  PROVE  CInv'
<1>1. ASSUME NEW id \in OrderIds, NEW items \in Baskets, NEW STATE o, Become(r, o),
             UNCHANGED <<orders, been>>,
             o.o = id, o.items = items, Sellable(o.store, o.products, items),
             orders[id].st = "unborn", \A s \in Procs \ {r} : op[s].o # id,
             o.at = "commit"
      PROVE  CInv'
  <2>1. op' = [s \in Procs |-> IF s = r THEN o ELSE op[s]]
    BY <1>1 DEF CInv, IInv, Shapes, Become
  <2>2. SUFFICES ASSUME NEW s \in Procs, op'[s].at = "commit"
                 PROVE  /\ op'[s].o \in OrderIds /\ orders[op'[s].o].st = "unborn"
                        /\ op'[s].items \in Baskets
                        /\ Sellable(op'[s].store, op'[s].products, op'[s].items)
                        /\ \A t \in Procs \ {s} : op'[t].o # op'[s].o
    <3>1. (\A s \in Procs : Placing(s))'
      BY <1>1, <2>2 DEF Placing, Sellable
    <3>2. Furnished'
      BY FurnishedStep DEF CInv
    <3> QED
      BY <1>1, <3>1, <3>2 DEF CInv
  <2>3. CASE s = r
    BY <1>1, <2>1, <2>3
  <2>4. CASE s # r
    <3>1. /\ op[s].o \in OrderIds /\ orders[op[s].o].st = "unborn"
          /\ op[s].items \in Baskets
          /\ Sellable(op[s].store, op[s].products, op[s].items)
          /\ \A t \in Procs \ {s} : op[t].o # op[s].o
      BY <2>1, <2>2, <2>4 DEF CInv, Placing
    <3>2. \A t \in Procs \ {s} : op'[t].o # op[s].o
      BY <1>1, <2>1, <2>4, <3>1
    <3> QED
      BY <2>1, <2>4, <3>1, <3>2
  <2> QED
    BY <2>3, <2>4
<1>2. CASE \E id \in OrderIds, items \in Baskets : CreateOrder(r, id, items)
  <2> PICK id \in OrderIds, items \in Baskets : CreateOrder(r, id, items)
    BY <1>2
  <2> DEFINE o == [Idle EXCEPT !.kind = "order", !.at = "commit", !.o = id, !.items = items,
                               !.store = store, !.products = products]
  <2>1. /\ Become(r, o) /\ UNCHANGED <<orders, been>>
        /\ orders[id].st = "unborn" /\ \A s \in Procs \ {r} : op[s].o # id
    BY DEF CreateOrder, Unused
  <2>2. o.at = "commit" /\ o.o = id /\ o.items = items /\ o.store = store /\ o.products = products
    BY DEF Idle
  <2>3. Sellable(o.store, o.products, items)
    BY <2>2 DEF CreateOrder
  <2> HIDE DEF o
  <2> QED
    BY <2>1, <2>2, <2>3, <1>1
<1>3. CASE RetryOrder(r)
  <2> DEFINE o == [op[r] EXCEPT !.store = store, !.products = products]
  <2>1. op[r].at = "commit" /\ UNCHANGED <<orders, been>>
    BY <1>3 DEF RetryOrder
  <2>2. CASE Sellable(store, products, op[r].items)
    <3>1. Become(r, o)
      BY <1>3, <2>2 DEF RetryOrder
    <3>2. /\ o.at = "commit" /\ o.o = op[r].o /\ o.items = op[r].items
          /\ o.store = store /\ o.products = products
      BY <2>1 DEF CInv, IInv, Shapes, Fields
    <3>3. /\ op[r].o \in OrderIds /\ orders[op[r].o].st = "unborn"
          /\ op[r].items \in Baskets
          /\ \A s \in Procs \ {r} : op[s].o # op[r].o
      BY <2>1 DEF CInv, Placing
    <3>4. Sellable(o.store, o.products, op[r].items)
      BY <2>2, <3>2
    <3> HIDE DEF o
    <3> QED
      BY <2>1, <3>1, <3>2, <3>3, <3>4, <1>1
  <2>3. CASE ~Sellable(store, products, op[r].items)
    <3>1. Become(r, Idle)
      BY <1>3, <2>3 DEF RetryOrder
    <3> QED
      BY <2>1, <3>1, IdlePlaces, QuietStep
  <2> QED
    BY <2>2, <2>3
<1> QED
  BY <1>2, <1>3

\* An order is placed, or gets another status.
LEMMA WrittenPlacing ==
  ASSUME CInv, Next, IInv', NEW r \in Procs, CommitOrder(r) \/ SaveOrder(r)
  PROVE  CInv'
<1> DEFINE id == op[r].o
<1>1. Become(r, Idle)
  BY DEF CommitOrder, SaveOrder
<1>2. /\ \A i \in OrderIds \ {id} : orders'[i] = orders[i] /\ been'[i] = been[i]
      /\ id \in OrderIds => orders'[id].st # "unborn"
  <2>1. CASE CommitOrder(r)
    <3>1. /\ orders' = [orders EXCEPT ![id] = [st |-> "pending", paid |-> FALSE, items |-> op[r].items]]
          /\ been' = [been EXCEPT ![id] = @ \cup {"pending"}]
      BY <2>1 DEF CommitOrder
    <3>2. orders = [i \in OrderIds |-> orders[i]] /\ been = [i \in OrderIds |-> been[i]]
      BY DEF CInv, IInv, Shapes
    <3>3. "pending" # "unborn"
      OBVIOUS
    <3> HIDE DEF id
    <3> QED
      BY <3>1, <3>2, <3>3
  <2>2. CASE SaveOrder(r)
    <3>1. id \in OrderIds /\ op[r].to \in RequestedStatus
      BY <2>2 DEF SaveOrder, CInv, IInv, Follows, Saving
    <3>2. /\ orders' = [orders EXCEPT ![id].st = op[r].to,
                                      ![id].paid = @ \/ op[r].to = "delivered"]
          /\ been' = [been EXCEPT ![id] = @ \cup {op[r].to}]
      BY <2>2 DEF SaveOrder
    <3>3. /\ orders = [i \in OrderIds |-> orders[i]] /\ been = [i \in OrderIds |-> been[i]]
          /\ \A i \in OrderIds : orders[i] = [f \in {"st", "paid", "items"} |-> orders[i][f]]
      BY DEF CInv, IInv, Shapes
    <3>4. op[r].to # "unborn"
      BY <3>1 DEF RequestedStatus
    <3> HIDE DEF id
    <3> QED
      BY <3>1, <3>2, <3>3, <3>4
  <2> QED
    BY <2>1, <2>2
<1>3. (\A s \in Procs : Placing(s))'
  BY <1>1, <1>2, IdlePlaces, SlotPlacing
<1>4. (\A i \in OrderIds : orders[i].st = "unborn" => been[i] = {})'
  BY <1>2 DEF CInv
<1>5. Furnished'
  BY FurnishedStep DEF CInv
<1> QED
  BY <1>3, <1>4, <1>5 DEF CInv

\* What a transaction places has not been placed by another one.
LEMMA PlacingNext == CInv /\ [Next]_vars => CInv'
<1> SUFFICES ASSUME CInv, [Next]_vars PROVE CInv'
  OBVIOUS
<1>1. CASE UNCHANGED vars
  BY <1>1 DEF vars, CInv, IInv, Shapes, Remembered, Furnished, Placing, Sellable
<1>2. CASE Next
  <2>1. IInv'
    BY <1>2, StagesNext DEF CInv
  <2>2. CASE AtRest
    BY <1>1, <2>2 DEF AtRest
  <2>3. ASSUME NEW r \in Procs, NEW STATE o, Become(r, o), o.at # "commit",
               o.o = op[r].o \/ o.o \notin OrderIds \/ orders[o.o].st # "unborn",
               UNCHANGED <<orders, been>>
        PROVE  CInv'
    BY <1>2, <2>1, <2>3, QuietStep
  <2>4. ASSUME NEW r \in Procs, Request(r) PROVE CInv'
    <3>1. CASE \E id \in OrderIds, items \in Baskets : CreateOrder(r, id, items)
      BY <1>2, <2>1, <3>1, OrderPlacing
    <3>2. ASSUME NEW id \in OrderIds, NEW by, NEW to \in RequestedStatus,
                 UpdateOrderStatus(r, id, by, to)
          PROVE  CInv'
      <4> DEFINE o == [Idle EXCEPT !.kind = "status", !.at = FirstCall(to), !.o = id,
                                   !.to = to, !.items = orders[id].items]
      <4>1. Become(r, o) /\ UNCHANGED <<orders, been>> /\ to \in Transitions(orders[id].st)
        BY <3>2 DEF UpdateOrderStatus
      <4>2. o.at # "commit" /\ o.o = id
        BY DEF Idle, FirstCall
      <4>3. orders[id].st # "unborn"
        BY <4>1 DEF Transitions
      <4> HIDE DEF o
      <4> QED
        BY <4>1, <4>2, <4>3, <2>3
    <3>3. CASE \/ \E p \in Products : \/ \E e \in Edits : UpdateProduct(r, p, e)
                                      \/ DeleteProduct(r, p)
                                      \/ \E st \in {"active", "hidden"} :
                                           AdminUpdateProductStatus(r, p, st)
               \/ CloseStore(r)
               \/ \E st \in {"active", "suspended", "closed"} : AdminUpdateStoreStatus(r, st)
      <4>1. UNCHANGED <<orders, been>>
        BY <3>3 DEF UpdateProduct, DeleteProduct, AdminUpdateProductStatus, CloseStore,
                    AdminUpdateStoreStatus
      <4>2. ASSUME NEW STATE o, Become(r, o), o.at # "commit", o.o = Idle.o PROVE CInv'
        BY <4>1, <4>2, <2>3, IdlePlaces
      <4>3. ASSUME NEW p \in Products, NEW e \in Edits, UpdateProduct(r, p, e) PROVE CInv'
        <5> DEFINE o == [Idle EXCEPT !.kind = "edit", !.at = "verify", !.p = p,
                                     !.edit = e, !.products = products]
        <5>1. Become(r, o)
          BY <4>3 DEF UpdateProduct
        <5>2. o.at # "commit" /\ o.o = Idle.o
          BY DEF Idle
        <5> HIDE DEF o
        <5> QED
          BY <5>1, <5>2, <4>2
      <4>4. ASSUME NEW p \in Products, DeleteProduct(r, p) PROVE CInv'
        <5> DEFINE o == [Idle EXCEPT !.kind = "delete", !.at = "verify", !.p = p]
        <5>1. Become(r, o)
          BY <4>4 DEF DeleteProduct
        <5>2. o.at # "commit" /\ o.o = Idle.o
          BY DEF Idle
        <5> HIDE DEF o
        <5> QED
          BY <5>1, <5>2, <4>2
      <4>5. ASSUME NEW p \in Products, NEW st, AdminUpdateProductStatus(r, p, st) PROVE CInv'
        <5> DEFINE o == [Idle EXCEPT !.kind = "adminProduct", !.at = "saveProduct", !.p = p,
                                     !.edit.st = st, !.products = products]
        <5>1. Become(r, o)
          BY <4>5 DEF AdminUpdateProductStatus
        <5>2. o.at # "commit" /\ o.o = Idle.o
          BY DEF Idle
        <5> HIDE DEF o
        <5> QED
          BY <5>1, <5>2, <4>2
      <4>6. ASSUME CloseStore(r) PROVE CInv'
        <5> DEFINE o == [Idle EXCEPT !.kind = "closeStore", !.at = "updateProducts",
                                     !.to = "closed", !.store = store]
        <5>1. Become(r, o)
          BY <4>6 DEF CloseStore
        <5>2. o.at # "commit" /\ o.o = Idle.o
          BY DEF Idle
        <5> HIDE DEF o
        <5> QED
          BY <5>1, <5>2, <4>2
      <4>7. ASSUME NEW st, AdminUpdateStoreStatus(r, st) PROVE CInv'
        <5> DEFINE o == [Idle EXCEPT !.kind = "adminStore", !.to = st, !.store = store,
                           !.at = IF st = "suspended" THEN "updateProducts" ELSE "saveStore"]
        <5>1. Become(r, o)
          BY <4>7 DEF AdminUpdateStoreStatus
        <5>2. o.at # "commit" /\ o.o = Idle.o
          BY DEF Idle
        <5> HIDE DEF o
        <5> QED
          BY <5>1, <5>2, <4>2
      <4> QED
        BY <3>3, <4>3, <4>4, <4>5, <4>6, <4>7
    <3> QED
      BY <2>4, <3>1, <3>2, <3>3 DEF Request
  <2>5. ASSUME NEW r \in Procs, Step(r) PROVE CInv'
    <3>1. CASE CommitOrder(r) \/ SaveOrder(r)
      BY <1>2, <2>1, <3>1, WrittenPlacing
    <3>2. CASE RetryOrder(r)
      BY <1>2, <2>1, <3>2, OrderPlacing
    <3>3. CASE RestoreLine(r) \/ CountRevenue(r) \/ CountSold(r)
      <4> DEFINE o == IF op[r].at = "revenue" THEN [op[r] EXCEPT !.at = "sold"]
                                              ELSE NextLine(op[r])
      <4>1. Become(r, o) /\ UNCHANGED <<orders, been>> /\ op[r].at # "commit"
        BY <3>3 DEF RestoreLine, CountRevenue, CountSold
      <4>2. o.at # "commit" /\ o.o = op[r].o
        BY <4>1 DEF CInv, IInv, Shapes, NextLine, Fields
      <4> HIDE DEF o
      <4> QED
        BY <4>1, <4>2, <2>3
    <3>4. CASE VerifyStoreOwnership(r) \/ UpdateProducts(r)
      <4>1. PICK o : Become(r, o) /\ o.at # "commit" /\ (o.o = op[r].o \/ o.o = Idle.o)
        BY <3>4 DEF VerifyStoreOwnership, UpdateProducts, Idle, CInv, IInv, Shapes, Fields
      <4>2. UNCHANGED <<orders, been>>
        BY <3>4 DEF VerifyStoreOwnership, UpdateProducts
      <4> QED
        BY <4>1, <4>2, <2>3, IdlePlaces
    <3>5. CASE SaveProduct(r) \/ RemoveProduct(r) \/ SaveStore(r)
      <4>1. Become(r, Idle) /\ UNCHANGED <<orders, been>>
        BY <3>5 DEF SaveProduct, RemoveProduct, SaveStore
      <4> QED
        BY <4>1, <2>3, IdlePlaces
    <3> QED
      BY <2>5, <3>1, <3>2, <3>3, <3>4, <3>5 DEF Step
  <2>6. ASSUME NEW r \in Procs, Crash(r) PROVE CInv'
    <3>1. Become(r, Idle) /\ UNCHANGED <<orders, been>>
      BY <2>6 DEF Crash
    <3> QED
      BY <3>1, <2>3, IdlePlaces
  <2> QED
    BY <1>2, <2>2, <2>4, <2>5, <2>6 DEF Next
<1> QED
  BY <1>1, <1>2

-----------------------------------------------------------------------------
\* The commit is the step in which the order is placed: the snapshot still holds.
LEMMA CommitPlaces ==
  ASSUME CInv, NEW r \in Procs, CommitOrder(r),
         NEW id, id = op[r].o, NEW t, t = Takes(op[r].items)
  PROVE  Shop!Place(id, t)
<1> DEFINE items == op[r].items
<1>1. /\ id \in OrderIds /\ orders[id].st = "unborn" /\ been[id] = {}
      /\ items \in Baskets /\ Sellable(op[r].store, op[r].products, items)
  BY DEF CInv, Placing, CommitOrder
<1>2. Sellable(store, products, items)
  BY <1>1 DEF CommitOrder, Unwritten, Sellable
<1>3. \A pc \in TakenFrom(items) :
        \E i \in DOMAIN items : pc[1] = items[i].p /\ pc[2] \in Touches(items[i])
  BY DEF TakenFrom
<1>4. items \in Seq(Line)
  BY <1>1, OrdersAssumption
<1>5. \A pc \in TakenFrom(items) : pc \in Products \X Counters
  <2> TAKE pc \in TakenFrom(items)
  <2>1. PICK i \in DOMAIN items : pc \in {items[i].p} \X Touches(items[i])
    BY DEF TakenFrom
  <2>2. items[i] \in Line
    BY <1>4, <2>1
  <2> QED
    BY <2>1, <2>2 DEF Line, Touches, Counters
<1>6. \A pc \in DOMAIN Takes(items) :
        /\ pc[1] \in {p \in Products : products[p].exists /\ products[p].st = "active"}
        /\ Takes(items)[pc] <= [qc \in Products \X Counters |-> products[qc[1]].stock[qc[2]]][pc]
  BY <1>2, <1>3, <1>5 DEF Sellable, Takes
<1>7. (store.st = "active") /\ \A p \in Products : products'[p].exists = products[p].exists
                                                /\ products'[p].st = products[p].st
  <2>1. \A p \in Products : products'[p] = [products[p] EXCEPT !.stock = products'[p].stock]
    BY DEF CommitOrder, CInv, Furnished, ProductFields
  <2> QED
    BY <2>1, <1>2 DEF Sellable, CInv, Furnished, ProductFields
<1>8. store'.st = store.st
  BY DEF CommitOrder, CInv, Furnished, StoreFields
<1>9. \A p \in Products, c \in Counters :
        products'[p].stock[c] = IF <<p, c>> \in TakenFrom(items)
                                THEN products[p].stock[c] - Takes(items)[<<p, c>>]
                                ELSE products[p].stock[c]
  <2> SUFFICES ASSUME NEW p \in Products, NEW c \in Counters
               PROVE  products'[p].stock[c] = IF <<p, c>> \in TakenFrom(items)
                                THEN products[p].stock[c] - Takes(items)[<<p, c>>]
                                ELSE products[p].stock[c]
    OBVIOUS
  <2>1. products'[p] = [products[p] EXCEPT
          !.stock = [d \in Counters |-> IF <<p, d>> \in TakenFrom(items)
                       THEN products[p].stock[d] - Takes(items)[p, d] ELSE products[p].stock[d]]]
    BY DEF CommitOrder
  <2>2. products'[p].stock = [d \in Counters |-> IF <<p, d>> \in TakenFrom(items)
                       THEN products[p].stock[d] - Takes(items)[p, d] ELSE products[p].stock[d]]
    BY <2>1 DEF CInv, Furnished, ProductFields
  <2> QED
    BY <2>2
<1>10. [pc \in Products \X Counters |-> products'[pc[1]].stock[pc[2]]]
       = [pc \in Products \X Counters |->
            IF pc \in DOMAIN Takes(items)
            THEN [qc \in Products \X Counters |-> products[qc[1]].stock[qc[2]]][pc] - Takes(items)[pc]
            ELSE [qc \in Products \X Counters |-> products[qc[1]].stock[qc[2]]][pc]]
  <2>1. DOMAIN Takes(items) = TakenFrom(items)
    BY DEF Takes
  <2> QED
    BY <2>1, <1>9
<1>11. /\ orders' = [orders EXCEPT ![id] = [st |-> "pending", paid |-> FALSE, items |-> items]]
       /\ been' = [been EXCEPT ![id] = @ \cup {"pending"}]
  BY DEF CommitOrder
<1>12. orders = [i \in OrderIds |-> orders[i]] /\ been = [i \in OrderIds |-> been[i]]
  BY DEF CInv, IInv, Shapes
<1> HIDE DEF items
<1>13. /\ \A i \in OrderIds : orders'[i].items = IF i = id THEN items ELSE orders[i].items
       /\ \A i \in OrderIds : orders'[i].st = IF i = id THEN "pending" ELSE orders[i].st
       /\ been' = [been EXCEPT ![id] = {"pending"}]
  BY <1>1, <1>11, <1>12
<1>14. /\ [i \in OrderIds |-> Takes(orders'[i].items)]
            = [[i \in OrderIds |-> Takes(orders[i].items)] EXCEPT ![id] = Takes(items)]
       /\ [i \in OrderIds |-> orders'[i].st]
            = [[i \in OrderIds |-> orders[i].st] EXCEPT ![id] = "pending"]
  BY <1>1, <1>13
<1>15. /\ (store'.st = "active") = (store.st = "active")
       /\ {p \in Products : products'[p].exists /\ products'[p].st = "active"}
            = {p \in Products : products[p].exists /\ products[p].st = "active"}
  BY <1>7, <1>8
<1> QED
  BY <1>1, <1>6, <1>7, <1>10, <1>13, <1>14, <1>15 DEF items, Shop!Place

\* A saved status follows one of the history.
LEMMA SaveAdvances ==
  ASSUME CInv, NEW r \in Procs, SaveOrder(r), NEW id, id = op[r].o, NEW to, to = op[r].to
  PROVE  /\ id \in OrderIds
         /\ \E st \in been[id] : to \in Shop!After(st)
         /\ Shop!Advance(id, to)
<1>1. id \in OrderIds /\ \E st \in been[id] : to \in Transitions(st)
  BY DEF SaveOrder, CInv, IInv, Follows, Saving
<1>2. \E st \in been[id] : to \in Shop!After(st)
  BY <1>1 DEF Transitions, Shop!After
<1>3. /\ orders' = [orders EXCEPT ![id].st = to, ![id].paid = @ \/ to = "delivered"]
      /\ been' = [been EXCEPT ![id] = @ \cup {to}]
      /\ UNCHANGED <<store, products>>
  BY DEF SaveOrder
<1>4. /\ orders = [i \in OrderIds |-> orders[i]] /\ been = [i \in OrderIds |-> been[i]]
      /\ \A i \in OrderIds : orders[i] = [f \in {"st", "paid", "items"} |-> orders[i][f]]
  BY DEF CInv, IInv, Shapes
<1>5. /\ \A i \in OrderIds : orders'[i].items = orders[i].items
      /\ \A i \in OrderIds : orders'[i].st = IF i = id THEN to ELSE orders[i].st
  BY <1>1, <1>3, <1>4
<1>6. /\ [i \in OrderIds |-> Takes(orders'[i].items)] = [i \in OrderIds |-> Takes(orders[i].items)]
      /\ [i \in OrderIds |-> orders'[i].st] = [[i \in OrderIds |-> orders[i].st] EXCEPT ![id] = to]
  BY <1>1, <1>5
<1> QED
  BY <1>1, <1>2, <1>3, <1>6 DEF Shop!Advance

\* Every other step leaves the orders alone.
LEMMA OthersManage ==
  ASSUME UNCHANGED <<orders, been>>
  PROVE  Shop!Manage
  BY DEF Shop!Manage

\* Every step of Orders is a step of Checkout.
LEMMA StepsImplement == CInv /\ [Next]_vars => [Shop!Next]_Shop!vars
<1> SUFFICES ASSUME CInv, Next PROVE Shop!Next \/ UNCHANGED Shop!vars
  BY DEF vars, Shop!vars
<1>1. ASSUME NEW r \in Procs, CommitOrder(r) PROVE Shop!Next
  <2>1. op[r].o \in OrderIds /\ Takes(op[r].items) \in {Takes(items) : items \in Baskets}
    BY <1>1 DEF CInv, Placing, CommitOrder
  <2>2. PICK id \in OrderIds : id = op[r].o
    BY <2>1
  <2>3. PICK t \in {Takes(items) : items \in Baskets} : t = Takes(op[r].items)
    BY <2>1
  <2>4. Shop!Place(id, t)
    BY <1>1, <2>2, <2>3, CommitPlaces
  <2> QED
    BY <2>4 DEF Shop!Next
<1>2. ASSUME NEW r \in Procs, SaveOrder(r) PROVE Shop!Next
  <2>1. PICK id, to : id = op[r].o /\ to = op[r].to
    OBVIOUS
  <2>2. /\ id \in OrderIds
        /\ \E st \in been[id] : to \in Shop!After(st)
        /\ Shop!Advance(id, to)
    BY <1>2, <2>1, SaveAdvances
  <2> QED
    BY <2>2 DEF Shop!Next
<1>3. ASSUME UNCHANGED <<orders, been>> PROVE Shop!Next
  BY <1>3, OthersManage DEF Shop!Next
<1>4. AtRest => UNCHANGED <<orders, been>>
  BY DEF AtRest, vars
<1>5. ASSUME NEW r \in Procs, Request(r) \/ Crash(r) PROVE UNCHANGED <<orders, been>>
  BY <1>5 DEF Request, Crash, CreateOrder, UpdateOrderStatus, UpdateProduct, DeleteProduct,
              AdminUpdateProductStatus, CloseStore, AdminUpdateStoreStatus
<1>6. ASSUME NEW r \in Procs, Step(r) PROVE Shop!Next
  <2>1. CASE RetryOrder(r) \/ RestoreLine(r) \/ CountRevenue(r) \/ CountSold(r)
             \/ VerifyStoreOwnership(r) \/ SaveProduct(r) \/ RemoveProduct(r)
             \/ UpdateProducts(r) \/ SaveStore(r)
    <3>1. UNCHANGED <<orders, been>>
      BY <2>1 DEF RetryOrder, RestoreLine, CountRevenue, CountSold, VerifyStoreOwnership,
                  SaveProduct, RemoveProduct, UpdateProducts, SaveStore
    <3> QED
      BY <3>1, <1>3
  <2> QED
    BY <1>1, <1>2, <1>6, <2>1 DEF Step
<1> QED
  BY <1>3, <1>4, <1>5, <1>6 DEF Next

\* Nothing is ordered initially.
LEMMA InitImplements == Init => Shop!Init
<1> SUFFICES ASSUME Init PROVE Shop!Init
  OBVIOUS
<1>1. store.st = "active" /\ \A p \in Products : products[p].exists /\ products[p].st = "active"
  BY DEF Init, NoStore, Shelf, OnShelf
<1>2. \A id \in OrderIds : orders[id].st = "unborn" /\ orders[id].items = <<>>
  BY DEF Init
<1>3. DOMAIN Takes(<<>>) = {}
  BY DEF Takes, TakenFrom
<1>4. been = [id \in OrderIds |-> {}]
  BY DEF Init
<1> QED
  BY <1>1, <1>2, <1>3, <1>4 DEF Shop!Init

\* Orders implements Checkout: an order is placed in one step, when the store is open,
\* everything it takes is on sale and in stock, and moves along its stages from there
\* (order.service.ts:28-144, 227-321), for any orders, products, baskets and requests.
THEOREM CheckoutImplemented == Spec => ImplementsCheckout
<1>1. Spec => []CInv
  BY InitPlacing, PlacingNext, PTL DEF Spec
<1> QED
  BY <1>1, InitImplements, StepsImplement, PTL DEF Spec, ImplementsCheckout, Shop!Spec


-----------------------------------------------------------------------------
\* The lines of an order.
LEMMA LinesFinite ==
  ASSUME NEW items \in Seq(Line)
  PROVE  /\ DOMAIN items = 1..Len(items) /\ IsFiniteSet(DOMAIN items)
         /\ Quantities(items) = [i \in DOMAIN items |-> items[i].n]
         /\ \A i \in DOMAIN items : items[i] \in Line /\ Quantities(items)[i] \in Nat
<1>1. DOMAIN items = 1..Len(items) /\ Len(items) \in Nat
  OBVIOUS
<1>2. IsFiniteSet(1..Len(items))
  BY <1>1, FS_Interval
<1>3. \A i \in DOMAIN items : items[i] \in Line
  BY <1>1
<1>4. \A line \in Line : line.n \in Nat
  BY DEF Line
<1> QED
  BY <1>1, <1>2, <1>3, <1>4 DEF Quantities

LEMMA DemandNat ==
  ASSUME NEW items \in Seq(Line), NEW p, NEW c
  PROVE  Demand(items, p, c) \in Nat /\ Units(items) \in Nat
<1> DEFINE S == {i \in DOMAIN items : items[i].p = p /\ c \in Touches(items[i])}
<1>1. IsFiniteSet(S) /\ S \subseteq DOMAIN items
  BY LinesFinite, FS_Subset
<1>2. \A i \in S : Quantities(items)[i] \in Nat
  BY <1>1, LinesFinite
<1> HIDE DEF S
<1>3. SumFunctionOnSet(Quantities(items), S) \in Nat
  BY <1>1, <1>2, SumNat
<1>4. SumFunctionOnSet(Quantities(items), DOMAIN items) \in Nat
  BY LinesFinite, SumNat
<1> QED
  BY <1>3, <1>4 DEF S, Demand, Units

LEMMA DemandEmpty ==
  ASSUME NEW p, NEW c
  PROVE  Demand(<<>>, p, c) = 0 /\ Units(<<>>) = 0
<1>1. {i \in DOMAIN <<>> : <<>>[i].p = p /\ c \in Touches(<<>>[i])} = {} /\ DOMAIN <<>> = {}
  OBVIOUS
<1> QED
  BY <1>1, SumEmpty DEF Demand, Units

\* What a line takes of a counter.
TakesOf(line, p, c) == IF line.p = p /\ c \in Touches(line) THEN line.n ELSE 0

\* What is demanded is what the first line takes and what the others demand.
LEMMA DemandHead ==
  ASSUME NEW items \in Seq(Line), items # <<>>, NEW p, NEW c
  PROVE  /\ Head(items) \in Line /\ Tail(items) \in Seq(Line)
         /\ Demand(items, p, c) = TakesOf(Head(items), p, c) + Demand(Tail(items), p, c)
<1> DEFINE tail == Tail(items)
           S == {i \in DOMAIN items : items[i].p = p /\ c \in Touches(items[i])}
           T == {i \in DOMAIN tail : tail[i].p = p /\ c \in Touches(tail[i])}
           h == [i \in S \ {1} |-> i - 1]
           f == Quantities(items)
           g == Quantities(tail)
<1>1. /\ Head(items) \in Line /\ tail \in Seq(Line) /\ Head(items) = items[1]
      /\ Len(items) \in Nat \ {0} /\ DOMAIN items = 1..Len(items)
      /\ DOMAIN tail = 1..(Len(items) - 1) /\ \A i \in DOMAIN tail : tail[i] = items[i + 1]
  OBVIOUS
<1>2. IsFiniteSet(S) /\ IsFiniteSet(S \ {1}) /\ \A i \in S : f[i] \in Nat /\ f[i] = items[i].n
  BY LinesFinite, FS_Subset
<1>3. \A i \in DOMAIN tail : g[i] = items[i + 1].n
  BY <1>1 DEF Quantities
<1> HIDE DEF f, g, tail
<1>4. \A i \in S \ {1} : h[i] \in T /\ g[h[i]] = f[i]
  BY <1>1, <1>2, <1>3
<1>5. \A j \in T : j + 1 \in S \ {1} /\ h[j + 1] = j
  BY <1>1
<1>6. h \in Bijection(S \ {1}, T)
  <2>1. \A i, j \in S \ {1} : h[i] = h[j] => i = j
    BY <1>1
  <2>2. DOMAIN h = S \ {1} /\ h = [i \in S \ {1} |-> h[i]]
    OBVIOUS
  <2> HIDE DEF h, S, T
  <2>3. \A j \in T : \E i \in S \ {1} : h[i] = j
    BY <1>5
  <2> QED
    BY <1>4, <2>1, <2>2, <2>3 DEF Bijection, Injection, Surjection, IsInjective
<1> HIDE DEF S, T, h
<1>7. SumFunctionOnSet(g, T) = SumFunctionOnSet(f, S \ {1})
  BY <1>2, <1>4, <1>6, SumRename
<1>8. SumFunctionOnSet(f, S) = TakesOf(Head(items), p, c) + SumFunctionOnSet(f, S \ {1})
  <2>1. CASE 1 \in S
    <3>1. f[1] = TakesOf(Head(items), p, c)
      BY <1>1, <1>2, <2>1 DEF S, TakesOf
    <3>2. SumFunctionOnSet(f, S) = f[1] + SumFunctionOnSet(f, S \ {1})
      BY <1>2, <2>1, SumRemove
    <3> QED
      BY <3>1, <3>2
  <2>2. CASE 1 \notin S
    <3>1. TakesOf(Head(items), p, c) = 0
      BY <1>1, <2>2 DEF S, TakesOf
    <3>2. SumFunctionOnSet(f, S) \in Nat
      BY <1>2, SumNat
    <3>3. S \ {1} = S
      BY <2>2
    <3>4. SumFunctionOnSet(f, S \ {1}) = SumFunctionOnSet(f, S)
      BY <3>3
    <3> QED
      BY <3>1, <3>2, <3>4
  <2> QED
    BY <2>1, <2>2
<1> QED
  BY <1>1, <1>7, <1>8 DEF S, T, f, g, tail, Demand

-----------------------------------------------------------------------------
\* What a request in flight is about.
Sound(o) ==
  /\ o.at \in {"restore", "revenue", "sold"} => o.items # <<>>
  /\ o.at = "restore" => o.to = "cancelled"
  /\ o.at \in {"revenue", "sold"} => o.to = "delivered"
  /\ o.at = "saveOrder" /\ o.to = "cancelled" => o.items = <<>>
  /\ o.at \in {"verify", "saveProduct", "removeProduct"} => o.p \in Products
  /\ o.at \in {"updateProducts", "saveStore"} => o.to \in StoreStatus

\* A request saves an order that has been placed; what it still has to restore is
\* part of what the order demands, what it is going to count is the whole order.
About(o, os) ==
  Saving(o) =>
    /\ o.o \in OrderIds /\ os[o.o].st # "unborn"
    /\ o.at = "restore" =>
         \A p \in Products, c \in Counters :
           Demand(o.items, p, c) <= Demand(os[o.o].items, p, c)
    /\ o.at = "revenue" => o.items = os[o.o].items

\* An order has lines from its placement on.
Kept(order) == IF order.st = "unborn" THEN order.items = <<>> /\ ~order.paid
               ELSE order.items # <<>>

SInv ==
  /\ CInv
  /\ TypeOK
  /\ \A r \in Procs : Sound(op[r]) /\ About(op[r], orders)
  /\ \A id \in OrderIds : Kept(orders[id])

\* What is put on sale, and nothing being done.
LEMMA ShelfTyped == Shelf \in [Products -> Product] /\ NoStore \in Store /\ NoEdit \in Edit
<1>1. Cardinality(Variants) \in Nat
  BY OrdersAssumption, FS_CardinalityType
<1>2. OnSale * (IF Variants = {} THEN 1 ELSE Cardinality(Variants)) \in Nat
  BY <1>1, OrdersAssumption
<1>3. OnShelf.stock \in [Counters -> Nat]
  BY <1>2, OrdersAssumption DEF OnShelf
<1>4. OnShelf = [exists |-> TRUE, st |-> "active", v |-> 0, sold |-> 0, stock |-> OnShelf.stock]
  BY DEF OnShelf
<1>5. OnShelf \in Product
  <2> DEFINE s == OnShelf.stock
  <2>1. s \in [Counters -> Nat] /\ OnShelf = [exists |-> TRUE, st |-> "active", v |-> 0, sold |-> 0, stock |-> s]
    BY <1>3, <1>4
  <2>2. "active" \in ProductStatus
    BY DEF ProductStatus
  <2> HIDE DEF s
  <2> QED
    BY <2>1, <2>2 DEF Product
<1>6. NoStore \in Store
  BY DEF NoStore, Store, StoreStatus
<1>7. NoEdit \in Edit
  BY DEF NoEdit, Edit
<1> QED
  BY <1>5, <1>6, <1>7 DEF Shelf

\* The operation that ends a request.
LEMMA IdleTyped == Idle \in Operation /\ Sound(Idle) /\ \A os : About(Idle, os)
<1>1. "none" \in Kinds \cup {"none"} /\ "idle" \in Steps /\ <<>> \in Seq(Line)
      /\ "pending" \in OrderStatus \cup StoreStatus
  BY DEF Steps, OrderStatus
<1>2. \A st \in Store, ps \in [Products -> Product], e \in Edit, at \in Steps,
         to \in OrderStatus \cup StoreStatus, items \in Seq(Line) :
        [kind |-> "none", at |-> at, items |-> items, store |-> st, products |-> ps,
         o |-> None, p |-> None, to |-> to, edit |-> e] \in Operation
  BY DEF Operation
<1>3. Idle \in Operation
  BY <1>1, <1>2, ShelfTyped DEF Idle
<1> QED
  BY <1>3 DEF Idle, Sound, About, Saving

\* Initially everything is on sale.
LEMMA InitSound == Init => SInv
<1> SUFFICES ASSUME Init PROVE SInv
  OBVIOUS
<1>1. CInv
  BY InitPlacing
<1>2. \A r \in Procs : op[r] = Idle
  BY DEF Init
<1>3. \A id \in OrderIds : orders[id] = [st |-> "unborn", paid |-> FALSE, items |-> <<>>]
  BY DEF Init
<1>4. orders \in [OrderIds -> Order]
  <2>1. [st |-> "unborn", paid |-> FALSE, items |-> <<>>] \in Order
    BY DEF Order
  <2> QED
    BY <2>1 DEF Init
<1>5. TypeOK
  BY <1>4, ShelfTyped, IdleTyped DEF Init, TypeOK
<1>6. \A id \in OrderIds : Kept(orders[id])
  BY <1>3 DEF Kept
<1> QED
  BY <1>1, <1>2, <1>5, <1>6, IdleTyped DEF SInv

\* A slot changes, the orders do not.
LEMMA SoundSlot ==
  ASSUME SInv, CInv', NEW r \in Procs, NEW o \in Operation, Become(r, o), Sound(o),
         About(o, orders), store' \in Store, products' \in [Products -> Product],
         edited' \subseteq Products, UNCHANGED <<orders, been>>
  PROVE  SInv'
<1>1. op' = [op EXCEPT ![r] = o] /\ op \in [Procs -> Operation]
  BY DEF Become, SInv, TypeOK
<1>2. op' \in [Procs -> Operation] /\ \A s \in Procs : op'[s] = IF s = r THEN o ELSE op[s]
  BY <1>1
<1>3. TypeOK'
  BY <1>2 DEF SInv, TypeOK
<1>4. \A s \in Procs : Sound(op'[s]) /\ About(op'[s], orders)
  BY <1>2 DEF SInv
<1>5. \A id \in OrderIds : Kept(orders'[id])
  BY DEF SInv
<1> QED
  BY <1>3, <1>4, <1>5 DEF SInv, About, Sound

\* What a slot holds has its types.
LEMMA SlotTyped ==
  ASSUME SInv, NEW r \in Procs
  PROVE  /\ op[r] \in Operation /\ Sound(op[r]) /\ About(op[r], orders)
         /\ op[r] = [kind |-> op[r].kind, at |-> op[r].at, items |-> op[r].items,
                     store |-> op[r].store, products |-> op[r].products, o |-> op[r].o,
                     p |-> op[r].p, to |-> op[r].to, edit |-> op[r].edit]
         /\ op[r].kind \in Kinds \cup {"none"} /\ op[r].at \in Steps
         /\ op[r].items \in Seq(Line) /\ op[r].store \in Store
         /\ op[r].products \in [Products -> Product]
         /\ op[r].o \in OrderIds \cup {None} /\ op[r].p \in Products \cup {None}
         /\ op[r].to \in OrderStatus \cup StoreStatus /\ op[r].edit \in Edit
<1>1. op[r] \in Operation /\ Sound(op[r]) /\ About(op[r], orders)
  BY DEF SInv, TypeOK
<1>2. PICK o : o = op[r]
  OBVIOUS
<1>3. o \in Operation
  BY <1>1, <1>2
<1>4. /\ o = [kind |-> o.kind, at |-> o.at, items |-> o.items,
                     store |-> o.store, products |-> o.products, o |-> o.o,
                     p |-> o.p, to |-> o.to, edit |-> o.edit]
         /\ o.kind \in Kinds \cup {"none"} /\ o.at \in Steps
         /\ o.items \in Seq(Line) /\ o.store \in Store
         /\ o.products \in [Products -> Product]
         /\ o.o \in OrderIds \cup {None} /\ o.p \in Products \cup {None}
         /\ o.to \in OrderStatus \cup StoreStatus /\ o.edit \in Edit
  BY <1>3 DEF Operation
<1> QED
  BY <1>1, <1>2, <1>4

LEMMA DocumentsTyped ==
  ASSUME SInv
  PROVE  /\ store \in Store /\ products \in [Products -> Product]
         /\ orders \in [OrderIds -> Order] /\ edited \subseteq Products
         /\ \A id \in OrderIds : orders[id].items \in Seq(Line) /\ orders[id].st \in OrderStatus \cup {"unborn"}
<1>1. \A order \in Order : order.items \in Seq(Line) /\ order.st \in OrderStatus \cup {"unborn"}
  BY DEF Order
<1> QED
  BY <1>1 DEF SInv, TypeOK

-----------------------------------------------------------------------------
\* The first calls of the requests.
LEMMA SoundOrder ==
  ASSUME SInv, CInv', NEW r \in Procs, NEW id \in OrderIds, NEW items \in Baskets,
         CreateOrder(r, id, items)
  PROVE  SInv'
<1> DEFINE o == [Idle EXCEPT !.kind = "order", !.at = "commit", !.o = id, !.items = items,
                             !.store = store, !.products = products]
<1>1. Become(r, o) /\ UNCHANGED <<store, products, orders, been, edited>>
  BY DEF CreateOrder
<1>2. "order" \in Kinds \cup {"none"} /\ "commit" \in Steps /\ items \in Seq(Line)
  BY OrdersAssumption DEF Kinds, Steps
<1>3. o \in Operation /\ o.at = "commit"
  BY <1>2, DocumentsTyped, IdleTyped DEF Operation
<1>4. Sound(o) /\ About(o, orders)
  BY <1>3 DEF Sound, About, Saving
<1> HIDE DEF o
<1> QED
  BY <1>1, <1>3, <1>4, DocumentsTyped, SoundSlot

LEMMA SoundStatus ==
  ASSUME SInv, CInv', NEW r \in Procs, NEW id \in OrderIds, NEW by, NEW to \in RequestedStatus,
         UpdateOrderStatus(r, id, by, to)
  PROVE  SInv'
<1> DEFINE at == FirstCall(to)
           o == [Idle EXCEPT !.kind = "status", !.at = at, !.o = id, !.to = to,
                             !.items = orders[id].items]
<1>1. /\ Become(r, o) /\ UNCHANGED <<store, products, orders, been, edited>>
      /\ to \in Transitions(orders[id].st)
  BY DEF UpdateOrderStatus
<1>2. "status" \in Kinds \cup {"none"} /\ to \in OrderStatus \cup StoreStatus
  BY DEF Kinds, OrderStatus, RequestedStatus
<1>3. /\ at \in {"restore", "revenue", "saveOrder"}
      /\ at = "restore" <=> to = "cancelled"
      /\ at = "revenue" <=> to = "delivered"
  BY DEF FirstCall
<1>4. at \in Steps
  BY <1>3 DEF Steps
<1> HIDE DEF at
<1>5. /\ o \in Operation /\ o.at = at /\ o.o = id /\ o.to = to
      /\ o.items = orders[id].items
  BY <1>2, <1>4, DocumentsTyped, IdleTyped DEF Operation
<1>6. orders[id].st # "unborn" /\ orders[id].items # <<>>
  BY <1>1 DEF Transitions, SInv, Kept
<1>7. \A p \in Products, c \in Counters : Demand(orders[id].items, p, c) \in Nat
  BY DocumentsTyped, DemandNat
<1>8. \A p \in Products, c \in Counters :
        Demand(orders[id].items, p, c) <= Demand(orders[id].items, p, c)
  BY <1>7
<1> HIDE DEF o
<1>9. Sound(o) /\ About(o, orders)
  BY <1>3, <1>5, <1>6, <1>8 DEF Sound, About, Saving
<1> QED
  BY <1>1, <1>5, <1>9, DocumentsTyped, SoundSlot

\* The requests of the owner and of the administrators change nothing at first.
LEMMA SoundManage ==
  ASSUME SInv, CInv', NEW r \in Procs, NEW o \in Operation,
         o.at \in {"verify", "saveProduct", "updateProducts", "saveStore"},
         o.at \in {"verify", "saveProduct"} => o.p \in Products,
         o.at \in {"updateProducts", "saveStore"} => o.to \in StoreStatus,
         Become(r, o), UNCHANGED <<store, products, orders, been, edited>>
  PROVE  SInv'
<1>1. Sound(o) /\ About(o, orders)
  BY DEF Sound, About, Saving
<1> QED
  BY <1>1, DocumentsTyped, SoundSlot

LEMMA SoundRequest == ASSUME SInv, CInv', NEW r \in Procs, Request(r) PROVE SInv'
<1> USE DocumentsTyped, ShelfTyped, IdleTyped
<1>1. /\ {"edit", "delete", "adminProduct", "closeStore", "adminStore"} \subseteq Kinds
      /\ {"verify", "saveProduct", "updateProducts", "saveStore"} \subseteq Steps
      /\ {"pending", "closed", "active", "suspended"} \subseteq OrderStatus \cup StoreStatus
      /\ {"closed", "active", "suspended"} \subseteq StoreStatus
  BY DEF Kinds, Steps, OrderStatus, StoreStatus
<1>2. ASSUME NEW p \in Products, NEW e \in Edits, UpdateProduct(r, p, e) PROVE SInv'
  <2> DEFINE o == [Idle EXCEPT !.kind = "edit", !.at = "verify", !.p = p,
                               !.edit = e, !.products = products]
  <2>1. Become(r, o) /\ UNCHANGED <<store, products, orders, been, edited>>
    BY <1>2 DEF UpdateProduct
  <2>2. e \in Edit
    BY OrdersAssumption
  <2>3. o \in Operation /\ o.at = "verify" /\ o.p = p
    BY <1>1, <2>2 DEF Operation
  <2> HIDE DEF o
  <2> QED
    BY <1>1, <2>1, <2>3, SoundManage
<1>3. ASSUME NEW p \in Products, DeleteProduct(r, p) PROVE SInv'
  <2> DEFINE o == [Idle EXCEPT !.kind = "delete", !.at = "verify", !.p = p]
  <2>1. Become(r, o) /\ UNCHANGED <<store, products, orders, been, edited>>
    BY <1>3 DEF DeleteProduct
  <2>3. o \in Operation /\ o.at = "verify" /\ o.p = p
    BY <1>1 DEF Operation
  <2> HIDE DEF o
  <2> QED
    BY <1>1, <2>1, <2>3, SoundManage
<1>4. ASSUME NEW p \in Products, NEW st \in {"active", "hidden"},
             AdminUpdateProductStatus(r, p, st)
      PROVE SInv'
  <2> DEFINE o == [Idle EXCEPT !.kind = "adminProduct", !.at = "saveProduct", !.p = p,
                               !.edit.st = st, !.products = products]
  <2>1. Become(r, o) /\ UNCHANGED <<store, products, orders, been, edited>>
    BY <1>4 DEF AdminUpdateProductStatus
  <2>2. \A e \in Edit : [e EXCEPT !.st = st] \in Edit
    BY DEF Edit, ProductStatus
  <2>3. o \in Operation /\ o.at = "saveProduct" /\ o.p = p
    BY <1>1, <2>2 DEF Operation
  <2> HIDE DEF o
  <2> QED
    BY <1>1, <2>1, <2>3, SoundManage
<1>5. ASSUME CloseStore(r) PROVE SInv'
  <2> DEFINE o == [Idle EXCEPT !.kind = "closeStore", !.at = "updateProducts",
                               !.to = "closed", !.store = store]
  <2>1. Become(r, o) /\ UNCHANGED <<store, products, orders, been, edited>>
    BY <1>5 DEF CloseStore
  <2>3. o \in Operation /\ o.at = "updateProducts" /\ o.to = "closed"
    BY <1>1 DEF Operation
  <2> HIDE DEF o
  <2> QED
    BY <1>1, <2>1, <2>3, SoundManage
<1>6. ASSUME NEW st \in {"active", "suspended", "closed"}, AdminUpdateStoreStatus(r, st)
      PROVE SInv'
  <2> DEFINE o == [Idle EXCEPT !.kind = "adminStore", !.to = st, !.store = store,
                     !.at = IF st = "suspended" THEN "updateProducts" ELSE "saveStore"]
  <2>1. Become(r, o) /\ UNCHANGED <<store, products, orders, been, edited>>
    BY <1>6 DEF AdminUpdateStoreStatus
  <2>3. o \in Operation /\ o.at \in {"updateProducts", "saveStore"} /\ o.to = st
    BY <1>1 DEF Operation
  <2> HIDE DEF o
  <2> QED
    BY <1>1, <2>1, <2>3, SoundManage
<1>7. ASSUME NEW by, NEW id \in OrderIds, NEW to \in RequestedStatus,
             UpdateOrderStatus(r, id, by, to)
      PROVE  SInv'
  BY <1>7, SoundStatus
<1>8. ASSUME NEW id \in OrderIds, NEW items \in Baskets, CreateOrder(r, id, items) PROVE SInv'
  BY <1>8, SoundOrder
<1> QED
  BY <1>2, <1>3, <1>4, <1>5, <1>6, <1>7, <1>8 DEF Request

-----------------------------------------------------------------------------
\* The calls on products and on the store.
LEMMA ProductTyped ==
  ASSUME NEW d \in Product
  PROVE  /\ d.exists \in BOOLEAN /\ d.st \in ProductStatus /\ d.v \in Nat /\ d.sold \in Nat
         /\ d.stock \in [Counters -> Nat]
         /\ \A stock \in [Counters -> Nat] : [d EXCEPT !.stock = stock] \in Product
         /\ \A n \in Nat : [d EXCEPT !.sold = n] \in Product
         /\ \A b \in BOOLEAN : [d EXCEPT !.exists = b] \in Product
         /\ \A st \in ProductStatus : [d EXCEPT !.st = st] \in Product
  BY DEF Product

LEMMA OnProductTyped ==
  ASSUME NEW p \in Products, NEW d \in Product, products \in [Products -> Product],
         products' = IF products[p].exists THEN [products EXCEPT ![p] = d] ELSE products
  PROVE  products' \in [Products -> Product]
  OBVIOUS

LEMMA LineTyped ==
  ASSUME NEW items \in Seq(Line), items # <<>>
  PROVE  /\ Head(items) \in Line /\ Head(items).p \in Products /\ Head(items).c \in Counters
         /\ Head(items).n \in Nat \ {0} /\ Tail(items) \in Seq(Line)
         /\ Len(items) \in Nat /\ (Len(items) = 1 <=> Tail(items) = <<>>)
<1>1. /\ Head(items) \in Line /\ Tail(items) \in Seq(Line)
      /\ Len(items) \in Nat \ {0} /\ Len(Tail(items)) = Len(items) - 1
  OBVIOUS
<1>3. \A s \in Seq(Line) : Len(s) = 0 <=> s = <<>>
  OBVIOUS
<1>4. Len(items) = 1 <=> Tail(items) = <<>>
  <2> DEFINE t == Tail(items)
  <2>1. Len(t) = 0 <=> t = <<>>
    BY <1>1, <1>3
  <2> HIDE DEF t
  <2>2. Len(items) = 1 <=> Len(t) = 0
    BY <1>1 DEF t
  <2> QED
    BY <2>1, <2>2 DEF t
<1>2. \A line \in Line : line.p \in Products /\ line.c \in Counters /\ line.n \in Nat \ {0}
  BY DEF Line
<1> QED
  BY <1>1, <1>2, <1>4

\* The next line: one line less, of the same order.
LEMMA NextLineSound ==
  ASSUME NEW o \in Operation, o.items # <<>>, o.at \in {"restore", "sold"}, Sound(o),
         NEW n, n = NextLine(o)
  PROVE  /\ n \in Operation /\ Sound(n)
         /\ n.o = o.o /\ n.to = o.to /\ n.items = Tail(o.items) /\ n.items \in Seq(Line)
         /\ n.at = IF Len(o.items) = 1 THEN "saveOrder" ELSE o.at
         /\ (Len(o.items) = 1 <=> n.items = <<>>)
<1>1. o.items \in Seq(Line)
  BY DEF Operation
<1>2. /\ Tail(o.items) \in Seq(Line) /\ Len(o.items) \in Nat
      /\ (Len(o.items) = 1 <=> Tail(o.items) = <<>>)
  BY <1>1, LineTyped
<1>3. "saveOrder" \in Steps
  BY DEF Steps
<1>4. n = [o EXCEPT !.at = IF Len(o.items) = 1 THEN "saveOrder" ELSE o.at,
                    !.items = Tail(o.items)]
  BY <1>2 DEF NextLine, Operation
<1>5. /\ n \in Operation /\ n.o = o.o /\ n.to = o.to /\ n.items = Tail(o.items)
      /\ n.at = IF Len(o.items) = 1 THEN "saveOrder" ELSE o.at
  BY <1>2, <1>3, <1>4 DEF Operation
<1>6. Sound(n)
  BY <1>2, <1>5 DEF Sound
<1> QED
  BY <1>2, <1>5, <1>6

\* The commit takes from every counter what the order demands of it, and the counter
\* covers it: what the snapshot showed still holds.
LEMMA CommitTakes ==
  ASSUME SInv, NEW r \in Procs, CommitOrder(r), NEW items, items = op[r].items
  PROVE  /\ op[r].o \in OrderIds /\ orders[op[r].o].st = "unborn"
         /\ items \in Seq(Line) /\ items # <<>>
         /\ products' \in [Products -> Product]
         /\ \A p \in Products : products'[p] = [products[p] EXCEPT !.stock = products'[p].stock]
         /\ \A p \in Products, c \in Counters :
              /\ Demand(items, p, c) <= products[p].stock[c]
              /\ products'[p].stock[c] = products[p].stock[c] - Demand(items, p, c)
<1>1. /\ op[r].o \in OrderIds /\ orders[op[r].o].st = "unborn" /\ items \in Baskets
      /\ Sellable(op[r].store, op[r].products, items)
  BY DEF SInv, CInv, Placing, CommitOrder
<1>2. items \in Seq(Line) /\ items # <<>>
  BY <1>1, OrdersAssumption
<1>3. Sellable(store, products, items)
  BY <1>1 DEF CommitOrder, Unwritten, Sellable
<1>4. \A p \in Products, c \in Counters :
        Demand(items, p, c) \in Nat /\ products[p].stock[c] \in Nat
  BY <1>2, DemandNat, DocumentsTyped, ProductTyped
<1>5. ASSUME NEW p \in Products, NEW c \in Counters, <<p, c>> \in TakenFrom(items)
      PROVE  Demand(items, p, c) <= products[p].stock[c] /\ Takes(items)[<<p, c>>] = Demand(items, p, c)
  <2>1. \E i \in DOMAIN items : items[i].p = p /\ c \in Touches(items[i])
    BY <1>5 DEF TakenFrom
  <2>2. Demand(items, p, c) <= products[p].stock[c]
    BY <1>3, <2>1 DEF Sellable
  <2>3. Takes(items)[<<p, c>>] = Demand(items, p, c)
    BY <1>5 DEF Takes
  <2> QED
    BY <2>2, <2>3
<1>6. ASSUME NEW p \in Products, NEW c \in Counters, <<p, c>> \notin TakenFrom(items)
      PROVE  Demand(items, p, c) = 0
  <2>1. {i \in DOMAIN items : items[i].p = p /\ c \in Touches(items[i])} = {}
    BY <1>6 DEF TakenFrom
  <2> QED
    BY <2>1, SumEmpty DEF Demand
<1>7. /\ products' = [p \in Products |-> products'[p]]
      /\ \A p \in Products : products'[p] = [products[p] EXCEPT
           !.stock = [c \in Counters |-> IF <<p, c>> \in TakenFrom(items)
             THEN products[p].stock[c] - Takes(items)[<<p, c>>] ELSE products[p].stock[c]]]
  BY DEF CommitOrder
<1>8. ASSUME NEW p \in Products
      PROVE  /\ products'[p] \in Product
             /\ products'[p] = [products[p] EXCEPT !.stock = products'[p].stock]
             /\ \A c \in Counters :
                  /\ Demand(items, p, c) <= products[p].stock[c]
                  /\ products'[p].stock[c] = products[p].stock[c] - Demand(items, p, c)
  <2> DEFINE new == [c \in Counters |-> IF <<p, c>> \in TakenFrom(items)
                       THEN products[p].stock[c] - Takes(items)[<<p, c>>] ELSE products[p].stock[c]]
  <2>1. \A c \in Counters : /\ Demand(items, p, c) <= products[p].stock[c]
                            /\ new[c] = products[p].stock[c] - Demand(items, p, c)
    BY <1>4, <1>5, <1>6
  <2>2. new \in [Counters -> Nat]
    BY <1>4, <2>1
  <2>3. products'[p] = [products[p] EXCEPT !.stock = new]
    BY <1>7
  <2>4. products[p] \in Product
    BY DocumentsTyped
  <2> HIDE DEF new
  <2>5. products'[p] \in Product
    BY <2>2, <2>3, <2>4, ProductTyped
  <2>6. products'[p].stock = new
    BY <2>3, <2>4 DEF Product
  <2> QED
    BY <2>1, <2>3, <2>5, <2>6
<1>9. products' \in [Products -> Product]
  BY <1>7, <1>8
<1> QED
  BY <1>1, <1>2, <1>8, <1>9

LEMMA StoreTyped ==
  ASSUME NEW s \in Store
  PROVE  /\ s.st \in StoreStatus /\ s.orders \in Nat /\ s.revenue \in Nat
         /\ \A n \in Nat : [s EXCEPT !.orders = n] \in Store
         /\ \A n \in Nat : [s EXCEPT !.revenue = n] \in Store
         /\ \A st \in StoreStatus : [s EXCEPT !.st = st] \in Store
  BY DEF Store

\* The steps that write an order.  Nobody else is about an order that is being placed.
LEMMA SoundWritten ==
  ASSUME SInv, CInv', NEW r \in Procs, Become(r, Idle), NEW id \in OrderIds, NEW order \in Order,
         order.st # "unborn", order.items # <<>>,
         orders' = [orders EXCEPT ![id] = order],
         orders[id].st = "unborn" \/ order.items = orders[id].items,
         NEW st \in OrderStatus, been' = [been EXCEPT ![id] = @ \cup {st}],
         store' \in Store, products' \in [Products -> Product], UNCHANGED edited
  PROVE  SInv'
<1>1. op' = [op EXCEPT ![r] = Idle] /\ op \in [Procs -> Operation]
  BY DEF Become, SInv, TypeOK
<1>2. op' \in [Procs -> Operation] /\ \A s \in Procs : op'[s] = IF s = r THEN Idle ELSE op[s]
  BY <1>1, IdleTyped
<1>3. orders' \in [OrderIds -> Order] /\ \A i \in OrderIds : orders'[i] = IF i = id THEN order ELSE orders[i]
  BY DocumentsTyped
<1>4. been' \in [OrderIds -> SUBSET OrderStatus]
  BY DEF SInv, TypeOK
<1>5. TypeOK'
  BY <1>2, <1>3, <1>4, DocumentsTyped DEF TypeOK
<1>6. ASSUME NEW s \in Procs PROVE Sound(op'[s]) /\ About(op'[s], orders')
  <2>1. CASE s = r
    BY <1>2, <2>1, IdleTyped
  <2>2. CASE s # r
    <3>1. Sound(op[s]) /\ About(op[s], orders)
      BY DEF SInv
    <3> QED
      BY <1>2, <1>3, <2>2, <3>1 DEF About
  <2> QED
    BY <2>1, <2>2
<1>7. \A i \in OrderIds : Kept(orders'[i])
  BY <1>3 DEF SInv, Kept
<1> QED
  BY <1>5, <1>6, <1>7 DEF SInv, Sound

LEMMA SoundCommit == ASSUME SInv, CInv', NEW r \in Procs, CommitOrder(r) PROVE SInv'
<1> DEFINE order == [st |-> "pending", paid |-> FALSE, items |-> op[r].items]
           id == op[r].o
<1>1. /\ id \in OrderIds /\ orders[id].st = "unborn"
      /\ op[r].items \in Seq(Line) /\ op[r].items # <<>>
      /\ products' \in [Products -> Product]
  BY CommitTakes
<1>2. order \in Order /\ order.st # "unborn" /\ order.items # <<>>
  BY <1>1 DEF Order, OrderStatus
<1>3. "pending" \in OrderStatus
  BY DEF OrderStatus
<1>4. /\ Become(r, Idle) /\ UNCHANGED edited
      /\ orders' = [orders EXCEPT ![id] = order]
      /\ been' = [been EXCEPT ![id] = @ \cup {"pending"}]
      /\ store' = [store EXCEPT !.orders = store.orders + 1]
  BY DEF CommitOrder
<1>5. store' \in Store
  <2>1. store \in Store
    BY DocumentsTyped
  <2>2. store.orders + 1 \in Nat
    BY <2>1, StoreTyped
  <2> QED
    BY <1>4, <2>1, <2>2, StoreTyped
<1> HIDE DEF order, id
<1> QED
  BY <1>1, <1>2, <1>3, <1>4, <1>5, SoundWritten

LEMMA SoundSave == ASSUME SInv, CInv', NEW r \in Procs, SaveOrder(r) PROVE SInv'
<1> DEFINE id == op[r].o
           to == op[r].to
           order == [orders[id] EXCEPT !.st = to, !.paid = @ \/ to = "delivered"]
<1>1. id \in OrderIds /\ orders[id].st # "unborn" /\ to \in RequestedStatus
  BY SlotTyped DEF SaveOrder, About, Saving, SInv, CInv, IInv, Follows
<1>2. to \in OrderStatus
  BY <1>1 DEF RequestedStatus, OrderStatus
<1>3. orders[id] \in Order /\ orders[id].items # <<>>
  BY <1>1, DocumentsTyped DEF SInv, Kept
<1>4. /\ Become(r, Idle) /\ UNCHANGED <<store, products, edited>>
      /\ orders' = [orders EXCEPT ![id].st = to, ![id].paid = @ \/ to = "delivered"]
      /\ been' = [been EXCEPT ![id] = @ \cup {to}]
  BY DEF SaveOrder
<1>5. orders' = [orders EXCEPT ![id] = order]
  BY <1>1, <1>4, DocumentsTyped
<1>6. \A o \in Order, b \in BOOLEAN :
        LET n == [o EXCEPT !.st = to, !.paid = b] IN
        n \in Order /\ n.st = to /\ n.items = o.items
  BY <1>2 DEF Order
<1>7. order \in Order /\ order.st # "unborn" /\ order.items = orders[id].items
  BY <1>1, <1>3, <1>6 DEF RequestedStatus, Order
<1> HIDE DEF order, id, to
<1> QED
  BY <1>1, <1>2, <1>3, <1>4, <1>5, <1>7, DocumentsTyped, SoundWritten

\* The steps of a status change before the save.
LEMMA SoundLine ==
  ASSUME SInv, CInv', NEW r \in Procs, RestoreLine(r) \/ CountSold(r)
  PROVE  SInv'
<1> DEFINE line == Head(op[r].items)
<1>1. PICK o \in Operation : o = op[r]
  BY SlotTyped
<1>2. PICK n : n = NextLine(o)
  OBVIOUS
<1>3. /\ o.at \in {"restore", "sold"} /\ Sound(o) /\ About(o, orders)
      /\ Become(r, n) /\ UNCHANGED <<store, orders, been, edited>>
  BY <1>1, <1>2, SlotTyped DEF RestoreLine, CountSold
<1>4. o.items # <<>> /\ o.items \in Seq(Line)
  BY <1>1, <1>3, SlotTyped DEF Sound
<1>5. /\ n \in Operation /\ Sound(n)
      /\ n.o = o.o /\ n.to = o.to /\ n.items = Tail(o.items) /\ n.items \in Seq(Line)
      /\ n.at = IF Len(o.items) = 1 THEN "saveOrder" ELSE o.at
  BY <1>2, <1>3, <1>4, NextLineSound
<1>6. About(n, orders)
  <2>1. \A p \in Products, c \in Counters :
          Demand(n.items, p, c) \in Nat /\ Demand(o.items, p, c) \in Nat
    BY <1>4, <1>5, DemandNat
  <2>2. line.n \in Nat
    BY <1>1, <1>4, LineTyped
  <2>3. \A p \in Products, c \in Counters :
          Demand(o.items, p, c) = TakesOf(line, p, c) + Demand(n.items, p, c)
    BY <1>1, <1>4, <1>5, DemandHead
  <2>4. \A p, c : TakesOf(line, p, c) \in Nat
    BY <2>2 DEF TakesOf
  <2> HIDE DEF line
  <2>5. \A p \in Products, c \in Counters : Demand(n.items, p, c) <= Demand(o.items, p, c)
    BY <2>1, <2>3, <2>4
  <2>6. o.o \in OrderIds /\ orders[o.o].st # "unborn"
    BY <1>3 DEF About, Saving
  <2>7. \A p \in Products, c \in Counters : Demand(orders[o.o].items, p, c) \in Nat
    BY <2>6, DocumentsTyped, DemandNat
  <2>8. o.at = "restore" => \A p \in Products, c \in Counters :
          Demand(n.items, p, c) <= Demand(orders[o.o].items, p, c)
    BY <1>3, <2>1, <2>5, <2>7 DEF About, Saving
  <2> QED
    BY <1>3, <1>5, <2>6, <2>8 DEF About
<1>7. line.p \in Products /\ line.n \in Nat /\ products[line.p] \in Product
  BY <1>1, <1>4, LineTyped, DocumentsTyped
<1>8. products' \in [Products -> Product]
  <2>1. CASE RestoreLine(r)
    <3> DEFINE stock == [c \in Counters |-> IF c \in Touches(line)
                           THEN products[line.p].stock[c] + line.n ELSE products[line.p].stock[c]]
               d == [products[line.p] EXCEPT !.stock = stock]
    <3>1. stock \in [Counters -> Nat]
      BY <1>7, ProductTyped
    <3>2. products' = IF products[line.p].exists THEN [products EXCEPT ![line.p] = d] ELSE products
      BY <2>1 DEF RestoreLine, OnProduct
    <3> HIDE DEF line, stock
    <3>3. d \in Product
      BY <1>7, <3>1, ProductTyped
    <3> HIDE DEF d
    <3> QED
      BY <1>7, <3>2, <3>3, DocumentsTyped
  <2>2. CASE CountSold(r)
    <3> DEFINE d == [products[line.p] EXCEPT !.sold = products[line.p].sold + line.n]
    <3>1. products[line.p].sold + line.n \in Nat
      BY <1>7, ProductTyped
    <3>2. products' = IF products[line.p].exists THEN [products EXCEPT ![line.p] = d] ELSE products
      BY <2>2 DEF CountSold, OnProduct
    <3> HIDE DEF line
    <3>3. d \in Product
      BY <1>7, <3>1, ProductTyped
    <3> HIDE DEF d
    <3> QED
      BY <1>7, <3>2, <3>3, DocumentsTyped
  <2> QED
    BY <2>1, <2>2
<1> QED
  BY <1>3, <1>5, <1>6, <1>8, DocumentsTyped, SoundSlot

LEMMA SoundRevenue == ASSUME SInv, CInv', NEW r \in Procs, CountRevenue(r) PROVE SInv'
<1>1. PICK o \in Operation : o = op[r]
  BY SlotTyped
<1>2. PICK n : n = [o EXCEPT !.at = "sold"]
  OBVIOUS
<1>3. /\ o.at = "revenue" /\ Sound(o) /\ About(o, orders) /\ o.items \in Seq(Line)
      /\ Become(r, n) /\ UNCHANGED <<products, orders, been, edited>>
      /\ store' = [store EXCEPT !.revenue = store.revenue + Units(o.items)]
  BY <1>1, <1>2, SlotTyped DEF CountRevenue, Earned
<1>4. "sold" \in Steps
  BY DEF Steps
<1>5. n \in Operation /\ n.at = "sold" /\ n.o = o.o /\ n.to = o.to /\ n.items = o.items
  BY <1>2, <1>4 DEF Operation
<1>6. Sound(n) /\ About(n, orders)
  BY <1>3, <1>5 DEF Sound, About, Saving
<1>7. store' \in Store
  <2>1. store \in Store
    BY DocumentsTyped
  <2>2. store.revenue + Units(o.items) \in Nat
    <3>1. store.revenue \in Nat /\ Units(o.items) \in Nat
      BY <1>3, <2>1, StoreTyped, DemandNat
    <3> QED
      BY <3>1
  <2> QED
    BY <1>3, <2>1, <2>2, StoreTyped
<1> QED
  BY <1>3, <1>5, <1>6, <1>7, DocumentsTyped, SoundSlot

\* The transaction reads a new snapshot, the ownership is checked.
LEMMA SoundRead ==
  ASSUME SInv, CInv', NEW r \in Procs, RetryOrder(r) \/ VerifyStoreOwnership(r)
  PROVE  SInv'
<1>1. PICK o \in Operation : o = op[r]
  BY SlotTyped
<1>2. UNCHANGED <<store, products, orders, been, edited>>
  BY DEF RetryOrder, VerifyStoreOwnership
<1>3. PICK n \in Operation : Become(r, n) /\ Sound(n) /\ About(n, orders)
  <2>1. CASE Become(r, Idle)
    BY <2>1, IdleTyped
  <2>2. CASE Become(r, [o EXCEPT !.store = store, !.products = products]) /\ o.at = "commit"
    <3> DEFINE n == [o EXCEPT !.store = store, !.products = products]
    <3>1. n \in Operation /\ n.at = "commit"
      BY <2>2, DocumentsTyped DEF Operation
    <3>2. Sound(n) /\ About(n, orders)
      BY <3>1 DEF Sound, About, Saving
    <3> HIDE DEF n
    <3> QED
      BY <2>2, <3>1, <3>2 DEF n
  <2>3. CASE /\ Become(r, [o EXCEPT !.at = IF o.kind = "edit" THEN "saveProduct" ELSE "removeProduct"])
             /\ o.at = "verify"
    <3> DEFINE n == [o EXCEPT !.at = IF o.kind = "edit" THEN "saveProduct" ELSE "removeProduct"]
    <3>1. {"saveProduct", "removeProduct"} \subseteq Steps
      BY DEF Steps
    <3>2. n \in Operation /\ n.at \in {"saveProduct", "removeProduct"} /\ n.p = o.p
      BY <3>1 DEF Operation
    <3>3. Sound(o)
      BY <1>1, SlotTyped
    <3>4. Sound(n) /\ About(n, orders)
      BY <2>3, <3>2, <3>3 DEF Sound, About, Saving
    <3> HIDE DEF n
    <3> QED
      BY <2>3, <3>2, <3>4 DEF n
  <2> QED
    BY <1>1, <2>1, <2>2, <2>3 DEF RetryOrder, VerifyStoreOwnership
<1> QED
  BY <1>2, <1>3, DocumentsTyped, SoundSlot

\* The stock an edit asks for.
LEMMA WantedTyped ==
  ASSUME NEW d \in Product, NEW e \in Edit
  PROVE  Wanted(d, e) \in [Counters -> Nat]
<1>1. d.stock \in [Counters -> Nat]
  BY ProductTyped
<1>2. CASE e.variants # None
  <2>1. e.variants \in [Variants -> Nat]
    BY <1>2 DEF Edit
  <2>2. SumFunctionOnSet(e.variants, Variants) \in Nat
    BY <2>1, SumNat, OrdersAssumption
  <2> QED
    BY <1>2, <2>1, <2>2 DEF Wanted, Counters
<1>3. CASE e.variants = None /\ e.stock # None
  <2>1. e.stock \in Nat
    BY <1>3 DEF Edit
  <2> QED
    BY <1>1, <1>3, <2>1 DEF Wanted
<1>4. CASE e.variants = None /\ e.stock = None
  BY <1>1, <1>4 DEF Wanted
<1> QED
  BY <1>2, <1>3, <1>4

\* A product is saved: only an edit of the stock or of the variants changes the stock.
LEMMA SavedProduct ==
  ASSUME SInv, NEW r \in Procs, SaveProduct(r)
  PROVE  /\ products' \in [Products -> Product] /\ edited' \subseteq Products
         /\ \A p \in Products : products'[p].exists = products[p].exists
         /\ \A p \in Products \ edited' : products'[p].stock = products[p].stock
         /\ edited \subseteq edited'
<1> DEFINE o == op[r]
           p == o.p
           d == o.products[p]
           now == products[p]
           want == Wanted(d, o.edit)
           rewrites == /\ o.edit.variants # None
                       /\ o.edit.other \/ \E v \in Variants : want[v] # d.stock[v]
           st == IF o.edit.st \in {None, d.st} THEN now.st ELSE o.edit.st
           v == IF rewrites THEN now.v + 1 ELSE now.v
           stock == [c \in Counters |->
                       IF IF c = Total THEN want[c] # d.stock[c] ELSE rewrites
                       THEN want[c] ELSE now.stock[c]]
           new == [now EXCEPT !.st = st, !.v = v, !.stock = stock]
<1>1. p \in Products /\ o.edit \in Edit /\ o.products \in [Products -> Product]
  BY SlotTyped DEF SaveProduct, Sound
<1>2. d \in Product /\ now \in Product
  BY <1>1, DocumentsTyped
<1>3. want \in [Counters -> Nat] /\ d.stock \in [Counters -> Nat]
  BY <1>1, <1>2, WantedTyped, ProductTyped
<1>4. CASE UNCHANGED <<products, edited>>
  BY <1>4, DocumentsTyped
<1>5. CASE /\ products' = [products EXCEPT ![p].st = IF o.edit.st \in {None, d.st} THEN @ ELSE o.edit.st,
                 ![p].v = IF rewrites THEN @ + 1 ELSE @,
                 ![p].stock = [c \in Counters |->
                    IF IF c = Total THEN want[c] # d.stock[c] ELSE rewrites THEN want[c] ELSE @[c]]]
           /\ edited' = IF want = d.stock /\ ~rewrites THEN edited ELSE edited \cup {p}
  <2>1. products' = [products EXCEPT ![p] = new]
    BY <1>1, <1>5, DocumentsTyped
  <2>2. stock \in [Counters -> Nat]
    BY <1>2, <1>3, ProductTyped
  <2>3. v \in Nat
    BY <1>2, ProductTyped
  <2>4. st \in ProductStatus
    <3>1. o.edit.st \in ProductStatus \cup {None}
      BY <1>1 DEF Edit
    <3>2. now.st \in ProductStatus
      BY <1>2, ProductTyped
    <3> QED
      BY <3>1, <3>2
  <2>5. want = d.stock /\ ~rewrites => stock = now.stock
    <3> SUFFICES ASSUME want = d.stock, ~rewrites PROVE stock = now.stock
      OBVIOUS
    <3>2. want = d.stock /\ ~rewrites
      OBVIOUS
    <3>3. now.stock \in [Counters -> Nat]
      BY <1>2, ProductTyped
    <3> HIDE DEF rewrites, want, d, now
    <3>4. stock = [c \in Counters |-> now.stock[c]]
      BY <3>2
    <3> QED
      BY <3>3, <3>4
  <2>6. edited' = IF want = d.stock /\ ~rewrites THEN edited ELSE edited \cup {p}
    BY <1>5
  <2> HIDE DEF stock, v, st, rewrites, want, d, now, o, p
  <2>7. new \in Product /\ new.exists = now.exists /\ new.stock = stock
    BY <1>2, <2>2, <2>3, <2>4 DEF Product
  <2>8. products' \in [Products -> Product]
    BY <1>1, <2>1, <2>7, DocumentsTyped
  <2> HIDE DEF new
  <2>9. \A q \in Products : products'[q] = IF q = p THEN new ELSE products[q]
    BY <1>1, <2>1, DocumentsTyped
  <2>10. edited \subseteq Products
    BY DocumentsTyped
  <2> QED
    BY <1>1, <2>5, <2>6, <2>7, <2>8, <2>9, <2>10 DEF now
<1> QED
  BY <1>4, <1>5 DEF SaveProduct

\* The other calls of the owner and of the administrators.
LEMMA SoundShop ==
  ASSUME SInv, CInv', NEW r \in Procs,
         SaveProduct(r) \/ RemoveProduct(r) \/ UpdateProducts(r) \/ SaveStore(r) \/ Crash(r)
  PROVE  SInv'
<1>1. CASE SaveProduct(r)
  <2>1. Become(r, Idle) /\ UNCHANGED <<store, orders, been>>
    BY <1>1 DEF SaveProduct
  <2> QED
    BY <1>1, <2>1, SavedProduct, DocumentsTyped, IdleTyped, SoundSlot
<1>2. CASE RemoveProduct(r)
  <2>1. /\ Become(r, Idle) /\ UNCHANGED <<store, orders, been, edited>>
        /\ products' = [products EXCEPT ![op[r].p].exists = FALSE]
    BY <1>2 DEF RemoveProduct
  <2>2. \A p \in Products : [products[p] EXCEPT !.exists = FALSE] \in Product
    BY DocumentsTyped, ProductTyped
  <2>3. products' \in [Products -> Product]
    BY <2>1, <2>2, DocumentsTyped
  <2> QED
    BY <2>1, <2>3, DocumentsTyped, IdleTyped, SoundSlot
<1>3. CASE UpdateProducts(r)
  <2>1. PICK o \in Operation : o = op[r]
    BY SlotTyped
  <2>2. PICK n : n = [o EXCEPT !.at = "saveStore"]
    OBVIOUS
  <2>3. "saveStore" \in Steps
    BY DEF Steps
  <2>4. n \in Operation /\ n.at = "saveStore" /\ n.to = o.to
    BY <2>2, <2>3 DEF Operation
  <2>5. o.to \in StoreStatus
    BY <1>3, <2>1, SlotTyped DEF UpdateProducts, Sound
  <2>6. Sound(n) /\ About(n, orders)
    BY <2>4, <2>5 DEF Sound, About, Saving
  <2>7. Become(r, n) /\ UNCHANGED <<store, orders, been, edited>>
    BY <1>3, <2>1, <2>2 DEF UpdateProducts
  <2>8. products' \in [Products -> Product]
    <3> DEFINE st(d) == IF o.kind = "closeStore" THEN "archived"
                        ELSE IF d.st = "active" THEN "hidden" ELSE d.st
    <3>1. products' = [p \in Products |-> [products[p] EXCEPT !.st = st(products[p])]]
      BY <1>3, <2>1 DEF UpdateProducts
    <3>2. \A d \in Product : st(d) \in ProductStatus
      BY ProductTyped DEF ProductStatus
    <3> HIDE DEF st
    <3>3. \A d \in Product : [d EXCEPT !.st = st(d)] \in Product
      BY <3>2, ProductTyped
    <3> QED
      BY <3>1, <3>3, DocumentsTyped
  <2> QED
    BY <2>4, <2>6, <2>7, <2>8, DocumentsTyped, SoundSlot
<1>4. CASE SaveStore(r)
  <2>1. /\ Become(r, Idle) /\ UNCHANGED <<products, orders, been, edited>>
        /\ store' = [store EXCEPT !.st = IF op[r].to = op[r].store.st THEN store.st ELSE op[r].to]
        /\ op[r].at = "saveStore"
    BY <1>4 DEF SaveStore
  <2>2. op[r].to \in StoreStatus
    BY <2>1, SlotTyped DEF Sound
  <2>3. store' \in Store
    BY <2>1, <2>2, DocumentsTyped, StoreTyped
  <2> QED
    BY <2>1, <2>3, DocumentsTyped, IdleTyped, SoundSlot
<1>5. CASE Crash(r)
  <2>1. Become(r, Idle) /\ UNCHANGED <<store, products, orders, been, edited>>
    BY <1>5 DEF Crash
  <2> QED
    BY <2>1, DocumentsTyped, IdleTyped, SoundSlot
<1> QED
  BY <1>1, <1>2, <1>3, <1>4, <1>5

\* Every step keeps the types and what the requests are about.
LEMMA SoundNext == SInv /\ [Next]_vars => SInv'
<1> SUFFICES ASSUME SInv, [Next]_vars PROVE SInv'
  OBVIOUS
<1>1. CInv'
  BY PlacingNext DEF SInv
<1>2. CASE UNCHANGED vars
  BY <1>1, <1>2 DEF vars, SInv, TypeOK, Sound
<1>3. CASE AtRest
  BY <1>2, <1>3 DEF AtRest
<1>4. ASSUME NEW r \in Procs, Request(r) PROVE SInv'
  BY <1>1, <1>4, SoundRequest
<1>5. ASSUME NEW r \in Procs, Step(r) PROVE SInv'
  BY <1>1, <1>5, SoundCommit, SoundSave, SoundLine, SoundRevenue, SoundRead, SoundShop DEF Step
<1>6. ASSUME NEW r \in Procs, Crash(r) PROVE SInv'
  BY <1>1, <1>6, SoundShop
<1> QED
  BY <1>2, <1>3, <1>4, <1>5, <1>6 DEF Next

\* The invariant the other proofs start from: the types, what every request in flight is
\* about (order.service.ts:239-321) and that an order has lines from its placement on.
THEOREM SoundInductive == Spec => []SInv
  BY InitSound, SoundNext, PTL DEF Spec

-----------------------------------------------------------------------------
\* No stock is lost.  What a cancelling request has put back is on the shelf and
\* still in its order: it must be covered twice until the order is saved.
Cancelling(o) == o.at = "restore" \/ (o.at = "saveOrder" /\ o.to = "cancelled")

Returned(o, os, p, c) ==
  IF Cancelling(o) THEN Demand(os[o.o].items, p, c) - Demand(o.items, p, c) ELSE 0

Restored(p, c) == SumFunctionOnSet([r \in Procs |-> Returned(op[r], orders, p, c)], Procs)

Balanced(p, c) ==
  p \notin edited /\ products[p].exists =>
    products[p].stock[c] + Standing(p, c) >= OnShelf.stock[c] + Restored(p, c)

StockBalance == \A p \in Products, c \in Counters : Balanced(p, c)

\* What an order takes while it is not cancelled.
Stands(order, p, c) == IF order.st # "cancelled" THEN Demand(order.items, p, c) ELSE 0

StandingIn(os, p, c) == SumFunctionOnSet([id \in OrderIds |-> Stands(os[id], p, c)], OrderIds)

LEMMA StandsNat ==
  ASSUME NEW os \in [OrderIds -> Order], NEW p, NEW c
  PROVE  /\ \A id \in OrderIds : Stands(os[id], p, c) \in Nat
         /\ StandingIn(os, p, c) \in Nat
         /\ SumFunctionOnSet([id \in OrderIds |-> Demand(os[id].items, p, c)],
                             {id \in OrderIds : os[id].st # "cancelled"}) = StandingIn(os, p, c)
<1> DEFINE f == [id \in OrderIds |-> Demand(os[id].items, p, c)]
           g == [id \in OrderIds |-> Stands(os[id], p, c)]
           T == {id \in OrderIds : os[id].st # "cancelled"}
<1>1. \A id \in OrderIds : Demand(os[id].items, p, c) \in Nat
  BY DemandNat DEF Order
<1>2. \A id \in OrderIds : Stands(os[id], p, c) \in Nat
  BY <1>1 DEF Stands
<1>3. \A id \in OrderIds : g[id] = IF id \in T THEN f[id] ELSE 0
  BY DEF Stands
<1>4. g = [id \in OrderIds |-> IF id \in T THEN f[id] ELSE 0]
  BY <1>3
<1>5. T \in SUBSET OrderIds /\ \A id \in T : f[id] \in Nat
  BY <1>1
<1>6. \A id \in OrderIds : g[id] \in Nat
  BY <1>2
<1> HIDE DEF f, g, T
<1>7. SumFunctionOnSet(f, T) = SumFunctionOnSet(g, OrderIds)
  BY <1>4, <1>5, SumRestrict, OrdersAssumption
<1>8. SumFunctionOnSet(g, OrderIds) \in Nat
  BY <1>6, SumNat, OrdersAssumption
<1> QED
  BY <1>2, <1>7, <1>8 DEF f, g, T, StandingIn

\* One order changes.
LEMMA StandingChange ==
  ASSUME SInv, SInv', NEW id \in OrderIds, \A i \in OrderIds \ {id} : orders'[i] = orders[i],
         NEW p, NEW c
  PROVE  /\ Standing(p, c)' + Stands(orders[id], p, c) = Standing(p, c) + Stands(orders'[id], p, c)
         /\ Standing(p, c) \in Nat /\ Standing(p, c)' \in Nat
         /\ Stands(orders[id], p, c) \in Nat /\ Stands(orders'[id], p, c) \in Nat
<1> DEFINE f == [i \in OrderIds |-> Stands(orders[i], p, c)]
           g == [i \in OrderIds |-> Stands(orders'[i], p, c)]
<1>1. orders \in [OrderIds -> Order] /\ orders' \in [OrderIds -> Order]
  BY DEF SInv, TypeOK
<1>2. /\ Standing(p, c) = StandingIn(orders, p, c) /\ StandingIn(orders, p, c) \in Nat
      /\ \A i \in OrderIds : Stands(orders[i], p, c) \in Nat
  BY <1>1, StandsNat DEF Standing
<1>3. /\ Standing(p, c)' = StandingIn(orders', p, c) /\ StandingIn(orders', p, c) \in Nat
      /\ \A i \in OrderIds : Stands(orders'[i], p, c) \in Nat
  BY <1>1, StandsNat DEF Standing, Demand, Touches, Quantities
<1>4. \A i \in OrderIds : f[i] \in Nat /\ g[i] \in Nat /\ (i # id => g[i] = f[i])
  BY <1>2, <1>3
<1>5. /\ f[id] = Stands(orders[id], p, c) /\ g[id] = Stands(orders'[id], p, c)
      /\ StandingIn(orders, p, c) = SumFunctionOnSet(f, OrderIds)
      /\ StandingIn(orders', p, c) = SumFunctionOnSet(g, OrderIds)
  BY DEF StandingIn
<1> HIDE DEF f, g
<1>6. SumFunctionOnSet(g, OrderIds) + f[id] = SumFunctionOnSet(f, OrderIds) + g[id]
  BY <1>4, SumChange, OrdersAssumption
<1> QED
  BY <1>2, <1>3, <1>5, <1>6

\* No order changes its lines or its status.
LEMMA StandingSame ==
  ASSUME UNCHANGED orders, NEW p, NEW c
  PROVE  Standing(p, c)' = Standing(p, c)
  BY DEF Standing, Demand, Touches, Quantities

\* What a request has put back.
LEMMA ReturnedNat ==
  ASSUME NEW o \in Operation, NEW os \in [OrderIds -> Order], Sound(o), About(o, os),
         NEW p \in Products, NEW c \in Counters
  PROVE  Returned(o, os, p, c) \in Nat
<1>1. CASE Cancelling(o)
  <2>1. o.o \in OrderIds
    BY <1>1 DEF Cancelling, About, Saving
  <2>2. o.items \in Seq(Line) /\ os[o.o].items \in Seq(Line)
    BY <2>1 DEF Operation, Order
  <2>3. Demand(o.items, p, c) \in Nat /\ Demand(os[o.o].items, p, c) \in Nat
    BY <2>2, DemandNat
  <2>4. Demand(o.items, p, c) <= Demand(os[o.o].items, p, c)
    <3>1. CASE o.at = "restore"
      BY <3>1 DEF About, Saving
    <3>2. CASE o.at = "saveOrder" /\ o.to = "cancelled"
      <4>1. Demand(o.items, p, c) = 0
        BY <3>2, DemandEmpty DEF Sound
      <4> QED
        BY <2>3, <4>1
    <3> QED
      BY <1>1, <3>1, <3>2 DEF Cancelling
  <2> QED
    BY <1>1, <2>3, <2>4 DEF Returned
<1>2. CASE ~Cancelling(o)
  BY <1>2 DEF Returned
<1> QED
  BY <1>1, <1>2

\* One request changes, and with it an order nobody else is cancelling.
LEMMA RestoredChange ==
  ASSUME SInv, SInv', NEW r \in Procs, \A s \in Procs \ {r} : op'[s] = op[s],
         \A s \in Procs \ {r} :
           Cancelling(op[s]) => orders'[op[s].o].items = orders[op[s].o].items,
         NEW p \in Products, NEW c \in Counters
  PROVE  /\ Restored(p, c)' + Returned(op[r], orders, p, c)
              = Restored(p, c) + Returned(op'[r], orders', p, c)
         /\ Restored(p, c) \in Nat /\ Restored(p, c)' \in Nat
         /\ Returned(op[r], orders, p, c) \in Nat /\ Returned(op'[r], orders', p, c) \in Nat
<1> DEFINE f == [s \in Procs |-> Returned(op[s], orders, p, c)]
           g == [s \in Procs |-> Returned(op'[s], orders', p, c)]
<1>1. ASSUME NEW s \in Procs
      PROVE  /\ f[s] \in Nat /\ g[s] \in Nat
             /\ s # r => g[s] = f[s]
  <2>1. f[s] \in Nat
    BY ReturnedNat, DocumentsTyped DEF SInv, TypeOK
  <2>2. /\ op'[s] \in Operation /\ orders' \in [OrderIds -> Order]
        /\ Sound(op'[s]) /\ About(op'[s], orders')
    BY DEF SInv, TypeOK, Sound
  <2>3. g[s] \in Nat
    BY <2>2, ReturnedNat
  <2>4. s # r => g[s] = f[s]
    BY DEF Returned
  <2> QED
    BY <2>1, <2>3, <2>4
<1>2. Restored(p, c) = SumFunctionOnSet(f, Procs) /\ Restored(p, c)' = SumFunctionOnSet(g, Procs)
  BY DEF Restored, Returned, Demand, Quantities, Touches, Cancelling
<1>3. f[r] = Returned(op[r], orders, p, c) /\ g[r] = Returned(op'[r], orders', p, c)
  OBVIOUS
<1> HIDE DEF f, g
<1>4. SumFunctionOnSet(g, Procs) + f[r] = SumFunctionOnSet(f, Procs) + g[r]
  BY <1>1, SumChange, OrdersAssumption
<1>5. SumFunctionOnSet(f, Procs) \in Nat /\ SumFunctionOnSet(g, Procs) \in Nat
  BY <1>1, SumNat, OrdersAssumption
<1> QED
  BY <1>1, <1>2, <1>3, <1>4, <1>5

LEMMA StockNat ==
  ASSUME SInv, NEW p \in Products, NEW c \in Counters
  PROVE  products[p].stock[c] \in Nat /\ OnShelf.stock[c] \in Nat
<1>1. \A d \in Product : d.stock \in [Counters -> Nat]
  BY ProductTyped
<1>2. OnShelf \in Product
  BY ShelfTyped DEF Shelf
<1> QED
  BY <1>1, <1>2, DocumentsTyped

LEMMA StandingNat == ASSUME SInv, NEW p, NEW c PROVE Standing(p, c) \in Nat
<1>1. Standing(p, c) = StandingIn(orders, p, c) /\ StandingIn(orders, p, c) \in Nat
  BY DocumentsTyped, StandsNat DEF Standing
<1> QED
  BY <1>1

\* The slots a step does not concern.
LEMMA OtherSlots ==
  ASSUME SInv, NEW r \in Procs, NEW o, Become(r, o)
  PROVE  op'[r] = o /\ \A s \in Procs \ {r} : op'[s] = op[s]
  BY DEF Become, SInv, TypeOK

\* A step that takes nothing from the shelf, writes no order, and has not put more
\* back than it had.
LEMMA QuietBalance ==
  ASSUME SInv, SInv', StockBalance, NEW r \in Procs, \A s \in Procs \ {r} : op'[s] = op[s],
         UNCHANGED orders, NEW p \in Products, NEW c \in Counters,
         p \notin edited' /\ products'[p].exists =>
           /\ p \notin edited /\ products[p].exists
           /\ products'[p].stock[c] = products[p].stock[c],
         Returned(op'[r], orders, p, c) = 0
  PROVE  Balanced(p, c)'
<1>1. /\ Restored(p, c)' + Returned(op[r], orders, p, c)
              = Restored(p, c) + Returned(op'[r], orders, p, c)
      /\ Restored(p, c) \in Nat /\ Restored(p, c)' \in Nat
      /\ Returned(op[r], orders, p, c) \in Nat
  BY RestoredChange
<1>2. Standing(p, c)' = Standing(p, c) /\ Standing(p, c) \in Nat
  BY StandingSame, StandingNat
<1>3. products[p].stock[c] \in Nat /\ OnShelf.stock[c] \in Nat
  BY StockNat
<1>4. Balanced(p, c)
  BY DEF StockBalance
<1>5. SUFFICES ASSUME p \notin edited' /\ products'[p].exists
               PROVE  products'[p].stock[c] + Standing(p, c)' >= OnShelf.stock[c] + Restored(p, c)'
  BY DEF Balanced, OnShelf
<1>6. products[p].stock[c] + Standing(p, c) >= OnShelf.stock[c] + Restored(p, c)
  BY <1>4, <1>5 DEF Balanced
<1>7. products'[p].stock[c] = products[p].stock[c]
  BY <1>5
<1>8. Restored(p, c)' <= Restored(p, c)
  BY <1>1
<1> QED
  BY <1>1, <1>2, <1>3, <1>6, <1>7, <1>8

LEMMA IdleReturns == ASSUME NEW os, NEW p, NEW c PROVE Returned(Idle, os, p, c) = 0
  BY DEF Returned, Cancelling, Idle

\* A line is put back on the shelf of a product that still exists.
LEMMA RestoreBalance ==
  ASSUME SInv, SInv', StockBalance, NEW r \in Procs, RestoreLine(r),
         NEW p \in Products, NEW c \in Counters
  PROVE  Balanced(p, c)'
<1>1. PICK o \in Operation : o = op[r]
  BY SlotTyped
<1>2. PICK n : n = NextLine(o)
  OBVIOUS
<1>3. /\ o.at = "restore" /\ Sound(o) /\ About(o, orders)
      /\ Become(r, n) /\ UNCHANGED <<store, orders, been, edited>>
  BY <1>1, <1>2, SlotTyped DEF RestoreLine
<1>4. o.items # <<>> /\ o.items \in Seq(Line) /\ o.to = "cancelled" /\ o.o \in OrderIds
  BY <1>1, <1>3, SlotTyped DEF Sound, About, Saving
<1>5. /\ n.o = o.o /\ n.to = o.to /\ n.items = Tail(o.items) /\ n.items \in Seq(Line)
      /\ n.at = IF Len(o.items) = 1 THEN "saveOrder" ELSE o.at
  BY <1>2, <1>3, <1>4, NextLineSound
<1>6. op'[r] = n /\ \A s \in Procs \ {r} : op'[s] = op[s]
  BY <1>3, OtherSlots
<1>7. PICK line : line = Head(o.items)
  OBVIOUS
<1>8. line.p \in Products /\ line.n \in Nat
  BY <1>4, <1>7, LineTyped
<1>9. Demand(o.items, p, c) = TakesOf(line, p, c) + Demand(n.items, p, c)
  BY <1>4, <1>5, <1>7, DemandHead
<1>10. TakesOf(line, p, c) \in Nat
  BY <1>8 DEF TakesOf
<1>11. /\ Demand(o.items, p, c) \in Nat /\ Demand(n.items, p, c) \in Nat
       /\ Demand(orders[o.o].items, p, c) \in Nat
  BY <1>4, <1>5, DocumentsTyped, DemandNat
<1>12. Returned(n, orders, p, c) = Returned(o, orders, p, c) + TakesOf(line, p, c)
  <2>1. Cancelling(o) /\ Cancelling(n)
    BY <1>3, <1>4, <1>5 DEF Cancelling
  <2> QED
    BY <1>5, <1>9, <1>10, <1>11, <2>1 DEF Returned
<1>13. /\ Restored(p, c)' + Returned(o, orders, p, c) = Restored(p, c) + Returned(n, orders, p, c)
       /\ Restored(p, c) \in Nat /\ Restored(p, c)' \in Nat
       /\ Returned(o, orders, p, c) \in Nat
  BY <1>1, <1>3, <1>6, RestoredChange
<1>14. Restored(p, c)' = Restored(p, c) + TakesOf(line, p, c)
  BY <1>10, <1>12, <1>13
<1>15. products[p].exists =>
         products'[p].stock[c] = products[p].stock[c] + TakesOf(line, p, c)
  <2> DEFINE stock == [d \in Counters |-> IF d \in Touches(line)
                         THEN products[line.p].stock[d] + line.n ELSE products[line.p].stock[d]]
             new == [products[line.p] EXCEPT !.stock = stock]
  <2>1. products' = IF products[line.p].exists THEN [products EXCEPT ![line.p] = new] ELSE products
    BY <1>1, <1>7 DEF RestoreLine, OnProduct
  <2>2. products[line.p] \in Product /\ products[p].stock[c] \in Nat
    BY <1>8, DocumentsTyped, StockNat
  <2>3. stock[c] = IF c \in Touches(line) THEN products[line.p].stock[c] + line.n
                                            ELSE products[line.p].stock[c]
    OBVIOUS
  <2> HIDE DEF stock
  <2>4. new.stock = stock
    BY <2>2 DEF Product
  <2> HIDE DEF new
  <2>5. CASE line.p = p
    BY <1>8, <2>1, <2>2, <2>3, <2>4, <2>5, DocumentsTyped DEF TakesOf
  <2>6. CASE line.p # p
    BY <2>1, <2>2, <2>6, DocumentsTyped DEF TakesOf
  <2> QED
    BY <2>5, <2>6
<1>16. products'[p].exists => products[p].exists
  <2>1. \A d : products[line.p] \in Product => [products[line.p] EXCEPT !.stock = d].exists = products[line.p].exists
    BY DEF Product
  <2> QED
    BY <1>1, <1>7, <1>8, <2>1, DocumentsTyped DEF RestoreLine, OnProduct
<1>17. Standing(p, c)' = Standing(p, c) /\ Standing(p, c) \in Nat
  BY <1>3, StandingSame, StandingNat
<1>18. products[p].stock[c] \in Nat /\ OnShelf.stock[c] \in Nat
  BY StockNat
<1>19. SUFFICES ASSUME p \notin edited' /\ products'[p].exists
               PROVE  products'[p].stock[c] + Standing(p, c)' >= OnShelf.stock[c] + Restored(p, c)'
  BY DEF Balanced, OnShelf
<1>20. products[p].stock[c] + Standing(p, c) >= OnShelf.stock[c] + Restored(p, c)
  BY <1>3, <1>16, <1>19 DEF StockBalance, Balanced
<1>21. products'[p].stock[c] = products[p].stock[c] + TakesOf(line, p, c)
  BY <1>15, <1>16, <1>19
<1> QED
  BY <1>10, <1>13, <1>14, <1>17, <1>18, <1>20, <1>21

\* An order is placed: what it takes from the shelf stands in it.
LEMMA CommitBalance ==
  ASSUME SInv, SInv', StockBalance, NEW r \in Procs, CommitOrder(r),
         NEW p \in Products, NEW c \in Counters
  PROVE  Balanced(p, c)'
<1> DEFINE items == op[r].items
           id == op[r].o
<1>1. /\ id \in OrderIds /\ orders[id].st = "unborn"
      /\ items \in Seq(Line) /\ items # <<>>
      /\ products'[p] = [products[p] EXCEPT !.stock = products'[p].stock]
      /\ Demand(items, p, c) <= products[p].stock[c]
      /\ products'[p].stock[c] = products[p].stock[c] - Demand(items, p, c)
  BY CommitTakes
<1>2. /\ Become(r, Idle) /\ UNCHANGED edited /\ op[r].at = "commit"
      /\ orders' = [orders EXCEPT ![id] = [st |-> "pending", paid |-> FALSE, items |-> items]]
  BY DEF CommitOrder
<1>3. op'[r] = Idle /\ \A s \in Procs \ {r} : op'[s] = op[s]
  BY <1>2, OtherSlots
<1>4. /\ \A i \in OrderIds \ {id} : orders'[i] = orders[i]
      /\ orders'[id].st = "pending" /\ orders'[id].items = items
  BY <1>1, <1>2, DocumentsTyped
<1>5. \A s \in Procs \ {r} :
        Cancelling(op[s]) => orders'[op[s].o].items = orders[op[s].o].items
  <2> SUFFICES ASSUME NEW s \in Procs \ {r}, Cancelling(op[s])
               PROVE  orders'[op[s].o].items = orders[op[s].o].items
    OBVIOUS
  <2>1. op[s].o \in OrderIds /\ orders[op[s].o].st # "unborn"
    BY DEF Cancelling, SInv, About, Saving
  <2> QED
    BY <1>1, <1>4, <2>1
<1> HIDE DEF items, id
<1>6. /\ Restored(p, c)' + Returned(op[r], orders, p, c) = Restored(p, c) + Returned(op'[r], orders', p, c)
      /\ Restored(p, c) \in Nat /\ Restored(p, c)' \in Nat
  BY <1>3, <1>5, RestoredChange
<1>7. Returned(op[r], orders, p, c) = 0 /\ Returned(op'[r], orders', p, c) = 0
  BY <1>2, <1>3, IdleReturns DEF Returned, Cancelling
<1>8. /\ Standing(p, c)' + Stands(orders[id], p, c) = Standing(p, c) + Stands(orders'[id], p, c)
      /\ Standing(p, c) \in Nat /\ Standing(p, c)' \in Nat
  BY <1>1, <1>4, StandingChange
<1>9. Stands(orders[id], p, c) = 0
  BY <1>1, DemandEmpty DEF Stands, SInv, Kept
<1>10. Stands(orders'[id], p, c) = Demand(items, p, c) /\ Demand(items, p, c) \in Nat
  BY <1>1, <1>4, DemandNat DEF Stands
<1>11. products[p].stock[c] \in Nat /\ OnShelf.stock[c] \in Nat
  BY StockNat
<1>12. products'[p].exists = products[p].exists
  BY <1>1, DocumentsTyped DEF Product
<1>13. SUFFICES ASSUME p \notin edited' /\ products'[p].exists
               PROVE  products'[p].stock[c] + Standing(p, c)' >= OnShelf.stock[c] + Restored(p, c)'
  BY DEF Balanced, OnShelf
<1>14. products[p].stock[c] + Standing(p, c) >= OnShelf.stock[c] + Restored(p, c)
  BY <1>2, <1>12, <1>13 DEF StockBalance, Balanced
<1>15. Restored(p, c)' = Restored(p, c) /\ Standing(p, c)' = Standing(p, c) + Demand(items, p, c)
  BY <1>6, <1>7, <1>8, <1>9, <1>10
<1> QED
  BY <1>1, <1>6, <1>8, <1>10, <1>11, <1>14, <1>15

\* A status is saved: an order that stops standing has been put back by the request
\* that cancels it.
LEMMA SaveBalance ==
  ASSUME SInv, SInv', StockBalance, NEW r \in Procs, SaveOrder(r),
         NEW p \in Products, NEW c \in Counters
  PROVE  Balanced(p, c)'
<1> DEFINE o == op[r]
           id == o.o
<1>1. id \in OrderIds /\ Sound(o)
  BY SlotTyped DEF SaveOrder, About, Saving
<1>2. /\ Become(r, Idle) /\ UNCHANGED <<products, edited>> /\ o.at = "saveOrder"
      /\ orders' = [orders EXCEPT ![id].st = o.to, ![id].paid = @ \/ o.to = "delivered"]
  BY DEF SaveOrder
<1>3. op'[r] = Idle /\ \A s \in Procs \ {r} : op'[s] = op[s]
  BY <1>2, OtherSlots
<1>4. /\ \A i \in OrderIds \ {id} : orders'[i] = orders[i]
      /\ orders'[id].st = o.to /\ orders'[id].items = orders[id].items
  <2>1. orders[id] \in Order
    BY <1>1, DocumentsTyped
  <2> HIDE DEF id, o
  <2> QED
    BY <1>1, <1>2, <2>1, DocumentsTyped DEF Order
<1>5. \A s \in Procs \ {r} :
        Cancelling(op[s]) => orders'[op[s].o].items = orders[op[s].o].items
  <2> SUFFICES ASSUME NEW s \in Procs \ {r}, Cancelling(op[s])
               PROVE  orders'[op[s].o].items = orders[op[s].o].items
    OBVIOUS
  <2>1. op[s].o \in OrderIds
    BY DEF Cancelling, SInv, About, Saving
  <2> QED
    BY <1>4, <2>1
<1> HIDE DEF o, id
<1>6. /\ Restored(p, c)' + Returned(op[r], orders, p, c) = Restored(p, c) + Returned(op'[r], orders', p, c)
      /\ Restored(p, c) \in Nat /\ Restored(p, c)' \in Nat
      /\ Returned(op[r], orders, p, c) \in Nat
  BY <1>3, <1>5, RestoredChange
<1>7. Returned(op'[r], orders', p, c) = 0
  BY <1>3, IdleReturns
<1>8. /\ Standing(p, c)' + Stands(orders[id], p, c) = Standing(p, c) + Stands(orders'[id], p, c)
      /\ Standing(p, c) \in Nat /\ Standing(p, c)' \in Nat
      /\ Stands(orders[id], p, c) \in Nat /\ Stands(orders'[id], p, c) \in Nat
  BY <1>1, <1>4, StandingChange
<1>9. Stands(orders[id], p, c) <= Stands(orders'[id], p, c) + Returned(op[r], orders, p, c)
  <2>1. CASE o.to = "cancelled"
    <3>1. Cancelling(op[r]) /\ op[r].items = <<>>
      BY <1>1, <1>2, <2>1 DEF o, Cancelling, Sound
    <3>2. Demand(orders[id].items, p, c) \in Nat
      BY <1>1, DocumentsTyped, DemandNat
    <3>3. Returned(op[r], orders, p, c) = Demand(orders[id].items, p, c)
      BY <3>1, <3>2, DemandEmpty DEF Returned, o, id
    <3>4. Stands(orders[id], p, c) <= Demand(orders[id].items, p, c)
      BY <3>2 DEF Stands
    <3> QED
      BY <1>8, <3>2, <3>3, <3>4
  <2>2. CASE o.to # "cancelled"
    <3>1. Stands(orders'[id], p, c) = Demand(orders[id].items, p, c)
      BY <1>4, <2>2 DEF Stands
    <3>2. Demand(orders[id].items, p, c) \in Nat
      BY <1>1, DocumentsTyped, DemandNat
    <3>3. Stands(orders[id], p, c) <= Demand(orders[id].items, p, c)
      BY <3>2 DEF Stands
    <3> QED
      BY <1>6, <1>8, <3>1, <3>2, <3>3
  <2> QED
    BY <2>1, <2>2
<1>10. products[p].stock[c] \in Nat /\ OnShelf.stock[c] \in Nat
  BY StockNat
<1>11. SUFFICES ASSUME p \notin edited' /\ products'[p].exists
               PROVE  products'[p].stock[c] + Standing(p, c)' >= OnShelf.stock[c] + Restored(p, c)'
  BY DEF Balanced, OnShelf
<1>12. products[p].stock[c] + Standing(p, c) >= OnShelf.stock[c] + Restored(p, c)
  BY <1>2, <1>11 DEF StockBalance, Balanced
<1> QED
  BY <1>2, <1>6, <1>7, <1>8, <1>9, <1>10, <1>12

\* The steps that neither write an order nor count for one leave in the slot a request
\* that is not about to, or one for another status that has done nothing yet.
Elsewhere(r) ==
  \/ Request(r) \/ Crash(r) \/ RetryOrder(r) \/ VerifyStoreOwnership(r)
  \/ SaveProduct(r) \/ RemoveProduct(r) \/ UpdateProducts(r) \/ SaveStore(r)

Fresh(n) ==
  \/ n.at \notin {"restore", "sold", "saveOrder"}
  \/ n.at = "restore" /\ n.o \in OrderIds /\ n.items = orders[n.o].items
  \/ n.at = "saveOrder" /\ n.to \notin {"cancelled", "delivered"}

LEMMA ElsewhereSlot ==
  ASSUME SInv, NEW r \in Procs, Elsewhere(r)
  PROVE  /\ UNCHANGED orders
         /\ \E n : n = op'[r] /\ Fresh(n) /\ \A s \in Procs \ {r} : op'[s] = op[s]
<1>1. UNCHANGED orders /\ \E n : Become(r, n)
  BY DEF Elsewhere, Request, Crash, CreateOrder, UpdateOrderStatus, UpdateProduct, DeleteProduct,
         AdminUpdateProductStatus, CloseStore, AdminUpdateStoreStatus, RetryOrder,
         VerifyStoreOwnership, SaveProduct, RemoveProduct, UpdateProducts, SaveStore
<1>2. PICK n : Become(r, n)
  BY <1>1
<1>3. op'[r] = n /\ \A s \in Procs \ {r} : op'[s] = op[s]
  BY <1>2, OtherSlots
<1>4. SUFFICES Fresh(n)
  BY <1>1, <1>3
<1>5. CASE Request(r)
  <2>1. ASSUME NEW id \in OrderIds, NEW items \in Baskets, CreateOrder(r, id, items)
        PROVE  n.at \notin {"restore", "sold", "saveOrder"}
    <3>1. n = [Idle EXCEPT !.kind = "order", !.at = "commit", !.o = id, !.items = items,
                          !.store = store, !.products = products]
      BY <1>3, <2>1, OtherSlots DEF CreateOrder
    <3> QED
      BY <3>1, IdleTyped DEF Operation
  <2>2. ASSUME NEW q \in Products, NEW e \in Edits, UpdateProduct(r, q, e)
        PROVE  n.at \notin {"restore", "sold", "saveOrder"}
    <3>1. n = [Idle EXCEPT !.kind = "edit", !.at = "verify", !.p = q,
                          !.edit = e, !.products = products]
      BY <1>3, <2>2, OtherSlots DEF UpdateProduct
    <3> QED
      BY <3>1, IdleTyped DEF Operation
  <2>3. ASSUME NEW q \in Products, DeleteProduct(r, q)
        PROVE  n.at \notin {"restore", "sold", "saveOrder"}
    <3>1. n = [Idle EXCEPT !.kind = "delete", !.at = "verify", !.p = q]
      BY <1>3, <2>3, OtherSlots DEF DeleteProduct
    <3> QED
      BY <3>1, IdleTyped DEF Operation
  <2>4. ASSUME NEW q \in Products, NEW st, AdminUpdateProductStatus(r, q, st)
        PROVE  n.at \notin {"restore", "sold", "saveOrder"}
    <3>1. n = [Idle EXCEPT !.kind = "adminProduct", !.at = "saveProduct", !.p = q,
                          !.edit.st = st, !.products = products]
      BY <1>3, <2>4, OtherSlots DEF AdminUpdateProductStatus
    <3> QED
      BY <3>1, IdleTyped DEF Operation
  <2>5. ASSUME CloseStore(r)
        PROVE  n.at \notin {"restore", "sold", "saveOrder"}
    <3>1. n = [Idle EXCEPT !.kind = "closeStore", !.at = "updateProducts",
                          !.to = "closed", !.store = store]
      BY <1>3, <2>5, OtherSlots DEF CloseStore
    <3> QED
      BY <3>1, IdleTyped DEF Operation
  <2>6. ASSUME NEW st, AdminUpdateStoreStatus(r, st)
        PROVE  n.at \notin {"restore", "sold", "saveOrder"}
    <3>1. n = [Idle EXCEPT !.kind = "adminStore", !.to = st, !.store = store,
                !.at = IF st = "suspended" THEN "updateProducts" ELSE "saveStore"]
      BY <1>3, <2>6, OtherSlots DEF AdminUpdateStoreStatus
    <3> QED
      BY <3>1, IdleTyped DEF Operation
  <2>7. ASSUME NEW id \in OrderIds, NEW by, NEW to \in RequestedStatus,
               UpdateOrderStatus(r, id, by, to)
        PROVE  Fresh(n)
    <3>1. n = [Idle EXCEPT !.kind = "status", !.at = FirstCall(to), !.o = id,
                            !.to = to, !.items = orders[id].items]
      BY <1>3, <2>7, OtherSlots DEF UpdateOrderStatus
    <3>2. n.at = FirstCall(to) /\ n.to = to /\ n.o = id /\ n.items = orders[id].items
      BY <3>1, IdleTyped DEF Operation
    <3> QED
      BY <3>2 DEF FirstCall, Fresh
  <2> QED
    BY <1>5, <2>1, <2>2, <2>3, <2>4, <2>5, <2>6, <2>7 DEF Request, Fresh
<1>6. CASE Crash(r) \/ SaveProduct(r) \/ RemoveProduct(r) \/ SaveStore(r)
  <2>1. n = Idle
    BY <1>3, <1>6, OtherSlots DEF Crash, SaveProduct, RemoveProduct, SaveStore
  <2> QED
    BY <2>1 DEF Fresh, Idle
<1>7. CASE RetryOrder(r) \/ VerifyStoreOwnership(r) \/ UpdateProducts(r)
  <2>1. PICK o \in Operation : o = op[r]
    BY SlotTyped
  <2>2. \/ n = Idle
        \/ n = [o EXCEPT !.store = store, !.products = products] /\ o.at = "commit"
        \/ n = [o EXCEPT !.at = IF o.kind = "edit" THEN "saveProduct" ELSE "removeProduct"]
        \/ n = [o EXCEPT !.at = "saveStore"]
    BY <1>3, <1>7, <2>1, OtherSlots DEF RetryOrder, VerifyStoreOwnership, UpdateProducts
  <2>3. Idle.at = "idle"
    BY DEF Idle
  <2>4. n.at \notin {"restore", "sold", "saveOrder"}
    BY <2>2, <2>3 DEF Operation
  <2> QED
    BY <2>4 DEF Fresh
<1> QED
  BY <1>5, <1>6, <1>7 DEF Elsewhere

\* The other steps: products change, but not their stock unless the owner edits it.
LEMMA OtherBalance ==
  ASSUME SInv, SInv', StockBalance, NEW r \in Procs,
         Elsewhere(r) \/ CountRevenue(r) \/ CountSold(r),
         NEW p \in Products, NEW c \in Counters
  PROVE  Balanced(p, c)'
<1>1. PICK n : n = op'[r]
  OBVIOUS
<1>2. UNCHANGED orders /\ \A s \in Procs \ {r} : op'[s] = op[s]
  BY ElsewhereSlot, OtherSlots DEF CountRevenue, CountSold
<1>3. p \notin edited' /\ products'[p].exists =>
        /\ p \notin edited /\ products[p].exists
        /\ products'[p].stock[c] = products[p].stock[c]
  <2>1. CASE UNCHANGED <<products, edited>>
    BY <2>1
  <2>2. CASE SaveProduct(r)
    BY <2>2, SavedProduct
  <2>3. CASE CountSold(r)
    <3> DEFINE q == Head(op[r].items).p
    <3>1. PICK d : products' = IF products[q].exists
                               THEN [products EXCEPT ![q] = [products[q] EXCEPT !.sold = d]]
                               ELSE products
      BY <2>3 DEF CountSold, OnProduct
    <3>2. \A e \in Product : LET f == [e EXCEPT !.sold = d] IN f.exists = e.exists /\ f.stock = e.stock
      BY DEF Product
    <3> HIDE DEF q
    <3>3. products'[p].exists = products[p].exists /\ products'[p].stock = products[p].stock
      BY <3>1, <3>2, DocumentsTyped
    <3> QED
      BY <2>3, <3>3 DEF CountSold
  <2>4. CASE RemoveProduct(r)
    <3>1. products' = [products EXCEPT ![op[r].p].exists = FALSE] /\ UNCHANGED edited
      BY <2>4 DEF RemoveProduct
    <3>2. \A e \in Product : LET f == [e EXCEPT !.exists = FALSE] IN ~f.exists
      BY DEF Product
    <3> QED
      BY <3>1, <3>2, DocumentsTyped
  <2>5. CASE UpdateProducts(r)
    <3>1. PICK st : /\ products' = [q \in Products |-> [products[q] EXCEPT !.st = st[q]]]
                    /\ UNCHANGED edited
      <4> DEFINE new == [q \in Products |->
                           IF op[r].kind = "closeStore" THEN "archived"
                           ELSE IF products[q].st = "active" THEN "hidden" ELSE products[q].st]
      <4>1. products' = [q \in Products |-> [products[q] EXCEPT !.st = new[q]]]
        BY <2>5 DEF UpdateProducts
      <4> HIDE DEF new
      <4> QED
        BY <2>5, <4>1 DEF UpdateProducts
    <3>2. \A e \in Product : \A x : LET f == [e EXCEPT !.st = x] IN f.exists = e.exists /\ f.stock = e.stock
      BY DEF Product
    <3>3. products'[p].exists = products[p].exists /\ products'[p].stock = products[p].stock
      BY <3>1, <3>2, DocumentsTyped
    <3> QED
      BY <3>1, <3>3
  <2> QED
    BY <2>1, <2>2, <2>3, <2>4, <2>5
    DEF Elsewhere, Request, Crash, CreateOrder, UpdateOrderStatus, UpdateProduct, DeleteProduct,
         AdminUpdateProductStatus, CloseStore, AdminUpdateStoreStatus, RetryOrder, CountRevenue,
         VerifyStoreOwnership, SaveStore
<1>4. Returned(n, orders, p, c) = 0
  <2>1. CASE Elsewhere(r)
    <3>1. Fresh(n)
      BY <1>1, <2>1, ElsewhereSlot
    <3>2. n.o \in OrderIds => Demand(orders[n.o].items, p, c) \in Nat
      BY DocumentsTyped, DemandNat
    <3> QED
      BY <3>1, <3>2 DEF Fresh, Returned, Cancelling
  <2>2. CASE CountRevenue(r)
    <3>1. PICK o \in Operation : o = op[r]
      BY SlotTyped
    <3>2. n = [o EXCEPT !.at = "sold"]
      BY <1>1, <2>2, <3>1, OtherSlots DEF CountRevenue
    <3>3. n.at = "sold"
      BY <3>2 DEF Operation
    <3> QED
      BY <3>3 DEF Returned, Cancelling
  <2>3. CASE CountSold(r)
    <3>1. PICK o \in Operation : o = op[r]
      BY SlotTyped
    <3>2. o.at = "sold" /\ Sound(o) /\ n = NextLine(o)
      BY <1>1, <2>3, <3>1, SlotTyped, OtherSlots DEF CountSold
    <3>3. n.at \in {"sold", "saveOrder"} /\ n.to = o.to /\ o.to = "delivered"
      BY <3>2, NextLineSound DEF Sound
    <3> QED
      BY <3>3 DEF Returned, Cancelling
  <2> QED
    BY <2>1, <2>2, <2>3
<1> QED
  BY <1>1, <1>2, <1>3, <1>4, QuietBalance

\* Initially everything is on the shelf.
LEMMA InitBalance == Init => StockBalance
<1> SUFFICES ASSUME Init, NEW p \in Products, NEW c \in Counters PROVE Balanced(p, c)
  BY DEF StockBalance
<1>1. SInv
  BY InitSound
<1>2. Restored(p, c) = 0
  <2> DEFINE f == [r \in Procs |-> Returned(op[r], orders, p, c)]
  <2>1. \A r \in Procs : f[r] = 0
    BY IdleReturns DEF Init
  <2> HIDE DEF f
  <2>2. SumFunctionOnSet(f, Procs) = 0
    BY <2>1, SumZero, OrdersAssumption
  <2> QED
    BY <2>2 DEF f, Restored
<1>3. Standing(p, c) \in Nat /\ products[p].stock[c] \in Nat
  BY <1>1, StandingNat, StockNat
<1>4. products[p].stock[c] = OnShelf.stock[c]
  BY DEF Init, Shelf
<1> QED
  BY <1>2, <1>3, <1>4 DEF Balanced

LEMMA BalanceNext == SInv /\ SInv' /\ StockBalance /\ [Next]_vars => StockBalance'
<1> SUFFICES ASSUME SInv, SInv', StockBalance, [Next]_vars, NEW p \in Products, NEW c \in Counters
             PROVE  Balanced(p, c)'
  BY DEF StockBalance
<1>1. CASE UNCHANGED vars
  <2>1. Standing(p, c)' = Standing(p, c)
    BY <1>1, StandingSame DEF vars
  <2>2. Restored(p, c)' = Restored(p, c)
    BY <1>1 DEF vars, Restored, Returned, Cancelling, Demand, Touches, Quantities
  <2>3. Balanced(p, c)
    BY DEF StockBalance
  <2> QED
    BY <1>1, <2>1, <2>2, <2>3 DEF vars, Balanced, OnShelf
<1>2. CASE AtRest
  BY <1>1, <1>2 DEF AtRest
<1>3. ASSUME NEW r \in Procs, Request(r) \/ Crash(r) PROVE Balanced(p, c)'
  BY <1>3, OtherBalance DEF Elsewhere
<1>4. ASSUME NEW r \in Procs, Step(r) PROVE Balanced(p, c)'
  <2>1. CASE RestoreLine(r)
    BY <2>1, RestoreBalance
  <2>2. CASE CommitOrder(r)
    BY <2>2, CommitBalance
  <2>3. CASE SaveOrder(r)
    BY <2>3, SaveBalance
  <2> QED
    BY <1>4, <2>1, <2>2, <2>3, OtherBalance DEF Step, Elsewhere
<1> QED
  BY <1>1, <1>2, <1>3, <1>4 DEF Next

\* No stock is lost, whatever orders, cancellations and breaks (order.service.ts:84-110,
\* 277-294): an invariant that counts what is put back before the order is saved.
THEOREM StockKept == Spec => []NoStockLost
<1>1. SInv /\ StockBalance => NoStockLost
  <2> SUFFICES ASSUME SInv, StockBalance, NEW p \in Products \ edited, NEW c \in Counters,
                      products[p].exists
               PROVE  products[p].stock[c] + Standing(p, c) >= OnShelf.stock[c]
    BY DEF NoStockLost
  <2>1. products[p].stock[c] + Standing(p, c) >= OnShelf.stock[c] + Restored(p, c)
    BY DEF StockBalance, Balanced
  <2>2. Standing(p, c) \in Nat /\ products[p].stock[c] \in Nat /\ OnShelf.stock[c] \in Nat
    BY StandingNat, StockNat
  <2>3. Restored(p, c) \in Nat
    <3> DEFINE f == [r \in Procs |-> Returned(op[r], orders, p, c)]
    <3>1. \A r \in Procs : f[r] \in Nat
      BY ReturnedNat, DocumentsTyped DEF SInv, TypeOK
    <3> HIDE DEF f
    <3>2. SumFunctionOnSet(f, Procs) \in Nat
      BY <3>1, SumNat, OrdersAssumption
    <3> QED
      BY <3>2 DEF f, Restored
  <2> QED
    BY <2>1, <2>2, <2>3
<1> QED
  BY <1>1, InitBalance, BalanceNext, SoundInductive, PTL DEF Spec

-----------------------------------------------------------------------------
\* Every paid order is counted.  What a delivering request has counted is in the
\* revenue and not yet in a paid order.
Delivering(o) == o.at = "sold" \/ (o.at = "saveOrder" /\ o.to = "delivered")

Entered(o, os) == IF Delivering(o) THEN Units(os[o.o].items) ELSE 0

Counted == SumFunctionOnSet([r \in Procs |-> Entered(op[r], orders)], Procs)

PaidUnits == SumFunctionOnSet([id \in OrderIds |-> Units(orders[id].items)],
                              {id \in OrderIds : orders[id].paid})

RevenueBalance == PaidUnits + Counted <= store.revenue

Paid(order) == IF order.paid THEN Units(order.items) ELSE 0

PaidIn(os) == SumFunctionOnSet([id \in OrderIds |-> Paid(os[id])], OrderIds)

LEMMA PaidNat ==
  ASSUME NEW os \in [OrderIds -> Order]
  PROVE  /\ \A id \in OrderIds : Paid(os[id]) \in Nat
         /\ PaidIn(os) \in Nat
         /\ SumFunctionOnSet([id \in OrderIds |-> Units(os[id].items)],
                             {id \in OrderIds : os[id].paid}) = PaidIn(os)
<1> DEFINE f == [id \in OrderIds |-> Units(os[id].items)]
           g == [id \in OrderIds |-> Paid(os[id])]
           T == {id \in OrderIds : os[id].paid}
<1>1. \A id \in OrderIds : Units(os[id].items) \in Nat
  BY DemandNat DEF Order
<1>2. \A id \in OrderIds : Paid(os[id]) \in Nat
  BY <1>1 DEF Paid
<1>3. \A id \in OrderIds : g[id] = IF id \in T THEN f[id] ELSE 0
  BY DEF Paid
<1>4. g = [id \in OrderIds |-> IF id \in T THEN f[id] ELSE 0]
  BY <1>3
<1>5. T \in SUBSET OrderIds /\ \A id \in T : f[id] \in Nat
  BY <1>1
<1>6. \A id \in OrderIds : g[id] \in Nat
  BY <1>2
<1> HIDE DEF f, g, T
<1>7. SumFunctionOnSet(f, T) = SumFunctionOnSet(g, OrderIds)
  BY <1>4, <1>5, SumRestrict, OrdersAssumption
<1>8. SumFunctionOnSet(g, OrderIds) \in Nat
  BY <1>6, SumNat, OrdersAssumption
<1> QED
  BY <1>2, <1>7, <1>8 DEF f, g, T, PaidIn

\* One order changes.
LEMMA PaidChange ==
  ASSUME SInv, SInv', NEW id \in OrderIds, \A i \in OrderIds \ {id} : orders'[i] = orders[i]
  PROVE  /\ PaidUnits' + Paid(orders[id]) = PaidUnits + Paid(orders'[id])
         /\ PaidUnits \in Nat /\ PaidUnits' \in Nat
         /\ Paid(orders[id]) \in Nat /\ Paid(orders'[id]) \in Nat
<1> DEFINE f == [i \in OrderIds |-> Paid(orders[i])]
           g == [i \in OrderIds |-> Paid(orders'[i])]
<1>1. orders \in [OrderIds -> Order] /\ orders' \in [OrderIds -> Order]
  BY DEF SInv, TypeOK
<1>2. /\ PaidUnits = PaidIn(orders) /\ PaidIn(orders) \in Nat
      /\ \A i \in OrderIds : Paid(orders[i]) \in Nat
  BY <1>1, PaidNat DEF PaidUnits
<1>3. /\ PaidUnits' = PaidIn(orders') /\ PaidIn(orders') \in Nat
      /\ \A i \in OrderIds : Paid(orders'[i]) \in Nat
  BY <1>1, PaidNat DEF PaidUnits, Units, Quantities
<1>4. \A i \in OrderIds : f[i] \in Nat /\ g[i] \in Nat /\ (i # id => g[i] = f[i])
  BY <1>2, <1>3
<1>5. /\ f[id] = Paid(orders[id]) /\ g[id] = Paid(orders'[id])
      /\ PaidIn(orders) = SumFunctionOnSet(f, OrderIds)
      /\ PaidIn(orders') = SumFunctionOnSet(g, OrderIds)
  BY DEF PaidIn
<1> HIDE DEF f, g
<1>6. SumFunctionOnSet(g, OrderIds) + f[id] = SumFunctionOnSet(f, OrderIds) + g[id]
  BY <1>4, SumChange, OrdersAssumption
<1> QED
  BY <1>2, <1>3, <1>5, <1>6

LEMMA PaidSame == ASSUME SInv, UNCHANGED orders PROVE PaidUnits' = PaidUnits /\ PaidUnits \in Nat
<1>1. PaidUnits' = PaidUnits
  BY DEF PaidUnits, Units, Quantities
<1>2. PaidUnits = PaidIn(orders) /\ PaidIn(orders) \in Nat
  BY DocumentsTyped, PaidNat DEF PaidUnits
<1> QED
  BY <1>1, <1>2

\* What a request has counted.
LEMMA EnteredNat ==
  ASSUME NEW o \in Operation, NEW os \in [OrderIds -> Order], About(o, os)
  PROVE  Entered(o, os) \in Nat
<1>1. CASE Delivering(o)
  <2>1. o.o \in OrderIds
    BY <1>1 DEF Delivering, About, Saving
  <2>2. os[o.o].items \in Seq(Line)
    BY <2>1 DEF Order
  <2> QED
    BY <1>1, <2>2, DemandNat DEF Entered
<1>2. CASE ~Delivering(o)
  BY <1>2 DEF Entered
<1> QED
  BY <1>1, <1>2

\* One request changes, and with it an order nobody else is delivering.
LEMMA CountedChange ==
  ASSUME SInv, SInv', NEW r \in Procs, \A s \in Procs \ {r} : op'[s] = op[s],
         \A s \in Procs \ {r} :
           Delivering(op[s]) => orders'[op[s].o].items = orders[op[s].o].items
  PROVE  /\ Counted' + Entered(op[r], orders) = Counted + Entered(op'[r], orders')
         /\ Counted \in Nat /\ Counted' \in Nat
         /\ Entered(op[r], orders) \in Nat /\ Entered(op'[r], orders') \in Nat
<1> DEFINE f == [s \in Procs |-> Entered(op[s], orders)]
           g == [s \in Procs |-> Entered(op'[s], orders')]
<1>1. ASSUME NEW s \in Procs
      PROVE  /\ f[s] \in Nat /\ g[s] \in Nat
             /\ s # r => g[s] = f[s]
  <2>1. f[s] \in Nat
    BY EnteredNat, DocumentsTyped DEF SInv, TypeOK
  <2>2. op'[s] \in Operation /\ orders' \in [OrderIds -> Order] /\ About(op'[s], orders')
    BY DEF SInv, TypeOK, Sound
  <2>3. g[s] \in Nat
    BY <2>2, EnteredNat
  <2>4. s # r => g[s] = f[s]
    BY DEF Entered
  <2> QED
    BY <2>1, <2>3, <2>4
<1>2. Counted = SumFunctionOnSet(f, Procs) /\ Counted' = SumFunctionOnSet(g, Procs)
  BY DEF Counted, Entered, Units, Quantities, Delivering
<1>3. f[r] = Entered(op[r], orders) /\ g[r] = Entered(op'[r], orders')
  OBVIOUS
<1> HIDE DEF f, g
<1>4. SumFunctionOnSet(g, Procs) + f[r] = SumFunctionOnSet(f, Procs) + g[r]
  BY <1>1, SumChange, OrdersAssumption
<1>5. SumFunctionOnSet(f, Procs) \in Nat /\ SumFunctionOnSet(g, Procs) \in Nat
  BY <1>1, SumNat, OrdersAssumption
<1> QED
  BY <1>1, <1>2, <1>3, <1>4, <1>5

\* A step that writes no order and after which the slot has counted as little as before,
\* or less.
LEMMA QuietRevenue ==
  ASSUME SInv, SInv', RevenueBalance, NEW r \in Procs, \A s \in Procs \ {r} : op'[s] = op[s],
         UNCHANGED orders, NEW more \in Nat, store'.revenue = store.revenue + more,
         Entered(op'[r], orders) <= Entered(op[r], orders) + more
  PROVE  RevenueBalance'
<1>1. /\ Counted' + Entered(op[r], orders) = Counted + Entered(op'[r], orders')
      /\ Counted \in Nat /\ Counted' \in Nat
      /\ Entered(op[r], orders) \in Nat /\ Entered(op'[r], orders') \in Nat
  BY CountedChange
<1>2. PaidUnits' = PaidUnits /\ PaidUnits \in Nat
  BY PaidSame
<1>3. store.revenue \in Nat
  BY DocumentsTyped, StoreTyped
<1>4. PaidUnits + Counted <= store.revenue
  BY DEF RevenueBalance
<1>5. Entered(op'[r], orders') = Entered(op'[r], orders)
  OBVIOUS
<1>6. PaidUnits' + Counted' <= store'.revenue
  BY <1>1, <1>2, <1>3, <1>4, <1>5
<1> QED
  BY <1>6 DEF RevenueBalance

\* An order is placed unpaid.
LEMMA CommitRevenue ==
  ASSUME SInv, SInv', RevenueBalance, NEW r \in Procs, CommitOrder(r)
  PROVE  RevenueBalance'
<1> DEFINE items == op[r].items
           id == op[r].o
<1>1. id \in OrderIds /\ orders[id].st = "unborn"
  BY CommitTakes
<1>2. /\ Become(r, Idle) /\ op[r].at = "commit" /\ store' = [store EXCEPT !.orders = @ + 1]
      /\ orders' = [orders EXCEPT ![id] = [st |-> "pending", paid |-> FALSE, items |-> items]]
  BY DEF CommitOrder
<1>3. op'[r] = Idle /\ \A s \in Procs \ {r} : op'[s] = op[s]
  BY <1>2, OtherSlots
<1>4. /\ \A i \in OrderIds \ {id} : orders'[i] = orders[i]
      /\ ~orders'[id].paid
  BY <1>1, <1>2, DocumentsTyped
<1>5. \A s \in Procs \ {r} :
        Delivering(op[s]) => orders'[op[s].o].items = orders[op[s].o].items
  <2> SUFFICES ASSUME NEW s \in Procs \ {r}, Delivering(op[s])
               PROVE  orders'[op[s].o].items = orders[op[s].o].items
    OBVIOUS
  <2>1. op[s].o \in OrderIds /\ orders[op[s].o].st # "unborn"
    BY DEF Delivering, SInv, About, Saving
  <2> QED
    BY <1>1, <1>4, <2>1
<1>6. ~orders[id].paid
  BY <1>1 DEF SInv, Kept
<1> HIDE DEF items, id
<1>7. /\ Counted' + Entered(op[r], orders) = Counted + Entered(op'[r], orders')
      /\ Counted \in Nat /\ Counted' \in Nat
      /\ Entered(op[r], orders) \in Nat /\ Entered(op'[r], orders') \in Nat
  BY <1>3, <1>5, CountedChange
<1>8. Entered(op'[r], orders') <= Entered(op[r], orders)
  <2>1. Entered(op[r], orders) = 0 /\ Entered(op'[r], orders') = 0
    BY <1>2, <1>3 DEF Entered, Delivering, Idle
  <2> QED
    BY <2>1
<1>9. /\ PaidUnits' + Paid(orders[id]) = PaidUnits + Paid(orders'[id])
      /\ PaidUnits \in Nat /\ PaidUnits' \in Nat
      /\ Paid(orders[id]) \in Nat /\ Paid(orders'[id]) \in Nat
  BY <1>1, <1>4, PaidChange
<1>10. Paid(orders'[id]) <= Paid(orders[id])
  <2>1. Paid(orders[id]) = 0 /\ Paid(orders'[id]) = 0
    BY <1>4, <1>6 DEF Paid
  <2> QED
    BY <2>1
<1>11. store'.revenue = store.revenue /\ store.revenue \in Nat
  BY <1>2, DocumentsTyped DEF Store
<1>12. PaidUnits' + Counted' <= store'.revenue
  BY <1>7, <1>8, <1>9, <1>10, <1>11 DEF RevenueBalance
<1> QED
  BY <1>12 DEF RevenueBalance

\* A status is saved: an order that becomes paid has been counted by the request that
\* delivers it.
LEMMA SaveRevenue ==
  ASSUME SInv, SInv', RevenueBalance, NEW r \in Procs, SaveOrder(r)
  PROVE  RevenueBalance'
<1> DEFINE o == op[r]
           id == o.o
<1>1. id \in OrderIds
  BY SlotTyped DEF SaveOrder, About, Saving
<1>2. /\ Become(r, Idle) /\ UNCHANGED store /\ o.at = "saveOrder"
      /\ orders' = [orders EXCEPT ![id].st = o.to, ![id].paid = @ \/ o.to = "delivered"]
  BY DEF SaveOrder
<1>3. op'[r] = Idle /\ \A s \in Procs \ {r} : op'[s] = op[s]
  BY <1>2, OtherSlots
<1>4. /\ \A i \in OrderIds \ {id} : orders'[i] = orders[i]
      /\ orders'[id].paid = (orders[id].paid \/ o.to = "delivered")
      /\ orders'[id].items = orders[id].items
  <2>1. orders[id] \in Order
    BY <1>1, DocumentsTyped
  <2> HIDE DEF id, o
  <2> QED
    BY <1>1, <1>2, <2>1, DocumentsTyped DEF Order
<1>5. \A s \in Procs \ {r} :
        Delivering(op[s]) => orders'[op[s].o].items = orders[op[s].o].items
  <2> SUFFICES ASSUME NEW s \in Procs \ {r}, Delivering(op[s])
               PROVE  orders'[op[s].o].items = orders[op[s].o].items
    OBVIOUS
  <2>1. op[s].o \in OrderIds
    BY DEF Delivering, SInv, About, Saving
  <2> QED
    BY <1>4, <2>1
<1>6. Units(orders[id].items) \in Nat
  BY <1>1, DocumentsTyped, DemandNat
<1>7. o.to = "delivered" => Entered(op[r], orders) = Units(orders[id].items)
  BY <1>2 DEF Entered, Delivering
<1>8. /\ Counted' + Entered(op[r], orders) = Counted + Entered(op'[r], orders')
      /\ Counted \in Nat /\ Counted' \in Nat
      /\ Entered(op[r], orders) \in Nat
  BY <1>3, <1>5, CountedChange
<1>9. Entered(op'[r], orders') = 0
  BY <1>3 DEF Entered, Delivering, Idle
<1> HIDE DEF o, id
<1>10. /\ PaidUnits' + Paid(orders[id]) = PaidUnits + Paid(orders'[id])
       /\ PaidUnits \in Nat /\ PaidUnits' \in Nat
       /\ Paid(orders[id]) \in Nat /\ Paid(orders'[id]) \in Nat
  BY <1>1, <1>4, PaidChange
<1>11. Paid(orders'[id]) <= Paid(orders[id]) + Entered(op[r], orders)
  <2>1. CASE o.to = "delivered"
    <3>1. Paid(orders'[id]) <= Units(orders[id].items)
      BY <1>4, <1>6 DEF Paid
    <3> QED
      BY <1>6, <1>7, <1>8, <1>10, <2>1, <3>1
  <2>2. CASE o.to # "delivered"
    <3>1. Paid(orders'[id]) = Paid(orders[id])
      BY <1>4, <2>2 DEF Paid
    <3> QED
      BY <1>8, <1>10, <3>1
  <2> QED
    BY <2>1, <2>2
<1>12. store'.revenue = store.revenue /\ store.revenue \in Nat
  BY <1>2, DocumentsTyped, StoreTyped
<1>13. PaidUnits' + Counted' <= store'.revenue
  BY <1>8, <1>9, <1>10, <1>11, <1>12 DEF RevenueBalance
<1> QED
  BY <1>13 DEF RevenueBalance

\* The other steps count an order's units, or no revenue at all.
LEMMA OtherRevenue ==
  ASSUME SInv, SInv', RevenueBalance, NEW r \in Procs,
         Elsewhere(r) \/ RestoreLine(r) \/ CountRevenue(r) \/ CountSold(r)
  PROVE  RevenueBalance'
<1>1. PICK o \in Operation : o = op[r]
  BY SlotTyped
<1>2. PICK n : n = op'[r]
  OBVIOUS
<1>3. UNCHANGED orders /\ \A s \in Procs \ {r} : op'[s] = op[s]
  BY ElsewhereSlot, OtherSlots DEF RestoreLine, CountRevenue, CountSold
<1>4. Entered(o, orders) \in Nat
  BY <1>1, SlotTyped, DocumentsTyped, EnteredNat
<1>5. store.revenue \in Nat
  BY DocumentsTyped, StoreTyped
<1>6. CASE Elsewhere(r)
  <2>1. Entered(n, orders) = 0
    BY <1>2, <1>6, ElsewhereSlot DEF Fresh, Entered, Delivering
  <2>2. store'.revenue = store.revenue
    <3>1. UNCHANGED store \/ \E st : store' = [store EXCEPT !.st = st]
      BY <1>6 DEF Elsewhere, Request, Crash, CreateOrder, UpdateOrderStatus, UpdateProduct,
         DeleteProduct, AdminUpdateProductStatus, CloseStore, AdminUpdateStoreStatus, RetryOrder,
         VerifyStoreOwnership, SaveProduct, RemoveProduct, UpdateProducts, SaveStore
    <3> QED
      BY <3>1, DocumentsTyped DEF Store
  <2>3. store'.revenue = store.revenue + 0
    BY <1>5, <2>2
  <2> QED
    BY <1>1, <1>2, <1>3, <1>4, <2>1, <2>3, QuietRevenue
<1>7. CASE RestoreLine(r) \/ CountSold(r)
  <2>1. /\ o.at \in {"restore", "sold"} /\ Sound(o) /\ n = NextLine(o) /\ UNCHANGED store
        /\ o.at = "restore" <=> RestoreLine(r)
    BY <1>1, <1>2, <1>7, SlotTyped, OtherSlots DEF RestoreLine, CountSold
  <2>2. /\ n.at \in {o.at, "saveOrder"} /\ n.to = o.to /\ n.o = o.o
        /\ o.to = IF o.at = "sold" THEN "delivered" ELSE "cancelled"
    BY <2>1, NextLineSound DEF Sound
  <2>3. Entered(n, orders) = Entered(o, orders)
    BY <2>1, <2>2 DEF Entered, Delivering
  <2>4. store'.revenue = store.revenue + 0
    BY <1>5, <2>1
  <2>5. Entered(n, orders) <= Entered(o, orders) + 0
    BY <1>4, <2>3
  <2> QED
    BY <1>1, <1>2, <1>3, <2>4, <2>5, QuietRevenue
<1>8. CASE CountRevenue(r)
  <2>1. /\ o.at = "revenue" /\ About(o, orders) /\ n = [o EXCEPT !.at = "sold"]
        /\ store' = [store EXCEPT !.revenue = store.revenue + Units(o.items)]
    BY <1>1, <1>2, <1>8, SlotTyped, OtherSlots DEF CountRevenue, Earned
  <2>2. n.at = "sold" /\ n.o = o.o /\ o.items = orders[o.o].items /\ o.items \in Seq(Line)
    BY <2>1 DEF Operation, About, Saving
  <2>3. Entered(n, orders) = Units(o.items) /\ Units(o.items) \in Nat
    BY <2>2, DemandNat DEF Entered, Delivering
  <2>4. store'.revenue = store.revenue + Units(o.items)
    BY <2>1, DocumentsTyped DEF Store
  <2>5. Entered(n, orders) <= Entered(o, orders) + Units(o.items)
    BY <1>4, <2>3
  <2> QED
    BY <1>1, <1>2, <1>3, <2>3, <2>4, <2>5, QuietRevenue
<1> QED
  BY <1>6, <1>7, <1>8

LEMMA InitRevenue == Init => RevenueBalance
<1> SUFFICES ASSUME Init PROVE RevenueBalance
  OBVIOUS
<1>1. Counted = 0
  <2> DEFINE f == [r \in Procs |-> Entered(op[r], orders)]
  <2>1. \A r \in Procs : f[r] = 0
    BY DEF Init, Entered, Delivering, Idle
  <2> HIDE DEF f
  <2>2. SumFunctionOnSet(f, Procs) = 0
    BY <2>1, SumZero, OrdersAssumption
  <2> QED
    BY <2>2 DEF f, Counted
<1>2. PaidUnits = 0
  <2>1. {id \in OrderIds : orders[id].paid} = {}
    BY DEF Init
  <2> QED
    BY <2>1, SumEmpty DEF PaidUnits
<1>3. store.revenue = 0
  BY DEF Init, NoStore
<1> QED
  BY <1>1, <1>2, <1>3 DEF RevenueBalance

LEMMA RevenueNext == SInv /\ SInv' /\ RevenueBalance /\ [Next]_vars => RevenueBalance'
<1> SUFFICES ASSUME SInv, SInv', RevenueBalance, [Next]_vars PROVE RevenueBalance'
  OBVIOUS
<1>1. CASE UNCHANGED vars
  <2>1. PaidUnits' = PaidUnits /\ Counted' = Counted
    BY <1>1 DEF vars, PaidUnits, Counted, Entered, Delivering, Units, Quantities
  <2> QED
    BY <1>1, <2>1 DEF vars, RevenueBalance
<1>2. CASE AtRest
  BY <1>1, <1>2 DEF AtRest
<1>3. ASSUME NEW r \in Procs, Request(r) \/ Step(r) \/ Crash(r) PROVE RevenueBalance'
  BY <1>3, CommitRevenue, SaveRevenue, OtherRevenue DEF Step, Elsewhere
<1> QED
  BY <1>1, <1>2, <1>3 DEF Next

\* The revenue covers every paid order (order.service.ts:300-321), deliveries that race or
\* break off included: an invariant that counts what is entered before it is saved.
THEOREM PaidCounted == Spec => []PaidOrdersAreCounted
<1>1. SInv /\ RevenueBalance => PaidOrdersAreCounted
  <2> SUFFICES ASSUME SInv, RevenueBalance PROVE PaidUnits <= store.revenue
    BY DEF PaidOrdersAreCounted, PaidUnits
  <2>1. PaidUnits \in Nat /\ store.revenue \in Nat
    BY DocumentsTyped, PaidNat, StoreTyped DEF PaidUnits
  <2>2. Counted \in Nat
    <3> DEFINE f == [r \in Procs |-> Entered(op[r], orders)]
    <3>1. \A r \in Procs : f[r] \in Nat
      BY EnteredNat, DocumentsTyped DEF SInv, TypeOK
    <3> HIDE DEF f
    <3>2. SumFunctionOnSet(f, Procs) \in Nat
      BY <3>1, SumNat, OrdersAssumption
    <3> QED
      BY <3>2 DEF f, Counted
  <2> QED
    BY <2>1, <2>2 DEF RevenueBalance
<1> QED
  BY <1>1, InitRevenue, RevenueNext, SoundInductive, PTL DEF Spec

-----------------------------------------------------------------------------
\* The cart.

LEMMA LeastExists ==
  ASSUME NEW n \in Nat, NEW S \in SUBSET (1..n), S # {}
  PROVE  \E x \in S : \A y \in S : x <= y
<1> DEFINE T == {1..x : x \in S}
           U == 1..n
<1>1. T \subseteq FiniteSubsetsOf(U) /\ T # {}
  <2>1. \A x \in S : IsFiniteSet(1..x) /\ 1..x \subseteq U
    BY FS_Interval
  <2> QED
    BY <2>1 DEF FiniteSubsetsOf
<1>2. IsFiniteSet(U)
  BY FS_Interval
<1>3. IsWellFoundedOn(StrictSubsetOrdering(U), FiniteSubsetsOf(U))
  BY FS_StrictSubsetOrderingWellFounded
<1>4. PICK t \in T : \A u \in T : ~ (<<u, t>> \in StrictSubsetOrdering(U))
  <2> HIDE DEF T, U
  <2> QED
    BY <1>1, <1>3, WFMin
<1>5. PICK x \in S : t = 1..x
  BY <1>4
<1>6. ASSUME NEW y \in S, y < x PROVE FALSE
  <2>1. 1..y \subseteq 1..x /\ x \in 1..x /\ x \notin 1..y
    BY <1>6
  <2>2. <<1..y, 1..x>> \in StrictSubsetOrdering(U)
    <3>1. 1..y \in SUBSET U /\ 1..x \in SUBSET U
      BY <1>6
    <3> QED
      BY <2>1, <3>1 DEF StrictSubsetOrdering
  <2> QED
    BY <1>4, <1>5, <2>2
<1> QED
  BY <1>6

\* findIndex returns a position whose element is the product and variant looked for.
LEMMA FindMeets ==
  ASSUME NEW items \in Seq(Cart!Item), NEW o, Cart!Find(items, o) # 0
  PROVE  /\ Cart!Find(items, o) \in DOMAIN items
         /\ Cart!Is(items[Cart!Find(items, o)], o)
<1> DEFINE I == {i \in 1..Len(items) : Cart!Is(items[i], o)}
<1>1. Cart!Find(items, o) = IF I # {} THEN CHOOSE x \in I : \A y \in I : x =< y ELSE 0
  BY DEF Cart!Find, Cart!SelectInSeq, Cart!Min, Cart!Is
<1>2. I # {}
  BY <1>1
<1>3. \E x \in I : \A y \in I : x <= y
  <2>1. Len(items) \in Nat /\ I \in SUBSET (1..Len(items))
    OBVIOUS
  <2> HIDE DEF I
  <2> QED
    BY <1>2, <2>1, LeastExists
<1>4. Cart!Find(items, o) \in I
  BY <1>1, <1>2, <1>3
<1> QED
  BY <1>4

\* What is kept of a sequence: the elements at the positions kept, and no others.
LEMMA KeptElements ==
  ASSUME NEW T, NEW items \in Seq(T), NEW kept \in SUBSET (DOMAIN items)
  PROVE  /\ Cart!Kept(items, kept) \in Seq(T)
         /\ \A j \in DOMAIN Cart!Kept(items, kept) :
              \E i \in kept : Cart!Kept(items, kept)[j] = items[i]
         /\ \A i \in kept :
              \E j \in DOMAIN Cart!Kept(items, kept) : Cart!Kept(items, kept)[j] = items[i]
<1> DEFINE below(i) == {k \in kept : k <= i}
           n == Cardinality(kept)
           place == [i \in kept |-> Cardinality(below(i))]
<1>1. IsFiniteSet(kept) /\ n \in Nat /\ kept \subseteq Nat
  <2>1. IsFiniteSet(1..Len(items)) /\ kept \in SUBSET (1..Len(items))
    BY FS_Interval
  <2>2. IsFiniteSet(kept)
    BY <2>1, FS_Subset
  <2> QED
    BY <2>1, <2>2, FS_CardinalityType
<1>2. ASSUME NEW i \in kept PROVE place[i] \in 1..n
  <2>1. IsFiniteSet(below(i)) /\ Cardinality(below(i)) <= n
    BY <1>1, FS_Subset
  <2>2. i \in below(i)
    BY <1>1
  <2>3. Cardinality(below(i)) \in Nat /\ Cardinality(below(i)) # 0
    BY <2>1, <2>2, FS_EmptySet, FS_CardinalityType
  <2> HIDE DEF n, below
  <2> QED
    BY <1>1, <2>1, <2>3
<1>3. ASSUME NEW i \in kept, NEW k \in kept, i < k PROVE place[i] # place[k]
  <2>1. IsFiniteSet(below(k)) /\ below(i) \in SUBSET below(k)
    BY <1>1, <1>3, FS_Subset
  <2>2. k \in below(k) /\ k \notin below(i)
    BY <1>1, <1>3
  <2> HIDE DEF below
  <2>3. Cardinality(below(i)) # Cardinality(below(k))
    BY <2>1, <2>2, FS_Subset
  <2> QED
    BY <2>3
<1>4. place \in Injection(kept, 1..n)
  <2>1. \A i, k \in kept : place[i] = place[k] => i = k
    <3>1. SUFFICES ASSUME NEW i \in kept, NEW k \in kept, place[i] = place[k], i # k
                   PROVE  FALSE
      OBVIOUS
    <3>2. i < k \/ k < i
      BY <1>1, <3>1
    <3> HIDE DEF place
    <3> QED
      BY <1>3, <3>1, <3>2
  <2>2. place \in [kept -> 1..n]
    BY <1>2
  <2> HIDE DEF place, n
  <2> QED
    BY <2>1, <2>2 DEF Injection, IsInjective
<1>5. place \in Surjection(kept, 1..n)
  <2>1. IsFiniteSet(1..n) /\ Cardinality(1..n) = n
    BY <1>1, FS_Interval
  <2> HIDE DEF place
  <2> QED
    BY <1>1, <1>4, <2>1, FS_Injection
<1> DEFINE at(j) == CHOOSE i \in kept : Cardinality({k \in kept : k <= i}) = j
<1>6. ASSUME NEW j \in 1..n PROVE at(j) \in kept /\ place[at(j)] = j
  <2>1. \E i \in kept : place[i] = j
    BY <1>5, <1>6 DEF Surjection
  <2>2. \E i \in kept : Cardinality({k \in kept : k <= i}) = j
    BY <2>1
  <2>3. at(j) \in kept /\ Cardinality({k \in kept : k <= at(j)}) = j
    BY <2>2
  <2> QED
    BY <2>3
<1>7. ASSUME NEW i \in kept PROVE at(place[i]) = i
  <2>1. place[i] \in 1..n
    BY <1>2
  <2>2. at(place[i]) \in kept /\ place[at(place[i])] = place[i]
    BY <1>6, <2>1
  <2> HIDE DEF at, place
  <2> QED
    BY <1>4, <2>2 DEF Injection, IsInjective
<1>8. Cart!Kept(items, kept) = [j \in 1..n |-> items[at(j)]]
  BY DEF Cart!Kept, Cart!Cardinality, Cardinality
<1> HIDE DEF n, place, at
<1>9. \A j \in 1..n : items[at(j)] \in T
  BY <1>6
<1>10. Cart!Kept(items, kept) \in Seq(T) /\ DOMAIN Cart!Kept(items, kept) = 1..n
  BY <1>1, <1>8, <1>9
<1> QED
  BY <1>2, <1>6, <1>7, <1>8, <1>10

\* An array without the element at position i.
LEMMA RemoveAtElements ==
  ASSUME NEW T, NEW items \in Seq(T), NEW i \in DOMAIN items
  PROVE  /\ Cart!RemoveAt(items, i) \in Seq(T)
         /\ \A j \in DOMAIN Cart!RemoveAt(items, i) :
              \E k \in DOMAIN items : Cart!RemoveAt(items, i)[j] = items[k]
         /\ \A k \in DOMAIN items \ {i} :
              \E j \in DOMAIN Cart!RemoveAt(items, i) : Cart!RemoveAt(items, i)[j] = items[k]
<1> DEFINE a == SubSeq(items, 1, i - 1)
           b == SubSeq(items, i + 1, Len(items))
<1>1. Cart!RemoveAt(items, i) = a \o b
  BY DEF Cart!RemoveAt
<1>2. i \in 1..Len(items) /\ Len(items) \in Nat /\ \A k \in 1..Len(items) : items[k] \in T
  OBVIOUS
<1>3. /\ a \in Seq(T) /\ Len(a) = i - 1 /\ \A j \in 1..(i - 1) : a[j] = items[j]
  BY <1>2, SubSeqProperties
<1>4. /\ b \in Seq(T) /\ Len(b) = Len(items) - i
      /\ \A j \in 1..(Len(items) - i) : b[j] = items[i + j]
  BY <1>2, SubSeqProperties
<1> HIDE DEF a, b
<1> DEFINE l == Len(items)
           c == a \o b
<1>5. l \in Nat /\ i \in Nat /\ 1 <= i /\ i <= l /\ DOMAIN items = 1..l
  BY <1>2
<1>6. c \in Seq(T) /\ Len(c) = Len(a) + Len(b)
  BY <1>3, <1>4, ConcatProperties
<1>7. \A j \in 1..(Len(a) + Len(b)) : c[j] = IF j <= Len(a) THEN a[j] ELSE b[j - Len(a)]
  BY <1>3, <1>4, ConcatProperties
<1> HIDE DEF l, c
<1>8. Len(a) = i - 1 /\ Len(b) = l - i /\ Len(c) = l - 1 /\ DOMAIN c = 1..(l - 1)
  BY <1>3, <1>4, <1>5, <1>6 DEF l
<1>9. ASSUME NEW j \in 1..(l - 1), j < i PROVE c[j] = items[j]
  <2>1. c[j] = a[j]
    BY <1>5, <1>7, <1>8, <1>9
  <2> QED
    BY <1>3, <1>5, <1>9, <2>1
<1>10. ASSUME NEW j \in 1..(l - 1), j >= i PROVE c[j] = items[j + 1]
  <2>1. c[j] = b[j - (i - 1)]
    <3>1. j \in 1..(Len(a) + Len(b)) /\ ~(j <= Len(a))
      BY <1>5, <1>8, <1>10
    <3> QED
      BY <1>7, <1>8, <3>1
  <2>2. j - (i - 1) \in 1..(l - i) /\ i + (j - (i - 1)) = j + 1
    BY <1>5, <1>10
  <2>3. b[j - (i - 1)] = items[i + (j - (i - 1))]
    BY <1>4, <2>2 DEF l
  <2> QED
    BY <2>1, <2>2, <2>3
<1>11. ASSUME NEW k \in (DOMAIN items) \ {i} PROVE \E j \in DOMAIN c : c[j] = items[k]
  <2>1. CASE k < i
    <3>1. k \in 1..(l - 1)
      BY <1>5, <2>1
    <3> QED
      BY <1>8, <1>9, <2>1, <3>1
  <2>2. CASE k > i
    <3>1. k - 1 \in 1..(l - 1) /\ k - 1 >= i /\ (k - 1) + 1 = k
      BY <1>5, <2>2
    <3>2. c[k - 1] = items[k]
      BY <1>10, <3>1
    <3> QED
      BY <1>8, <3>1, <3>2
  <2> QED
    BY <1>5, <2>1, <2>2
<1>12. ASSUME NEW j \in DOMAIN c PROVE \E k \in DOMAIN items : c[j] = items[k]
  <2>1. j \in 1..(l - 1) /\ (j < i \/ j >= i) /\ j \in 1..l /\ j + 1 \in 1..l
    BY <1>5, <1>8
  <2> QED
    BY <1>5, <1>9, <1>10, <2>1
<1> QED
  BY <1>1, <1>6, <1>11, <1>12 DEF c

\* No item of no pieces.
Sized(items) == \A i \in DOMAIN items : items[i].p # None => items[i].n >= 1

\* What a request is going to write.
WellWritten(w) ==
  /\ Sized(w.items)
  /\ w.how \in {"push", "set"} => Len(w.items) = 1 /\ w.items[1].p # None
  /\ w.how = "set" => w.i >= 1

\* The request removes this item, or all of them.
Ends(o, p, c) ==
  o.kind = "clear" \/ (o.kind \in {"update", "remove"} /\ o.p = p /\ o.c = c)

\* The array a request is going to write holds all that the cart d holds, except
\* what the request removes.
Covers(o, d) ==
  /\ o.kind \in {"update", "remove", "clear"}
  /\ \A p \in Goods, c \in CartVariants :
       Cart!Holds(d, p, c) /\ ~Ends(o, p, c) => Cart!Holds(o.write, p, c)

\* A request in flight while the cart is d.
Fits(o, d) ==
  /\ o.kind = "add" => o.n >= 1 /\ o.p # None
  /\ o.at \in {"save", "readStock"} => d.exists /\ o.v <= d.v
  /\ o.at = "save" => o.write.how # "none"
  /\ o.at = "readStock" => o.write.how \in {"none", "set"}
  /\ WellWritten(o.write)
  /\ o.at = "save" /\ o.write.how = "whole" /\ o.v = d.v => Covers(o, d)

CartInv ==
  /\ cart \in Cart!Cart /\ Sized(cart.items)
  /\ cartOp \in [Devices -> Cart!Operation]
  /\ ~cart.exists => cart = Cart!NoCart
  /\ \A r \in Devices : Fits(cartOp[r], cart)

LEMMA CartIdle ==
  /\ Cart!Idle \in Cart!Operation /\ Cart!NoWrite \in Cart!Write
  /\ Cart!AnyVariant \in CartVariants
  /\ \A d : Fits(Cart!Idle, d)
  /\ Cart!Idle.write = Cart!NoWrite /\ Cart!Idle.at = "idle" /\ Cart!Idle.kind = "none"
<1>1. Cart!AnyVariant \in CartVariants
  BY MarketAssumption DEF Cart!AnyVariant
<1>2. Cart!NoWrite \in Cart!Write
  BY DEF Cart!NoWrite, Cart!Write
<1>3. Cart!Idle \in Cart!Operation
  BY <1>1, <1>2 DEF Cart!Idle, Cart!Operation, Cart!Kinds, Cart!Steps
<1>4. \A d : Fits(Cart!Idle, d)
  BY DEF Cart!Idle, Cart!NoWrite, Fits, WellWritten, Sized
<1> QED
  BY <1>1, <1>2, <1>3, <1>4 DEF Cart!Idle

LEMMA CartInit == Cart!Init => CartInv
<1> SUFFICES ASSUME Cart!Init PROVE CartInv
  OBVIOUS
<1>1. Cart!NoCart \in Cart!Cart /\ Sized(Cart!NoCart.items)
  BY DEF Cart!NoCart, Cart!Cart, Sized
<1>2. cartOp = [r \in Devices |-> Cart!Idle] /\ cart = Cart!NoCart
  BY DEF Cart!Init
<1> QED
  BY <1>1, <1>2, CartIdle DEF CartInv

\* A request still fits when the cart moves on to a later version, or keeps its version
\* and gains nothing.
LEMMA FitsLater ==
  ASSUME NEW d \in Cart!Cart, NEW e \in Cart!Cart, NEW o \in Cart!Operation, Fits(o, d),
         d.exists => e.exists,
         \/ d.v < e.v
         \/ /\ d.v = e.v
            /\ \A p \in Goods, c \in CartVariants : Cart!Holds(e, p, c) => Cart!Holds(d, p, c)
  PROVE  Fits(o, e)
<1>1. d.v \in Nat /\ e.v \in Nat /\ o.v \in Nat
  BY DEF Cart!Cart, Cart!Operation
<1>2. o.at = "save" /\ o.write.how = "whole" /\ o.v = e.v => Covers(o, e)
  BY <1>1 DEF Fits, Covers
<1>3. o.at \in {"save", "readStock"} => e.exists /\ o.v <= e.v
  BY <1>1 DEF Fits
<1> QED
  BY <1>2, <1>3 DEF Fits

\* A step of one request that leaves the cart alone.
LEMMA CartSlot ==
  ASSUME CartInv, NEW r \in Devices, NEW o \in Cart!Operation, Fits(o, cart),
         Cart!Become(r, o), UNCHANGED cart
  PROVE  CartInv'
<1>1. cartOp' = [cartOp EXCEPT ![r] = o]
  BY DEF Cart!Become
<1>2. cartOp' \in [Devices -> Cart!Operation]
  BY <1>1 DEF CartInv
<1>3. \A q \in Devices : Fits(cartOp'[q], cart)
  BY <1>1 DEF CartInv
<1>4. \A q \in Devices : Fits(cartOp[q], cart)'
  BY <1>3
<1> QED
  BY <1>2, <1>4 DEF CartInv

\* A request that ends with a change of the cart.
LEMMA CartWritten ==
  ASSUME CartInv, NEW r \in Devices, NEW o \in Cart!Operation, Fits(o, cart'),
         Cart!Become(r, o), cart' \in Cart!Cart, Sized(cart'.items),
         cart'.exists,
         \/ cart.v < cart'.v
         \/ /\ cart.v = cart'.v
            /\ \A p \in Goods, c \in CartVariants :
                 Cart!Holds(cart', p, c) => Cart!Holds(cart, p, c)
  PROVE  CartInv'
<1>1. cartOp' = [cartOp EXCEPT ![r] = o]
  BY DEF Cart!Become
<1>2. cartOp' \in [Devices -> Cart!Operation]
  BY <1>1 DEF CartInv
<1>3. \A q \in Devices : Fits(cartOp[q], cart')
  BY FitsLater DEF CartInv
<1>4. \A q \in Devices : Fits(cartOp'[q], cart')
  BY <1>1, <1>3 DEF CartInv
<1>5. \A q \in Devices : Fits(cartOp[q], cart)'
  BY <1>4
<1> QED
  BY <1>2, <1>5 DEF CartInv

-----------------------------------------------------------------------------
\* Saving: what a handler has made of its copy d.
LEMMA SaveFits ==
  ASSUME NEW o \in Cart!Operation, NEW d \in Cart!Cart, NEW w \in Cart!Write, NEW e,
         e.exists, d.v <= e.v, WellWritten(w), o.kind = "add" => o.n >= 1 /\ o.p # None,
         w.how = "whole" /\ d.v = e.v => Covers([o EXCEPT !.at = "save", !.v = d.v, !.write = w], e)
  PROVE  Cart!Save(o, d, w) \in Cart!Operation /\ Fits(Cart!Save(o, d, w), e)
<1>1. CASE w.how = "none"
  BY <1>1, CartIdle DEF Cart!Save
<1>2. CASE w.how # "none"
  <2> DEFINE n == [o EXCEPT !.at = "save", !.v = d.v, !.write = w]
  <2>1. Cart!Save(o, d, w) = n
    BY <1>2 DEF Cart!Save
  <2>2. n \in Cart!Operation
    BY DEF Cart!Operation, Cart!Cart, Cart!Steps
  <2>3. n.at = "save" /\ n.v = d.v /\ n.write = w /\ n.kind = o.kind /\ n.n = o.n /\ n.p = o.p
    BY DEF Cart!Operation
  <2> HIDE DEF n
  <2>4. Fits(n, e)
    BY <1>2, <2>3 DEF Fits, n
  <2> QED
    BY <2>1, <2>2, <2>4
<1> QED
  BY <1>1, <1>2

LEMMA SetWrites ==
  ASSUME NEW d \in Cart!Cart, NEW i \in DOMAIN d.items, d.items[i].p # None,
         NEW n \in Nat, n >= 1
  PROVE  /\ Cart!SetQuantity(d, i, n) \in Cart!Write
         /\ WellWritten(Cart!SetQuantity(d, i, n))
         /\ Cart!SetQuantity(d, i, n).how \in {"none", "set"}
<1>1. CASE d.items[i].n = n
  BY <1>1, CartIdle DEF Cart!SetQuantity, Cart!NoWrite, WellWritten, Sized
<1>2. CASE d.items[i].n # n
  <2> DEFINE it == [d.items[i] EXCEPT !.n = n]
             w == [how |-> "set", i |-> i, items |-> <<it>>]
  <2>1. Cart!SetQuantity(d, i, n) = w
    BY <1>2 DEF Cart!SetQuantity
  <2>2. i \in Nat /\ i >= 1 /\ d.items[i] \in Cart!Item
    BY DEF Cart!Cart
  <2>3. it \in Cart!Item /\ it.p # None /\ it.n = n
    BY <2>2 DEF Cart!Item
  <2> HIDE DEF it
  <2>4. w \in Cart!Write
    BY <2>2, <2>3 DEF Cart!Write
  <2>5. WellWritten(w)
    BY <2>2, <2>3 DEF WellWritten, Sized
  <2> QED
    BY <2>1, <2>4, <2>5
<1> QED
  BY <1>1, <1>2

LEMMA AddFits ==
  ASSUME NEW o \in Cart!Operation, o.kind = "add", o.n >= 1, o.p # None,
         NEW d \in Cart!Cart, NEW e, e.exists, d.v <= e.v
  PROVE  Cart!Add(o, d) \in Cart!Operation /\ Fits(Cart!Add(o, d), e)
<1> DEFINE i == Cart!Find(d.items, o)
           it == [p |-> o.p, c |-> o.c, n |-> o.n]
           push == [how |-> "push", i |-> 0, items |-> <<it>>]
<1>1. it \in Cart!Item /\ it.p = o.p /\ it.n = o.n
  BY DEF Cart!Operation, Cart!Item
<1> HIDE DEF it
<1>2. push \in Cart!Write /\ push.how = "push"
  BY <1>1 DEF Cart!Write
<1>3. WellWritten(push)
  BY <1>1 DEF WellWritten, Sized
<1> HIDE DEF push
<1>4. CASE i # 0
  <2>1. d.items \in Seq(Cart!Item)
    BY DEF Cart!Cart
  <2>2. i \in DOMAIN d.items /\ d.items[i].p = o.p
    BY <1>4, <2>1, FindMeets DEF Cart!Is
  <2>3. d.items[i].n \in Nat /\ o.n \in Nat
    <3>1. d.items[i] \in Cart!Item
      BY <2>1, <2>2
    <3> QED
      BY <3>1 DEF Cart!Item, Cart!Operation
  <2> DEFINE w == Cart!SetQuantity(d, i, d.items[i].n + o.n)
  <2>4. w \in Cart!Write /\ WellWritten(w) /\ w.how \in {"none", "set"}
    BY <2>2, <2>3, SetWrites
  <2>5. Cart!Add(o, d) \in {Cart!Idle, Cart!Save(o, d, w)}
    BY <1>4 DEF Cart!Add
  <2> HIDE DEF w
  <2>6. Cart!Save(o, d, w) \in Cart!Operation /\ Fits(Cart!Save(o, d, w), e)
    BY <2>4, SaveFits
  <2> QED
    BY <2>5, <2>6, CartIdle
<1>5. CASE i = 0
  <2>1. Cart!Add(o, d) \in {Cart!Idle, Cart!Save(o, d, push)}
    BY <1>5 DEF Cart!Add, push, it
  <2>2. Cart!Save(o, d, push) \in Cart!Operation /\ Fits(Cart!Save(o, d, push), e)
    BY <1>2, <1>3, SaveFits
  <2> QED
    BY <2>1, <2>2, CartIdle
<1> QED
  BY <1>4, <1>5

\* A request to remove, whose array leaves out only what it removes.
LEMMA ReplaceFits ==
  ASSUME NEW o \in Cart!Operation, NEW d \in Cart!Cart, d.exists, Sized(d.items),
         NEW items \in Seq(Cart!Item),
         o.kind \in {"update", "remove", "clear"},
         \A j \in DOMAIN items : \E i \in DOMAIN d.items : items[j] = d.items[i],
         \A i \in DOMAIN d.items :
           \/ Ends(o, d.items[i].p, d.items[i].c)
           \/ \E j \in DOMAIN items : items[j] = d.items[i]
  PROVE  /\ Cart!Save(o, d, Cart!Replace(d, items)) \in Cart!Operation
         /\ Fits(Cart!Save(o, d, Cart!Replace(d, items)), d)
<1> DEFINE w == Cart!Replace(d, items)
<1>1. d.v \in Nat
  BY DEF Cart!Cart
<1>2. CASE items = d.items
  <2>1. w = Cart!NoWrite /\ w.how = "none"
    BY <1>2 DEF Cart!Replace, Cart!NoWrite
  <2> QED
    BY <2>1, CartIdle DEF Cart!Save
<1>3. CASE items # d.items
  <2>1. w = [how |-> "whole", i |-> 0, items |-> items]
    BY <1>3 DEF Cart!Replace
  <2>2. w \in Cart!Write /\ w.how = "whole" /\ w.items = items
    BY <2>1 DEF Cart!Write
  <2> HIDE DEF w
  <2>3. WellWritten(w)
    BY <2>2 DEF WellWritten, Sized
  <2> DEFINE n == [o EXCEPT !.at = "save", !.v = d.v, !.write = w]
  <2>4. n.kind = o.kind /\ n.p = o.p /\ n.c = o.c /\ n.write = w
    BY DEF Cart!Operation
  <2> HIDE DEF n
  <2>5. Covers(n, d)
    <3>1. ASSUME NEW p \in Goods, NEW c \in CartVariants, Cart!Holds(d, p, c), ~Ends(n, p, c)
          PROVE  Cart!Holds(n.write, p, c)
      <4>1. PICK i \in DOMAIN d.items : d.items[i].p = p /\ d.items[i].c = c
        BY <3>1 DEF Cart!Holds
      <4>2. ~Ends(o, d.items[i].p, d.items[i].c)
        BY <2>4, <3>1, <4>1 DEF Ends
      <4>3. PICK j \in DOMAIN items : items[j] = d.items[i]
        BY <4>2
      <4> QED
        BY <2>2, <2>4, <4>1, <4>3 DEF Cart!Holds
    <3> QED
      BY <2>4, <3>1 DEF Covers
  <2>6. Cart!Save(o, d, w) \in Cart!Operation /\ Fits(Cart!Save(o, d, w), d)
    <3>1. Covers([o EXCEPT !.at = "save", !.v = d.v, !.write = w], d)
      BY <2>5 DEF n
    <3>2. o.kind # "add" /\ d.v <= d.v
      BY <1>1
    <3> QED
      BY <2>2, <2>3, <3>1, <3>2, SaveFits
  <2> QED
    BY <2>6 DEF w
<1> QED
  BY <1>2, <1>3

-----------------------------------------------------------------------------
\* The handlers of the cart, one by one.

LEMMA CartTyped ==
  ASSUME CartInv, NEW r \in Devices
  PROVE  /\ cart \in Cart!Cart /\ cart.items \in Seq(Cart!Item) /\ cart.v \in Nat
         /\ Sized(cart.items)
         /\ cartOp[r] \in Cart!Operation /\ Fits(cartOp[r], cart)
         /\ Cart!Crash(r) \/ cartOp[r].write \in Cart!Write
  BY DEF CartInv, Cart!Cart, Cart!Operation

LEMMA FitsGetCart == ASSUME CartInv, NEW r \in Devices, Cart!GetCart(r) PROVE CartInv'
<1>1. PICK o : /\ o = [Cart!Idle EXCEPT !.kind = "get", !.at = "readCart"]
               /\ Cart!Become(r, o) /\ UNCHANGED cart
  BY DEF Cart!GetCart
<1>2. o \in Cart!Operation
  BY <1>1, CartIdle DEF Cart!Operation, Cart!Kinds, Cart!Steps
<1>3. o.kind = "get" /\ o.at = "readCart" /\ o.write = Cart!Idle.write
  BY <1>1, CartIdle DEF Cart!Operation
<1>4. Fits(o, cart)
  BY <1>3, CartIdle DEF Fits
<1> QED
  BY <1>1, <1>2, <1>4, CartSlot

LEMMA FitsAddToCart ==
  ASSUME CartInv, NEW r \in Devices, NEW p \in Goods, NEW c \in CartVariants,
         NEW n \in Cart!Quantities, NEW stock \in 0..MaxQuantity,
         Cart!AddToCart(r, p, c, n, stock)
  PROVE  CartInv'
<1>1. PICK o : /\ o = [Cart!Idle EXCEPT !.kind = "add", !.at = "readCart", !.p = p,
                                        !.c = c, !.n = n, !.stock = stock]
               /\ Cart!Become(r, o) /\ UNCHANGED cart
  BY DEF Cart!AddToCart
<1>2. n \in Nat /\ n >= 1 /\ stock \in Nat /\ p # None
  BY MarketAssumption DEF Cart!Quantities
<1>3. o \in Cart!Operation
  BY <1>1, <1>2, CartIdle DEF Cart!Operation, Cart!Kinds, Cart!Steps
<1>4. o.at = "readCart" /\ o.write = Cart!Idle.write /\ o.n = n /\ o.p = p
  BY <1>1, CartIdle DEF Cart!Operation
<1>5. Fits(o, cart)
  BY <1>2, <1>4, CartIdle DEF Fits
<1> QED
  BY <1>1, <1>3, <1>5, CartSlot

LEMMA FitsReadCart == ASSUME CartInv, NEW r \in Devices, Cart!ReadCart(r) PROVE CartInv'
<1> DEFINE o == cartOp[r]
           n == IF ~cart.exists THEN [o EXCEPT !.at = "createCart"]
                ELSE IF o.kind = "add" THEN Cart!Add(o, cart) ELSE Cart!Idle
<1>1. Cart!Become(r, n) /\ UNCHANGED cart
  BY DEF Cart!ReadCart
<1>2. o \in Cart!Operation /\ Fits(o, cart) /\ cart \in Cart!Cart /\ cart.v <= cart.v
  BY CartTyped
<1> HIDE DEF o
<1>3. n \in Cart!Operation /\ Fits(n, cart)
  <2>1. CASE ~cart.exists
    <3>1. n \in Cart!Operation
      BY <1>2, <2>1 DEF Cart!Operation, Cart!Steps
    <3>2. n.at = "createCart" /\ n.kind = o.kind /\ n.n = o.n /\ n.p = o.p /\ n.write = o.write
      BY <1>2, <2>1 DEF Cart!Operation
    <3> QED
      BY <1>2, <3>1, <3>2 DEF Fits
  <2>2. CASE cart.exists /\ o.kind = "add"
    <3>1. o.n >= 1 /\ o.p # None
      BY <1>2, <2>2 DEF Fits
    <3> QED
      BY <1>2, <2>2, <3>1, AddFits
  <2> QED
    BY <2>1, <2>2, CartIdle
<1> QED
  BY <1>1, <1>3, CartSlot

LEMMA FitsCreateCart ==
  ASSUME CartInv, NEW r \in Devices, Cart!CreateCart(r)
  PROVE  CartInv' /\ (cart' = cart \/ cart.items = <<>>)
<1> DEFINE o == cartOp[r]
           n == IF o.kind = "add" THEN Cart!Add(o, Cart!NoCart) ELSE Cart!Idle
<1>1. o \in Cart!Operation /\ Fits(o, cart)
  BY CartTyped
<1>2. CASE cart.exists /\ Cart!Become(r, Cart!Idle) /\ UNCHANGED cart
  BY <1>2, CartIdle, CartSlot
<1>3. CASE /\ ~cart.exists /\ cart' = [Cart!NoCart EXCEPT !.exists = TRUE]
           /\ Cart!Become(r, n)
  <2>1. cart = Cart!NoCart /\ Cart!NoCart \in Cart!Cart /\ Cart!NoCart.items = <<>>
    BY <1>3 DEF CartInv, Cart!NoCart
  <2>2. cart' \in Cart!Cart /\ cart'.exists /\ cart'.v = cart.v /\ cart'.items = <<>>
    BY <1>3, <2>1 DEF Cart!NoCart, Cart!Cart
  <2>3. Sized(cart'.items)
    BY <2>2 DEF Sized
  <2>4. \A p \in Goods, c \in CartVariants : ~Cart!Holds(cart', p, c)
    BY <2>2 DEF Cart!Holds
  <2>5. Cart!NoCart.v <= cart'.v
    BY <2>1, <2>2 DEF Cart!Cart
  <2>6. n \in Cart!Operation /\ Fits(n, cart')
    <3> HIDE DEF o
    <3>1. CASE o.kind = "add"
      <4>1. o.n >= 1 /\ o.p # None
        BY <1>1, <3>1 DEF Fits
      <4> QED
        BY <1>1, <2>1, <2>2, <2>5, <3>1, <4>1, AddFits
    <3> QED
      BY <3>1, CartIdle
  <2> HIDE DEF n
  <2> QED
    BY <1>3, <2>1, <2>2, <2>3, <2>4, <2>6, CartWritten
<1> QED
  BY <1>2, <1>3 DEF Cart!CreateCart

LEMMA FitsUpdateCartItem ==
  ASSUME CartInv, NEW r \in Devices, NEW p \in Goods, NEW c \in CartVariants,
         NEW n \in 0..MaxQuantity, Cart!UpdateCartItem(r, p, c, n)
  PROVE  CartInv'
<1> DEFINE o == [Cart!Idle EXCEPT !.kind = "update", !.p = p, !.c = c, !.n = n]
           i == Cart!Find(cart.items, o)
           w == Cart!SetQuantity(cart, i, n)
           asks == [o EXCEPT !.at = "readStock", !.v = cart.v, !.write = w]
           ends == Cart!Save(o, cart, Cart!Replace(cart, Cart!RemoveAt(cart.items, i)))
<1>1. /\ cart.exists /\ i # 0 /\ UNCHANGED cart
      /\ Cart!Become(r, IF n = 0 THEN ends ELSE asks)
  BY DEF Cart!UpdateCartItem, Cart!Removes
<1>2. n \in Nat /\ p # None
  BY MarketAssumption
<1>3. o \in Cart!Operation
  BY <1>2, CartIdle DEF Cart!Operation, Cart!Kinds
<1>4. o.kind = "update" /\ o.p = p /\ o.c = c /\ o.write = Cart!Idle.write
  BY CartIdle DEF Cart!Operation
<1> HIDE DEF o
<1>5. cart \in Cart!Cart /\ cart.items \in Seq(Cart!Item) /\ cart.v \in Nat /\ Sized(cart.items)
  BY CartTyped
<1>6. i \in DOMAIN cart.items /\ cart.items[i].p = p /\ cart.items[i].c = c
  BY <1>1, <1>4, <1>5, FindMeets DEF Cart!Is
<1> HIDE DEF i
<1>7. CASE n = 0
  <2> DEFINE items == Cart!RemoveAt(cart.items, i)
  <2>1. items \in Seq(Cart!Item)
    BY <1>5, <1>6, RemoveAtElements
  <2>2. \A j \in DOMAIN items : \E k \in DOMAIN cart.items : items[j] = cart.items[k]
    BY <1>5, <1>6, RemoveAtElements
  <2>3. \A k \in DOMAIN cart.items \ {i} : \E j \in DOMAIN items : items[j] = cart.items[k]
    BY <1>5, <1>6, RemoveAtElements
  <2> HIDE DEF items
  <2>4. Ends(o, cart.items[i].p, cart.items[i].c)
    BY <1>4, <1>6 DEF Ends
  <2>5. ends \in Cart!Operation /\ Fits(ends, cart)
    BY <1>1, <1>3, <1>4, <1>5, <2>1, <2>2, <2>3, <2>4, ReplaceFits DEF items
  <2> QED
    BY <1>1, <1>7, <2>5, CartSlot
<1>8. CASE n # 0
  <2>1. cart.items[i].p # None /\ n >= 1
    BY <1>2, <1>6, <1>8
  <2>2. w \in Cart!Write /\ WellWritten(w) /\ w.how \in {"none", "set"}
    BY <1>2, <1>5, <1>6, <2>1, SetWrites
  <2> HIDE DEF w
  <2>3. asks \in Cart!Operation
    BY <1>3, <1>5, <2>2 DEF Cart!Operation, Cart!Steps
  <2>4. asks.at = "readStock" /\ asks.v = cart.v /\ asks.write = w /\ asks.kind = "update"
    BY <1>3, <1>4 DEF Cart!Operation
  <2> HIDE DEF asks
  <2>5. Fits(asks, cart)
    BY <1>1, <1>5, <2>2, <2>4 DEF Fits
  <2> QED
    BY <1>1, <1>8, <2>3, <2>5, CartSlot
<1> QED
  BY <1>7, <1>8

LEMMA FitsReadStock == ASSUME CartInv, NEW r \in Devices, Cart!ReadStock(r) PROVE CartInv'
<1> DEFINE o == cartOp[r]
           n == [o EXCEPT !.at = "save"]
<1>1. /\ o.at = "readStock" /\ UNCHANGED cart
      /\ \/ Cart!Become(r, Cart!Idle)
         \/ o.write.how # "none" /\ Cart!Become(r, n)
  BY DEF Cart!ReadStock
<1>2. o \in Cart!Operation /\ Fits(o, cart)
  BY CartTyped
<1> HIDE DEF o
<1>3. n \in Cart!Operation
  BY <1>2 DEF Cart!Operation, Cart!Steps
<1>4. /\ n.at = "save" /\ n.kind = o.kind /\ n.n = o.n /\ n.p = o.p /\ n.v = o.v
      /\ n.write = o.write
  BY <1>2 DEF Cart!Operation
<1> HIDE DEF n
<1>5. o.write.how # "none" => Fits(n, cart)
  BY <1>1, <1>2, <1>4 DEF Fits
<1> QED
  BY <1>1, <1>3, <1>5, CartIdle, CartSlot

LEMMA FitsRemoveFromCart ==
  ASSUME CartInv, NEW r \in Devices, NEW p \in Goods, NEW c \in CartVariants,
         Cart!RemoveFromCart(r, p, c)
  PROVE  CartInv'
<1> DEFINE o == [Cart!Idle EXCEPT !.kind = "remove", !.p = p, !.c = c]
           others == {i \in DOMAIN cart.items : ~Cart!Is(cart.items[i], o)}
           items == Cart!Kept(cart.items, others)
           n == Cart!Save(o, cart, Cart!Replace(cart, items))
<1>1. cart.exists /\ UNCHANGED cart /\ Cart!Become(r, n)
  BY DEF Cart!RemoveFromCart
<1>2. o \in Cart!Operation
  BY CartIdle DEF Cart!Operation, Cart!Kinds
<1>3. o.kind = "remove" /\ o.p = p /\ o.c = c
  BY CartIdle DEF Cart!Operation
<1> HIDE DEF o
<1>4. cart \in Cart!Cart /\ cart.items \in Seq(Cart!Item) /\ Sized(cart.items)
  BY CartTyped
<1>5. /\ items \in Seq(Cart!Item)
      /\ \A j \in DOMAIN items : \E i \in others : items[j] = cart.items[i]
      /\ \A i \in others : \E j \in DOMAIN items : items[j] = cart.items[i]
  <2>1. others \in SUBSET (DOMAIN cart.items)
    OBVIOUS
  <2> HIDE DEF others
  <2> QED
    BY <1>4, <2>1, KeptElements
<1>6. \A i \in DOMAIN cart.items :
        i \in others \/ Ends(o, cart.items[i].p, cart.items[i].c)
  BY <1>3 DEF Cart!Is, Ends
<1>7. \A i \in others : i \in DOMAIN cart.items
  OBVIOUS
<1> HIDE DEF others, items
<1>8. n \in Cart!Operation /\ Fits(n, cart)
  BY <1>1, <1>2, <1>3, <1>4, <1>5, <1>6, <1>7, ReplaceFits
<1> QED
  BY <1>1, <1>8, CartSlot

LEMMA FitsClearCart == ASSUME CartInv, NEW r \in Devices, Cart!ClearCart(r) PROVE CartInv'
<1> DEFINE o == [Cart!Idle EXCEPT !.kind = "clear"]
           n == Cart!Save(o, cart, Cart!Replace(cart, <<>>))
<1>1. cart.exists /\ UNCHANGED cart /\ Cart!Become(r, n)
  BY DEF Cart!ClearCart
<1>2. o \in Cart!Operation
  BY CartIdle DEF Cart!Operation, Cart!Kinds
<1>3. o.kind = "clear"
  BY CartIdle DEF Cart!Operation
<1> HIDE DEF o
<1>4. cart \in Cart!Cart /\ Sized(cart.items)
  BY CartTyped
<1>5. \A p, c : Ends(o, p, c)
  BY <1>3 DEF Ends
<1>6. n \in Cart!Operation /\ Fits(n, cart)
  <2>1. <<>> \in Seq(Cart!Item) /\ DOMAIN <<>> = {}
    OBVIOUS
  <2> DEFINE items == <<>>
  <2> HIDE DEF items
  <2>2. n \in Cart!Operation /\ Fits(n, cart)
    BY <1>1, <1>2, <1>3, <1>4, <1>5, <2>1, ReplaceFits DEF items
  <2> QED
    BY <2>2
<1> QED
  BY <1>1, <1>6, CartSlot

LEMMA FitsCrash == ASSUME CartInv, NEW r \in Devices, Cart!Crash(r) PROVE CartInv'
  BY CartIdle, CartSlot DEF Cart!Crash

\* The in-place write of a quantity: nothing but elements without a product is added.
LEMMA InPlaceElements ==
  ASSUME NEW items \in Seq(Cart!Item), Sized(items), NEW i \in Nat, i >= 1,
         NEW item \in Cart!Item, item.n >= 1
  PROVE  /\ Cart!InPlace(items, i, item) \in Seq(Cart!Item)
         /\ Sized(Cart!InPlace(items, i, item))
         /\ \A j \in DOMAIN Cart!InPlace(items, i, item) :
              Cart!InPlace(items, i, item)[j].p # None =>
                /\ j \in DOMAIN items
                /\ Cart!InPlace(items, i, item)[j].p = items[j].p
                /\ Cart!InPlace(items, i, item)[j].c = items[j].c
         /\ \A j \in DOMAIN items :
              /\ j \in DOMAIN Cart!InPlace(items, i, item)
              /\ Cart!InPlace(items, i, item)[j].p = items[j].p
              /\ Cart!InPlace(items, i, item)[j].c = items[j].c
<1> DEFINE l == Len(items)
           m == IF i > l THEN i ELSE l
           e(j) == IF j = i THEN IF j > l THEN Cart!Hole(item.n)
                                 ELSE [items[j] EXCEPT !.n = item.n]
                   ELSE IF j > l THEN Cart!Hole(0) ELSE items[j]
           s == [j \in 1..m |-> e(j)]
<1>1. Cart!InPlace(items, i, item) = s
  BY DEF Cart!InPlace
<1>2. l \in Nat /\ DOMAIN items = 1..l /\ \A j \in 1..l : items[j] \in Cart!Item
  OBVIOUS
<1>3. item.n \in Nat
  BY DEF Cart!Item
<1>4. ASSUME NEW n \in Nat PROVE Cart!Hole(n) \in Cart!Item /\ Cart!Hole(n).p = None
  BY CartIdle DEF Cart!Hole, Cart!Item
<1> HIDE DEF l
<1>5. ASSUME NEW j \in 1..m, j > l PROVE e(j) \in Cart!Item /\ e(j).p = None
  BY <1>3, <1>4, <1>5
<1>6. ASSUME NEW j \in 1..l
      PROVE  /\ e(j) \in Cart!Item /\ e(j).p = items[j].p /\ e(j).c = items[j].c
             /\ e(j).p # None => e(j).n >= 1
  <2>1. items[j] \in Cart!Item /\ ~(j > l) /\ (items[j].p # None => items[j].n >= 1)
    BY <1>2 DEF Sized
  <2> QED
    BY <1>3, <2>1 DEF Cart!Item
<1>7. m \in Nat /\ 1..l \subseteq 1..m /\ \A j \in 1..m : j \in 1..l \/ j > l
  BY <1>2
<1> HIDE DEF e, m
<1>8. s \in Seq(Cart!Item) /\ DOMAIN s = 1..m
  BY <1>5, <1>6, <1>7
<1>9. Sized(s)
  BY <1>5, <1>6, <1>7 DEF Sized
<1> QED
  BY <1>1, <1>2, <1>5, <1>6, <1>7, <1>8, <1>9

\* What the cart holds after a write, and what a removing write takes from it.
LEMMA FitsSaveCart ==
  ASSUME CartInv, NEW r \in Devices, Cart!SaveCart(r)
  PROVE  /\ CartInv'
         /\ \A p \in Goods, c \in CartVariants :
              Cart!Holds(cart, p, c) /\ ~Cart!Holds(cart', p, c) =>
                Ends(cartOp[r], p, c) /\ cartOp'[r] # cartOp[r]
<1> DEFINE o == cartOp[r]
           w == o.write
<1>1. o \in Cart!Operation /\ Fits(o, cart) /\ o.at = "save" /\ Cart!Become(r, Cart!Idle)
  BY CartTyped DEF Cart!SaveCart
<1>2. /\ cart.v \in Nat /\ cart.items \in Seq(Cart!Item) /\ Sized(cart.items) /\ cart.exists
      /\ cart \in Cart!Cart
  BY <1>1, CartTyped DEF Fits
<1>3. w \in Cart!Write /\ WellWritten(w) /\ w.how \in {"push", "set", "whole"}
  BY <1>1 DEF Fits, Cart!Operation, Cart!Write
<1>4. w.items \in Seq(Cart!Item) /\ w.i \in Nat
  BY <1>3 DEF Cart!Write
<1>5. cartOp'[r] # cartOp[r]
  <2>1. cartOp'[r] = Cart!Idle
    BY DEF Cart!SaveCart, Cart!Become, CartInv
  <2> QED
    BY <1>1, <2>1, CartIdle
<1>6. Cart!Idle \in Cart!Operation /\ Fits(Cart!Idle, cart')
  BY CartIdle
<1>7. CASE ~Cart!Matches(o)
  <2>1. cart' = cart
    BY <1>7 DEF Cart!SaveCart
  <2> QED
    BY <1>1, <1>6, <2>1, CartSlot
<1>8. CASE Cart!Matches(o) /\ w.how = "push"
  <2>1. cart' = [cart EXCEPT !.v = @ + 1, !.items = @ \o w.items]
    BY <1>8 DEF Cart!SaveCart
  <2>2. Len(w.items) = 1 /\ Sized(w.items)
    BY <1>3, <1>8 DEF WellWritten
  <2> DEFINE l == Len(cart.items)
             all == cart.items \o w.items
  <2>3. all \in Seq(Cart!Item) /\ Len(all) = l + Len(w.items)
    BY <1>2, <1>4, ConcatProperties
  <2>4. \A i \in 1..(l + Len(w.items)) :
          all[i] = IF i <= l THEN cart.items[i] ELSE w.items[i - l]
    BY <1>2, <1>4, ConcatProperties
  <2>5. l \in Nat /\ DOMAIN cart.items = 1..l /\ 1 \in DOMAIN w.items
    BY <1>2, <1>4, <2>2
  <2> HIDE DEF l, all
  <2>6. DOMAIN all = 1..(l + 1)
    BY <2>2, <2>3, <2>5
  <2>7. \A i \in 1..l : i \in 1..(l + 1) /\ all[i] = cart.items[i]
    BY <2>2, <2>4, <2>5
  <2>8. all[l + 1] = w.items[1]
    <3>1. l + 1 \in 1..(l + 1) /\ ~(l + 1 <= l) /\ (l + 1) - l = 1
      BY <2>5
    <3> QED
      BY <2>2, <2>4, <3>1
  <2>9. /\ all \in Seq(Cart!Item) /\ Sized(all)
        /\ \A i \in DOMAIN cart.items : i \in DOMAIN all /\ all[i] = cart.items[i]
    <3>1. \A i \in 1..(l + 1) : i \in 1..l \/ i = l + 1
      BY <2>5
    <3>2. Sized(all)
      BY <1>2, <2>2, <2>5, <2>6, <2>7, <2>8, <3>1 DEF Sized
    <3> QED
      BY <2>3, <2>5, <2>6, <2>7, <3>2
  <2>10. cart' \in Cart!Cart /\ cart'.exists /\ cart'.v = cart.v + 1 /\ cart'.items = all
    <3>1. cart.v + 1 \in Nat
      BY <1>2
    <3>2. cart' = [cart EXCEPT !.v = cart.v + 1, !.items = all]
      BY <2>1 DEF all
    <3> QED
      BY <1>2, <2>9, <3>1, <3>2 DEF Cart!Cart
  <2>11. \A p \in Goods, c \in CartVariants : Cart!Holds(cart, p, c) => Cart!Holds(cart', p, c)
    BY <2>9, <2>10 DEF Cart!Holds
  <2>12. cart.v < cart'.v /\ Sized(cart'.items)
    BY <1>2, <2>9, <2>10
  <2> QED
    BY <1>1, <1>6, <2>10, <2>11, <2>12, CartWritten
<1>9. CASE Cart!Matches(o) /\ w.how = "set"
  <2> DEFINE s == Cart!InPlace(cart.items, w.i, w.items[1])
  <2>1. cart' = [cart EXCEPT !.items = s]
    <3>1. Head(w.items) = w.items[1]
      BY <1>4
    <3> QED
      BY <1>9, <3>1 DEF Cart!SaveCart
  <2>2. w.items[1] \in Cart!Item /\ w.items[1].n >= 1 /\ w.i >= 1
    <3>1. Len(w.items) = 1 /\ 1 \in DOMAIN w.items /\ w.items[1].p # None
      BY <1>3, <1>4, <1>9 DEF WellWritten
    <3> QED
      BY <1>3, <1>4, <1>9, <3>1 DEF WellWritten, Sized
  <2>3. /\ s \in Seq(Cart!Item) /\ Sized(s)
        /\ \A j \in DOMAIN s : s[j].p # None =>
             j \in DOMAIN cart.items /\ s[j].p = cart.items[j].p /\ s[j].c = cart.items[j].c
        /\ \A j \in DOMAIN cart.items :
             j \in DOMAIN s /\ s[j].p = cart.items[j].p /\ s[j].c = cart.items[j].c
    BY <1>2, <1>4, <2>2, InPlaceElements
  <2> HIDE DEF s
  <2>4. cart' \in Cart!Cart /\ cart'.exists /\ cart'.v = cart.v /\ cart'.items = s
    BY <1>2, <2>1, <2>3 DEF Cart!Cart
  <2>5. \A p \in Goods : p # None
    BY MarketAssumption
  <2>6. \A p \in Goods, c \in CartVariants : Cart!Holds(cart, p, c) <=> Cart!Holds(cart', p, c)
    BY <2>3, <2>4, <2>5 DEF Cart!Holds
  <2> QED
    BY <1>1, <1>6, <2>3, <2>4, <2>6, CartWritten
<1>10. CASE Cart!Matches(o) /\ w.how = "whole"
  <2>1. cart' = [cart EXCEPT !.v = @ + 1, !.items = w.items]
    BY <1>10 DEF Cart!SaveCart
  <2>2. /\ cart' \in Cart!Cart /\ cart'.exists /\ cart'.v = cart.v + 1
        /\ cart'.items = w.items
    <3>1. cart.v + 1 \in Nat
      BY <1>2
    <3>2. cart' = [cart EXCEPT !.v = cart.v + 1, !.items = w.items]
      BY <2>1
    <3> QED
      BY <1>2, <1>4, <3>1, <3>2 DEF Cart!Cart
  <2>3. cart.v < cart'.v /\ Sized(cart'.items)
    BY <1>2, <1>3, <2>2 DEF WellWritten
  <2>4. Covers(o, cart)
    BY <1>1, <1>10 DEF Cart!Matches, Fits
  <2>5. ASSUME NEW p \in Goods, NEW c \in CartVariants,
               Cart!Holds(cart, p, c), ~Cart!Holds(cart', p, c)
        PROVE  Ends(o, p, c)
    <3>1. ~Cart!Holds(w, p, c)
      BY <2>2, <2>5 DEF Cart!Holds
    <3> QED
      BY <2>4, <2>5, <3>1 DEF Covers
  <2> QED
    BY <1>1, <1>5, <1>6, <2>2, <2>3, <2>5, CartWritten
<1> QED
  BY <1>3, <1>7, <1>8, <1>9, <1>10

\* The items of a store leave the cart, and no others.
LEMMA FitsPull ==
  ASSUME CartInv, NEW s, Cart!PullOrdered(s)
  PROVE  /\ CartInv'
         /\ \A p \in Goods, c \in CartVariants :
              Cart!Holds(cart, p, c) /\ ~Cart!Holds(cart', p, c) => Home[p] = s
<1> DEFINE others == {i \in DOMAIN cart.items : ~Cart!OfStore(cart.items[i], s)}
           items == Cart!Kept(cart.items, others)
<1>1. cart' = [cart EXCEPT !.items = items] /\ UNCHANGED cartOp
  BY DEF Cart!PullOrdered
<1>2. cart \in Cart!Cart /\ cart.items \in Seq(Cart!Item) /\ Sized(cart.items)
  BY DEF CartInv, Cart!Cart
<1>3. \A i \in others : i \in DOMAIN cart.items /\ ~Cart!OfStore(cart.items[i], s)
  OBVIOUS
<1>4. \A i \in DOMAIN cart.items :
        i \in others \/ (cart.items[i].p # None /\ Home[cart.items[i].p] = s)
  BY DEF Cart!OfStore
<1>5. /\ items \in Seq(Cart!Item)
      /\ \A j \in DOMAIN items : \E i \in others : items[j] = cart.items[i]
      /\ \A i \in others : \E j \in DOMAIN items : items[j] = cart.items[i]
  <2>1. others \in SUBSET (DOMAIN cart.items)
    OBVIOUS
  <2> HIDE DEF others
  <2> QED
    BY <1>2, <2>1, KeptElements
<1> HIDE DEF others, items
<1>6. /\ cart' \in Cart!Cart /\ cart'.exists = cart.exists /\ cart'.v = cart.v
      /\ cart'.items = items
  BY <1>1, <1>2, <1>5 DEF Cart!Cart
<1>7. Sized(items)
  BY <1>2, <1>3, <1>5 DEF Sized
<1>8. \A p \in Goods, c \in CartVariants : Cart!Holds(cart', p, c) => Cart!Holds(cart, p, c)
  BY <1>3, <1>5, <1>6 DEF Cart!Holds
<1>9. \A q \in Devices : Fits(cartOp[q], cart')
  <2>1. \A q \in Devices : cartOp[q] \in Cart!Operation /\ Fits(cartOp[q], cart)
    BY DEF CartInv
  <2>2. cart.exists => cart'.exists
    BY <1>6
  <2>3. cart.v = cart'.v
    BY <1>6
  <2> QED
    BY <1>2, <1>6, <1>8, <2>1, <2>2, <2>3, FitsLater
<1>10. \A q \in Devices : Fits(cartOp[q], cart)'
  BY <1>1, <1>9
<1>11. ~cart'.exists => cart' = Cart!NoCart
  <2>1. ASSUME ~cart.exists PROVE items = cart.items
    <3>1. cart.items = <<>>
      BY <2>1 DEF CartInv, Cart!NoCart
    <3>2. DOMAIN items = {}
      BY <1>3, <1>5, <3>1
    <3> QED
      BY <1>5, <3>1, <3>2
  <2>2. ASSUME ~cart.exists PROVE cart' = cart
    BY <1>1, <1>2, <2>1, <2>2 DEF Cart!Cart
  <2> QED
    BY <1>6, <2>2 DEF CartInv
<1>12. ASSUME NEW p \in Goods, NEW c \in CartVariants,
              Cart!Holds(cart, p, c), ~Cart!Holds(cart', p, c)
       PROVE  Home[p] = s
  <2>1. PICK i \in DOMAIN cart.items : cart.items[i].p = p /\ cart.items[i].c = c
    BY <1>12 DEF Cart!Holds
  <2>2. i \notin others
    BY <1>5, <1>6, <1>12, <2>1 DEF Cart!Holds
  <2> QED
    BY <1>4, <2>1, <2>2
<1>13. CartInv'
  BY <1>1, <1>6, <1>7, <1>10, <1>11 DEF CartInv
<1> QED
  BY <1>12, <1>13

-----------------------------------------------------------------------------
\* The store and the cart together.

LEMMA CartStep ==
  ASSUME CartInv, Cart!Next
  PROVE  /\ CartInv'
         /\ \A p \in Goods, c \in CartVariants :
              Cart!Holds(cart, p, c) /\ ~Cart!Holds(cart', p, c) => Cart!RemovalEnds(p, c)
<1>1. PICK r \in Devices : Cart!Request(r) \/ Cart!Step(r) \/ Cart!Crash(r)
  BY DEF Cart!Next
<1>2. CASE Cart!SaveCart(r)
  <2>1. ASSUME NEW p \in Goods, NEW c \in CartVariants,
               Cart!Holds(cart, p, c), ~Cart!Holds(cart', p, c)
        PROVE  Cart!RemovalEnds(p, c)
    <3>1. Ends(cartOp[r], p, c) /\ cartOp'[r] # cartOp[r]
      BY <1>2, <2>1, FitsSaveCart
    <3> QED
      BY <3>1 DEF Ends, Cart!RemovalEnds
  <2> QED
    BY <1>2, <2>1, FitsSaveCart
<1>3. CASE Cart!CreateCart(r)
  <2>1. CartInv' /\ (cart' = cart \/ cart.items = <<>>)
    BY <1>3, FitsCreateCart
  <2> QED
    BY <2>1 DEF Cart!Holds
<1>4. CASE Cart!ReadCart(r) \/ Cart!ReadStock(r) \/ Cart!Crash(r)
  <2>1. UNCHANGED cart
    BY <1>4 DEF Cart!ReadCart, Cart!ReadStock, Cart!Crash
  <2> QED
    BY <1>4, <2>1, FitsReadCart, FitsReadStock, FitsCrash DEF Cart!Holds
<1>5. CASE Cart!Request(r)
  <2>1. UNCHANGED cart
    BY <1>5 DEF Cart!Request, Cart!GetCart, Cart!ClearCart, Cart!AddToCart,
                Cart!UpdateCartItem, Cart!RemoveFromCart
  <2>2. CartInv'
    BY <1>5, FitsGetCart, FitsClearCart, FitsAddToCart, FitsUpdateCartItem,
       FitsRemoveFromCart DEF Cart!Request
  <2> QED
    BY <2>1, <2>2 DEF Cart!Holds
<1> QED
  BY <1>1, <1>2, <1>3, <1>4, <1>5 DEF Cart!Step

LEMMA CartQuiet == CartInv /\ UNCHANGED cartVars => CartInv'
  BY DEF cartVars, CartInv

\* A step of the market changes the cart as a handler of the cart does, or takes the
\* items of one store out of it.
LEMMA MarketStep ==
  ASSUME CartInv, [MarketNext]_<<vars, cartVars>>
  PROVE  [Next]_vars /\ CartInv' /\ DropsOrdered
<1>1. CASE UNCHANGED <<vars, cartVars>>
  <2>1. UNCHANGED cart
    BY <1>1 DEF cartVars
  <2> QED
    BY <1>1, <2>1, CartQuiet DEF DropsOrdered, Cart!Holds
<1>2. CASE ShopStep
  <2>1. CASE \E id \in Mine : Born(id)
    <3>1. Cart!PullOrdered(Here)
      BY <1>2, <2>1 DEF ShopStep
    <3> QED
      BY <1>2, <2>1, <3>1, FitsPull DEF ShopStep, DropsOrdered
  <2>2. CASE UNCHANGED cartVars
    <3>1. UNCHANGED cart
      BY <2>2 DEF cartVars
    <3> QED
      BY <1>2, <2>2, <3>1, CartQuiet DEF ShopStep, DropsOrdered, Cart!Holds
  <2> QED
    BY <1>2, <2>1, <2>2 DEF ShopStep
<1>3. CASE Cart!Next /\ UNCHANGED vars
  BY <1>3, CartStep DEF DropsOrdered
<1>4. CASE OrderElsewhere
  <2>1. PICK s \in Stores \ {Here} : Cart!PullOrdered(s)
    BY <1>4 DEF OrderElsewhere
  <2>2. UNCHANGED cartOp /\ UNCHANGED vars
    BY <1>4, <2>1 DEF OrderElsewhere, Cart!PullOrdered
  <2> QED
    BY <2>1, <2>2, FitsPull DEF DropsOrdered
<1> QED
  BY <1>1, <1>2, <1>3, <1>4 DEF MarketNext

LEMMA CartInductive == MarketSpec => []CartInv
<1>1. MarketInit => CartInv
  BY CartInit DEF MarketInit
<1>2. CartInv /\ [MarketNext]_<<vars, cartVars>> => CartInv'
  BY MarketStep
<1> QED
  BY <1>1, <1>2, PTL DEF MarketSpec

\* The market shows the store of Orders: a cart takes part in no step of it
\* (order.service.ts:141 only writes the cart), so all that is proved of Orders holds.
THEOREM MarketOrders == MarketSpec => Spec
<1>1. MarketInit => Init
  BY DEF MarketInit
<1>2. CartInv /\ [MarketNext]_<<vars, cartVars>> => [Next]_vars
  BY MarketStep
<1> QED
  BY <1>1, <1>2, CartInductive, PTL DEF MarketSpec, Spec

\* Store, products, orders and requests keep their types: no stock ever falls below zero
\* (order.service.ts:86-105), whatever the number of orders, products and requests.
THEOREM OrdersTyped == Spec => []TypeOK
<1>1. SInv => TypeOK
  BY DEF SInv
<1> QED
  BY <1>1, SoundInductive, PTL

\* The same, and no item of the cart falls to no pieces (cart.service.ts:50-106), though an
\* in-place write may meet an array that has shrunk.
THEOREM MarketTyped == MarketSpec => []MarketTypeOK
<1>1. TypeOK /\ CartInv => MarketTypeOK
  BY DEF CartInv, MarketTypeOK, Cart!TypeOK, Sized
<1> QED
  BY <1>1, MarketOrders, OrdersTyped, CartInductive, PTL

\* An item leaves the cart only by a request that removes it, or with an order of its store
\* (cart.service.ts:71, 105, 119, 130, order.service.ts:141), however the requests of the
\* devices interleave: the array a request writes over the cart holds all of the cart but
\* what the request removes, or the versions differ.
THEOREM RemovalDrops == MarketSpec => OnlyRemovalDropsItems
<1>1. CartInv /\ [MarketNext]_<<vars, cartVars>> => [DropsOrdered]_<<vars, cartVars>>
  BY MarketStep
<1> QED
  BY <1>1, CartInductive, PTL DEF MarketSpec, OnlyRemovalDropsItems
=============================================================================
