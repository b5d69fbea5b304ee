-------------------------------- MODULE Checkout --------------------------------
(***************************************************************************)
(* What ordering from a store promises.  An order is placed in one step,   *)
(* at a moment when the store is open, all it asks for is on sale, and the *)
(* stock covers it.  From then on it takes the same pieces for ever, and   *)
(* every status it gets follows one it has had.                            *)
(***************************************************************************)
EXTENDS Integers

CONSTANTS
  Products, Counters,   \* what is sold, and its counters of stock
  OrderIds,             \* orders that may be placed
  Takings               \* what an order may take: pieces of some counters

VARIABLES
  open,      \* the store accepts orders
  onSale,    \* the products that may be ordered
  stock,     \* pieces of every counter
  takes,     \* what every order takes
  status,    \* the status of every order
  been       \* history: the statuses every order has had

vars == <<open, onSale, stock, takes, status, been>>

\* The life of an order.
After(st) ==
  CASE st = "pending"    -> {"confirmed", "cancelled"}
    [] st = "confirmed"  -> {"processing", "cancelled"}
    [] st = "processing" -> {"shipped", "cancelled"}
    [] st = "shipped"    -> {"delivered"}
    [] st = "delivered"  -> {"disputed"}
    [] st = "disputed"   -> {"refunded", "delivered"}
    [] OTHER             -> {}

Init ==
  /\ open = TRUE /\ onSale = Products
  /\ \A id \in OrderIds : DOMAIN takes[id] = {}
  /\ status = [id \in OrderIds |-> "unborn"]
  /\ been = [id \in OrderIds |-> {}]

\* Everything an order takes is there, and taken at once.
Place(id, t) ==
  /\ been[id] = {}
  /\ open
  /\ \A pc \in DOMAIN t : pc[1] \in onSale /\ t[pc] <= stock[pc]
  /\ stock' = [pc \in Products \X Counters |->
                 IF pc \in DOMAIN t THEN stock[pc] - t[pc] ELSE stock[pc]]
  /\ takes' = [takes EXCEPT ![id] = t]
  /\ status' = [status EXCEPT ![id] = "pending"]
  /\ been' = [been EXCEPT ![id] = {"pending"}]
  /\ UNCHANGED <<open, onSale>>

\* A status that follows one of those the order has had, not always the last one.
Advance(id, to) ==
  /\ status' = [status EXCEPT ![id] = to]
  /\ been' = [been EXCEPT ![id] = @ \cup {to}]
  /\ UNCHANGED <<open, onSale, stock, takes>>

\* The store, its products and their stock change: no order does.
Manage ==
  /\ open' \in BOOLEAN /\ onSale' \subseteq Products
  /\ UNCHANGED <<takes, status, been>>

Next ==
  \/ \E id \in OrderIds : \/ \E t \in Takings : Place(id, t)
                          \/ \E st \in been[id] : \E to \in After(st) : Advance(id, to)
  \/ Manage

Spec == Init /\ [][Next]_vars
=============================================================================
