--------------------------------- MODULE Market ---------------------------------
(***************************************************************************)
(* MarketplaceSystem: the store of Orders and the cart of one of its       *)
(* buyers, who has it open on several devices.  The transaction that       *)
(* places an order of the buyer also takes the store's items out of the    *)
(* cart.                                                                   *)
(***************************************************************************)
EXTENDS Orders

CONSTANTS
  Here, Stores,              \* the store of Orders, and all stores
  Goods, Home, CartVariants, \* what the cart may hold, with its store and variants
  Devices,                   \* cart requests that may be in flight together
  Mine,                      \* the orders of the buyer
  MaxQuantity, MaxVersion, MaxItems   \* the bounds of Carts

ASSUME MarketAssumption ==
  /\ Here \in Stores /\ Home \in [Goods -> Stores]
  /\ Products \subseteq Goods /\ \A p \in Products : Home[p] = Here
  /\ Mine \subseteq OrderIds /\ None \notin Goods
  /\ CartVariants # {}
  /\ MaxQuantity \in Nat /\ MaxVersion \in Nat /\ MaxItems \in Nat

VARIABLES cart, cartOp

Cart == INSTANCE Carts WITH
  Products <- Goods, Variants <- CartVariants, Procs <- Devices, op <- cartOp

cartVars == <<cart, cartOp>>

MarketInit == Init /\ Cart!Init

Born(id) == orders[id].st = "unborn" /\ orders'[id].st # "unborn"

\* A step of the store; an order of the buyer empties the cart of its items.
ShopStep ==
  /\ Next
  /\ IF \E id \in Mine : Born(id) THEN Cart!PullOrdered(Here) ELSE UNCHANGED cartVars

\* The buyer orders from a store not modelled.
OrderElsewhere ==
  /\ \E s \in Stores \ {Here} : Cart!PullOrdered(s)
  /\ UNCHANGED vars

MarketNext ==
  \/ ShopStep
  \/ Cart!Next /\ UNCHANGED vars
  \/ OrderElsewhere

MarketSpec == MarketInit /\ [][MarketNext]_<<vars, cartVars>>

-----------------------------------------------------------------------------
\* The store, its orders and the cart keep their types: no stock falls below zero, and
\* no item of the cart to no pieces.
MarketTypeOK == TypeOK /\ Cart!TypeOK

\* An item leaves the cart only by a request that removes it, by clearing, or in the
\* step that places an order of the buyer with its store: no save of an older copy
\* drops what another device has added (cart.service.ts:71, 105, 119, 130).
DropsOrdered ==
  \A p \in Goods, v \in CartVariants :
    Cart!Holds(cart, p, v) /\ ~Cart!Holds(cart', p, v) =>
      \/ Cart!RemovalEnds(p, v)
      \/ Home[p] = Here /\ \E id \in Mine : Born(id)
      \/ Home[p] # Here /\ UNCHANGED cartOp

OnlyRemovalDropsItems == [][DropsOrdered]_<<vars, cartVars>>
=============================================================================
