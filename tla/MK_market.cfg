SPECIFICATION MCSpec
CONSTANTS
  s1 = s1  s2 = s2  x = x  y = y  z = z  o1 = o1  o2 = o2  r1 = r1  r2 = r2
  d1 = d1  d2 = d2  v1 = v1  Base = Base
  None = None
  Total = Total
  Products = {x}
  Variants = {v1}
  OrderIds = {o1, o2}
  Procs = {r1, r2}
  OnSale = 2
  MaxCount = 3
  MaxEdits = 2
  Baskets <- Baskets1
  Edits <- Edits1
  Enabled = {"order", "edit", "delete", "adminProduct", "closeStore", "adminStore"}
  Here = s1
  Stores = {s1, s2}
  Goods = {x, y, z}
  Home <- HomeOf
  CartVariants = {Base}
  Devices = {d1, d2}
  Mine = {o1, o2}
  MaxQuantity = 2
  MaxVersion = 2
  MaxItems = 2
SYMMETRY Interchangeable
INVARIANTS MarketTypeOK NoStockLost NoStageSkipped PaidOrdersAreCounted
PROPERTIES ImplementsCheckout OnlyRemovalDropsItems
