SPECIFICATION Spec
CONSTANTS
  x = x  v1 = v1  o1 = o1   r1 = r1  r2 = r2
  None = None
  Total = Total
  Products = {x}
  Variants = {v1}
  OrderIds = {o1}
  Procs = {r1, r2}
  OnSale = 1
  MaxCount = 2
  MaxEdits = 0
  Baskets <- Baskets1
  Edits = {}
  Enabled = {"order", "status"}
PROPERTY CancelledIsFinal
