SPECIFICATION Spec
CONSTANTS
  u1 = u1  u2 = u2  r1 = r1  r2 = r2  p1 = p1
  Store = Store
  Nothing = Nothing
  Users = {u1, u2}
  Products = {p1}
  Scores = {1, 4}
  Procs = {r1, r2}
  Scenes <- ScenesOf
SYMMETRY Interchangeable
INVARIANT TypeOK Repaired WishesCounted
