CONSTANTS
  o1 = o1
  o2 = o2
  l1 = l1
  l2 = l2
  u1 = u1
  u2 = u2
  t1 = t1
  t2 = t2
  t3 = t3
  n1 = n1
  n2 = n2
  n3 = n3
  n4 = n4
  None = None
  Null = Null
  Ops = {o1, o2}
  Lounges = {l1, l2}
  Users = {u1, u2}
  Titles = {t1, t2, t3}
  Names = {n1, n2, n3, n4}
  Form <- FormOf
  Mentions <- MentionsOf
  Squeezed <- SqueezedOf
  Folded <- FoldedOf
  Base <- BaseOf
  Scenes <- MCScenes
SPECIFICATION Spec
SYMMETRY Symmetric
INVARIANTS TypeOK ImplementedIsReal FreeCostsNothing
PROPERTY UsedCategoryStays
