SPECIFICATION Spec
CONSTANTS
  u1 = u1  u2 = u2  c1 = c1  c2 = c2  k1 = k1  k2 = k2  h1 = h1
  r1 = r1  r2 = r2  r3 = r3  r4 = r4  r5 = r5
  None = None
  Users = {u1, u2}
  Admins = {u2}
  Contents = {c1}
  Comments = {k1, k2}
  Tags = {h1}
  Requests = {r1, r2, r3, r4, r5}
  Scenes <- ThreeScenes
SYMMETRY Interchangeable
INVARIANT TypeOK MarksAccounted TagsAccounted CommentsAccounted
