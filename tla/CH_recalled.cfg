SPECIFICATION Spec
CONSTANTS
  a = a  b = b  w = w  phone = phone  tablet = tablet  k1 = k1  k2 = k2  k3 = k3
  r1 = r1  r2 = r2  s1 = s1
  Nobody = Nobody
  Blank = Blank
  Users = {a, b, w}
  Admins = {w}
  Participants = {a, b}
  Devices = {phone}
  Tokens = {k1, k2}
  Slots = {s1}
  Events <- Events1
  Scenes <- Scenes1
  Texts = {"hi", "ho"}
  Emojis = {"up", "down"}
  Procs = {r1, r2}
  MaxTokens = 2
SYMMETRY Interchangeable
INVARIANT RecalledIsHidden
