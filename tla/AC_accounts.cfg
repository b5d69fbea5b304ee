SPECIFICATION Spec
CONSTANTS
  d1 = d1  p1 = p1  p2 = p2  e1 = e1  e2 = e2  E1 = E1  f1 = f1  g1 = g1
  r1 = r1  r2 = r2  o1 = o1  o2 = o2
  Devices = {d1}
  Unnamed = Unnamed
  Passwords = {p1, p2}
  NoPassword = NoPassword
  Requests = {r1, r2}
  MaxSessions = 2
  MaxFailed = 2
  Scenes <- Scenes1
  Emails = {e1, e2, E1}
  Lower <- Lower1
  Phones = {f1}
  None = None
  Googles = {g1}
  GoogleEmail <- GoogleEmail1
  Ops = {o1, o2}
  MaxAttempts = 3
SYMMETRY Interchangeable
INVARIANTS TypeOK SessionLimit EndedStaysEnded FreshTokenWorks MailedResetWorks
INVARIANTS MailedLinkWorks OneLinkPerAddress ImageIsStored
