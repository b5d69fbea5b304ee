SPECIFICATION Spec
CONSTANTS
  a1 = a1  a2 = a2  b1 = b1  b2 = b2  b3 = b3  p1 = p1  p2 = p2
  None = None
  Agents = {a1}
  Bookings = {b1}
  Procs = {p1, p2}
  MaxDay = 0
  MaxPosition = 0
  CreateStatuses = {}
  UpdateStatuses = {}
  Scenes <- NoShows
INVARIANT AbsentTogether
