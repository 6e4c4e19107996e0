CONSTANTS
  DayLength = 4
  WeekLength = 1
  Requests = {q1, q2}
  Checkouts = {c1, c2}
  Generators = {g1, g2}
  Dates = {0, 1}
  FirstHours <- MCFirstHours
  HoursInputs <- MCHoursInputs
  OverrideInputs <- MCOverrideInputs
  ModeInputs = {{"pickup"}, {"delivery"}}
  AskedModes = {"pickup"}
  LengthInputs = {}
  ZoneInputs = {1}
  Params <- MCParams
  MaxOrders = 1
  MaxNow = 1
SPECIFICATION Spec
INVARIANT OneRowPerWindow
SYMMETRY MCSymmetry
CHECK_DEADLOCK FALSE
