\* Two events delivered up to twice each, or two clicks, to two isolates that remember one event each.
SPECIFICATION Spec
CONSTANTS
  Events = {mention, message}
  Isolates = {i1, i2}
  Users <- MCUsers
  Approvers <- MCApprovers
  Hosts = {"delivers", "refuses", "streams"}
  Cap = 1
  Attempts = 2
  Arrivals <- MCArrivals
  MaxClicks = 2
  MaxFailures = 1
  MaxRecycles = 1
SYMMETRY MCSymmetry
INVARIANTS HandledOnce NeverDropped RefusalKeepsButtons
