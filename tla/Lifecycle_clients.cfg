SPECIFICATION Spec
CONSTANTS
  o1 = o1
  o2 = o2
  r = r
  g = g
  Processes = {p1, p2}
  Addresses = {o1, o2, r, g}
  ServiceOf <- MCServiceOf
  MaxEdits = 0
  CarefulEdits = TRUE
  Nobody = Nobody
  ReapAfter = 2
  MaxTimeouts = 0
INVARIANT ReadyWhenWorking
