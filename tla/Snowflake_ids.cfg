SPECIFICATION Spec
CONSTANTS
  p1 = p1
  p2 = p2
  p3 = p3
  p4 = p4
  p5 = p5
  Procs = {p1, p2, p3, p4, p5}
  Machine <- MCMachine
  StartTime <- MCStartTime
  Calls = {c1, c2, c3}
  None = None
  MaxNode = 1
  MaxStep = 1
  MaxTime = 2
  MachinesApart = TRUE
INVARIANTS
  TypeOK
  IdsUnique
PROPERTIES
  IdsIncrease
