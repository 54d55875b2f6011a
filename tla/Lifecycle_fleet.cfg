SPECIFICATION FairSpec
CONSTANTS
  o1 = o1
  o2 = o2
  r = r
  g = g
  Processes = {p1, p2}
  Addresses = {o1, o2, r, g}
  ServiceOf <- MCServiceOf
  MaxEdits = 2
  CarefulEdits = TRUE
  Nobody = Nobody
  ReapAfter = 2
  MaxTimeouts = 2
INVARIANTS
  TypeOK
  ListedAnswers
  OnlyClientsMissing
PROPERTIES
  RestartKeepsEntry
  DeadAreForgotten
