SPECIFICATION Spec
CONSTANTS
  Items <- MCItems
  Weights = {1, 2}
  Prices <- MCPrices
  Deletable = {1}
  BadCode = {3}
  Requests = {r1, r2}
  BadRoom = {r2}
  IntHalf = 8
  MaxEdits = 2
INVARIANTS
  TypeOK
  PageMatchesList
  CurrentOnPage
