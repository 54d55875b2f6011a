SPECIFICATION Spec
CONSTANTS
  Calls = {c1, c2}
  OrderRegisters = "Order"
  MaxCrashes = 1
INVARIANTS
  TypeOK
  FieldsArrive
  AnswersTrue
SYMMETRY Symmetry
