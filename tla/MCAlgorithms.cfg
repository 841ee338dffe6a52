SPECIFICATION AlgorithmSpec
CONSTANTS
  Width = 8
  NumLines = 4
  Pcs = {0, 4}
  MaxAccesses = 5
INVARIANTS
  ArithmeticExact
  RegistersExact
PROPERTIES
  PrefetchesProgressions
CHECK_DEADLOCK FALSE
