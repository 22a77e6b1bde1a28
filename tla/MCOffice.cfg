CONSTANTS
  Callers = {p1, p2}
  Clerk = {p}
  Two = {x1, x2}
  x3 = x3
  None = none
SPECIFICATION Spec
SYMMETRY Symmetry
CHECK_DEADLOCK FALSE
INVARIANTS TypesOK RulesApply DestinationsHold FilesHold BoardIsOrdered CustomersAreSent ViewsTellTheTruth
PROPERTY EditsTakeEffect
