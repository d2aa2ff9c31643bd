SPECIFICATION Spec
CONSTANTS
  Text = {hi, bye}
  MaxSent = 4
  IntLimit = 6
INVARIANTS
  TypeOK
  FreshMessageOpens
  CountersAreInts
PROPERTY DeliversInOrder
