SPECIFICATION Spec
CONSTANTS
  m1 = m1
  m2 = m2
  w1 = w1
  w2 = w2
  Message = {m1, m2}
  Word = {w1, w2}
  Text <- MCText
  Tables = 3
  MaxPrekeys = 3
  MaxEpoch = 2
  MaxKeys = 2
INVARIANTS
  TypeOK
  SchemaWhole
  PrekeysKept
  IndexedIsFound
PROPERTY NewEpochIsNew
