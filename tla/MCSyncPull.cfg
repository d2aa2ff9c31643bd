SPECIFICATION Spec
CONSTANTS
  Record = {r1, r2, r3}
  PageSize = 1
  MaxChanges = 4
INVARIANTS
  TypeOK
  CatchesUp
PROPERTIES
  FollowsServer
  PullEnds
