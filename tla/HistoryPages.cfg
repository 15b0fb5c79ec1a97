SPECIFICATION Spec
CONSTANTS
  Series = {1, 2}
  Limits = {0, 1}
  maxSizePerResponse = 2
  maxQueuePoints = 2
  MaxTime = 4
  RequestTimes = {1, 4}
INVARIANTS
  NothingMissed
  RepeatsAreNewPoints
  ForwardReadIsExact
