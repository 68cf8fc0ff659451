SPECIFICATION FairSpec
CONSTANTS
  Timers = {t1, t2, t3}
  NoTimer = NoTimer
  Times = {0, 1, 2, 4}
  HOUR = 2
  MaxLate = 1
INVARIANTS
  TypeOK
  FoundWhereSought
  UsedMeansHeld
PROPERTIES
  RingsInOrder
  NoneForgotten
