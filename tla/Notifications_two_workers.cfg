SPECIFICATION FairSpec
CONSTANTS
  w1 = w1
  w2 = w2
  Messages = {1, 2}
  Ready = {2}
  Workers = {w1, w2}
  MaxAttempts = 3
  BatchLimit = 1
  MaxLosses = 1
INVARIANTS
  AttemptsBounded
  DeliveriesAccounted
PROPERTIES
  SettledIsFinal
  EverySettles
CHECK_DEADLOCK FALSE
