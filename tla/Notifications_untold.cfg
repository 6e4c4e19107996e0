SPECIFICATION Spec
CONSTANTS
  w1 = w1
  w2 = w2
  Messages = {1, 2}
  Ready = {}
  Workers = {w1}
  MaxAttempts = 2
  BatchLimit = 2
  MaxLosses = 0
INVARIANT FailureIsAudited
CHECK_DEADLOCK FALSE
