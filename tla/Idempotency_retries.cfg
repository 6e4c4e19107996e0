SPECIFICATION FairSpec
CONSTANTS
  q1 = q1
  q2 = q2
  q3 = q3
  r1 = r1
  checkout = checkout
  reject = reject
  cart = cart
  other = other
  Requests = {q1, q2, q3, r1}
  NoRequest = NoRequest
  Keys = {checkout, reject}
  Bodies = {cart, other}
  KeyOf <- MCKeyOf
  BodyOf <- MCBodyOf
  LateKeys = {reject}
INVARIANTS
  OneRunner
  KeyIsKept
  AtMostOnce
PROPERTIES
  StoredIsFinal
  ImplementsOnceOnly
  KeysAreFreed
CHECK_DEADLOCK FALSE
