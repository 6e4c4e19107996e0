SPECIFICATION Spec
CONSTANTS
  q1 = q1
  q2 = q2
  q3 = q3
  r1 = r1
  checkout = checkout
  reject = reject
  cart = cart
  other = other
  Requests = {q1, q2}
  NoRequest = NoRequest
  Keys = {checkout}
  Bodies = {cart, other}
  KeyOf <- MCKeyOf
  BodyOf <- MCBodyOf
  LateKeys = {}
INVARIANT FailedFreesItsKey
CHECK_DEADLOCK FALSE
