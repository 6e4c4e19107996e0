SPECIFICATION Spec
CONSTANTS
  q1 = q1
  q2 = q2
  c1 = c1
  c2 = c2
  mail = mail
  phone = phone
  google = google
  other = other
  Requests = {q1, q2}
  Customers = {c1, c2}
  Emails = {mail}
  Phones = {phone}
  Profiles = {google, other}
  EmailOf <- MCEmailOf
  Vouched = {google}
  NoOne = NoOne
  NoEmail = NoEmail
  NoPhone = NoPhone
  NoProfile = NoProfile
  MaxCodes = 1
  MaxLinks = 1
  MaxAttempts = 1
  LockAfter = 2
  MaxLosses = 1
SYMMETRY MCSymmetry
INVARIANTS
  GuessesBounded
  TriesBounded
  UsesBounded
  VerifiedIsProven
  LinkedOnVerified
CHECK_DEADLOCK FALSE
