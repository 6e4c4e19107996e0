CONSTANTS
  Half = 536870912
  Burst = 1
  Window = 1
  BucketTTL = 4
  Keys = {"pricing.tax_bps", "pricing.service_charge_bps", "pricing.tax_inclusive"}
  Texts <- MCTexts
  Absent = Absent
  Fallbacks <- MCFallbacks
  IntOf <- MCIntOf
  BoolOf <- MCBoolOf
  TTL = 1
  Checkouts = {c1, c2}
  Address = Address
  Requests = {q1, q2}
  AdminRoles = {"admin"}
  Prices = {20}
  SysInputs <- MCInclusive
  StoreInputs <- MCStoreInputs
  FirstSys <- MCFallbacks
  Options <- MCOptions
  Selected = {"large"}
  Qty = 2
  Promo <- MCPromo
  Expected = {50}
  ReloadTime = 1
  MaxNow = 2
SPECIFICATION Spec
INVARIANT PricedIsStorable
SYMMETRY MCSymmetry
CHECK_DEADLOCK FALSE
