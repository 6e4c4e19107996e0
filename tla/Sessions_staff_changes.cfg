SPECIFICATION Spec
CONSTANTS
  q1 = q1
  q2 = q2
  boss = boss
  worker = worker
  customer = customer
  store = store
  Requests = {q1, q2}
  Staff = {boss, worker}
  Customers = {customer}
  Stores = {store}
  NoOne = NoOne
  FirstStaff <- MCFirstStaff
  FirstStores <- MCFirstStores
  StaffInputs <- MCStaffInputs
  StoreInputs <- MCStoreInputs
  RoutesAsked <- MCRoutes
  MaxTokens = 4
  MaxChanges = 2
  MaxLogouts = 1
CONSTRAINT MCBudget
SYMMETRY MCSymmetry
INVARIANTS
  RotationBounded
  LogoutEnds
  ActsWithinGrants
CHECK_DEADLOCK FALSE
