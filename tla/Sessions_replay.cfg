SPECIFICATION Spec
CONSTANTS
  q1 = q1
  q2 = q2
  boss = boss
  worker = worker
  customer = customer
  store = store
  Requests = {q1, q2}
  Staff = {boss, worker}
  Customers = {customer}
  Stores = {store}
  NoOne = NoOne
  FirstStaff <- MCFirstStaff
  FirstStores <- MCFirstStores
  StaffInputs <- MCStaffInputs
  StoreInputs <- MCStoreInputs
  RoutesAsked <- MCRoutes
  MaxTokens = 2
  MaxChanges = 0
  MaxLogouts = 1
PROPERTY ReplayKillsChain
CHECK_DEADLOCK FALSE
