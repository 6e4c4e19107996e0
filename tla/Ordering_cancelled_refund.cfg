SPECIFICATION Spec
CONSTANTS
  s1 = s1
  s2 = s2
  o1 = o1
  o2 = o2
  o3 = o3
  alice = alice
  lunch = lunch
  store = store
  soto = soto
  ruuma10 = ruuma10
  Sessions = {s1}
  Orders = {o1}
  Customers = {alice}
  Slots = {lunch}
  Stores = {store}
  StockRows = {soto}
  Promos = {ruuma10}
  NoPromo = NoPromo
  NoOrder = NoOrder
  Codes = {1, 2}
  StoreOf <- MCStoreOf
  Cart <- MCCart
  Capacities <- MCCapacities
  StockTotals <- MCTotals
  Amounts = {"EXACT"}
  MaxUnpaid = 0
  PromoCap <- MCCap
  PromoPerCustomer <- MCNoLimit
  MaxEvents <- MC7
INVARIANT VerifiedIsRefundable
