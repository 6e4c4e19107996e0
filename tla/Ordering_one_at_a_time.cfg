SPECIFICATION Spec
CONSTANTS
  s1 = s1
  s2 = s2
  o1 = o1
  o2 = o2
  o3 = o3
  alice = alice
  lunch = lunch
  store = store
  soto = soto
  ruuma10 = ruuma10
  Sessions = {s1}
  Orders = {o1, o2, o3}
  Customers = {alice}
  Slots = {lunch}
  Stores = {store}
  StockRows = {}
  Promos = {ruuma10}
  NoPromo = NoPromo
  NoOrder = NoOrder
  Codes = {1, 2}
  StoreOf <- MCStoreOf
  Cart <- MCCart
  Capacities <- MCServed
  StockTotals <- MCTotals
  Amounts = {"EXACT", "OVER"}
  MaxUnpaid = 1
  PromoCap <- MCCap
  PromoPerCustomer <- MCPerCustomer
  MaxEvents <- MCLongFirst
INVARIANTS
  HistoryFaithful
  PaidOnce
  PaymentMatchesOrder
  MismatchOnRecord
  CapacityConserved
  UnpaidWithinCap
  PromoConserved
  PromoCustomerCap
PROPERTY
  SlotsAreALedger
