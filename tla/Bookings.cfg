SPECIFICATION FairSpec
CONSTANTS
  Desks = {d1, d2}
  Payments = {pay1, pay2}
  OrderOf <- OnePayment
  Accounts = {a1}
  Opened = {a1}
  Openings = {0}
  Amounts = {}
  Orders = {o1, o2}
  NoOrder = NoOrder
  NoAccount = NoAccount
  NewReferences = {}
  MaxTransactions = 6
  LedgerHandlers = {}
  Products = {p1, p2}
  Warehouses = {w1}
  Built = {w1}
  InitialStock <- OneEach
  Quantities = {1}
  NoWarehouse = NoWarehouse
  NoProduct = NoProduct
  MaxMovements = 6
  InventoryHandlers = {"removeWarehouse"}
  Items <- TwoItems
  Total <- Totals
  Charges <- OneCharge
  Connections = 3
  MaxPaid <- TwiceAndOnce
  Restocks <- Restocked
  MaxRestocked = 1
  d1 = d1
  d2 = d2
  a1 = a1
  w1 = w1
  p1 = p1
  p2 = p2
  o1 = o1
  o2 = o2
  pay1 = pay1
  pay2 = pay2
INVARIANTS
  BookedOnce
  GoodsAfterMoney
  IncomeIsTotal
PROPERTY BookingsEnd
CHECK_DEADLOCK FALSE
