SPECIFICATION MCSpec
CONSTANTS
  Desks = {d1, d2}
  Payments = {}
  OrderOf <- NoPayments
  Accounts = {a1, a2}
  Opened = {a1, a2}
  Openings = {1}
  Amounts = {1}
  Orders = {o1}
  NoOrder = NoOrder
  NoAccount = NoAccount
  NewReferences <- MCReferences
  MaxTransactions = 2
  LedgerHandlers = {"create", "approve", "reject", "update", "remove", "openAccount", "changeAccount", "removeAccount"}
  Products = {p1}
  Warehouses = {w1, w2}
  Built = {w1, w2}
  InitialStock <- AtW1
  Quantities = {1}
  NoWarehouse = NoWarehouse
  NoProduct = NoProduct
  MaxMovements = 2
  InventoryHandlers = {"create", "adjust", "approve", "reject", "update", "openWarehouse", "changeWarehouse", "removeWarehouse"}
  Items <- Nothing
  Total <- Zero
  Charges <- Nothing
  Connections = 1
  MaxPaid <- NoPayments
  Restocks = {}
  MaxRestocked = 0
  MaxRequests = 4
  d1 = d1
  d2 = d2
  a1 = a1
  a2 = a2
  w1 = w1
  w2 = w2
  p1 = p1
  o1 = o1
SYMMETRY Alike
INVARIANTS
  TypeOK
  BalanceNonNegative
  StockNotOverdrawn
  RegularBooks
  RegularStock
  RegularDefaults
PROPERTY ApprovedIsFinal
CHECK_DEADLOCK FALSE
