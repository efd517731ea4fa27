SPECIFICATION Spec
CONSTANTS
  u1 = u1
  u2 = u2
  o1 = o1
  o2 = o2
  Users = {u1}
  Orders = {o1}
  Authorities = {}
  Transfers = {t1, t2}
  Sessions = {s1, s2}
  Owner <- OneOwner
  Qty <- UnitEach
  Promo = {}
  InitialStock = 2
  MaxStock = 2
  MaxCarts = 2
  Handlers <- CardToCard
  NoOrder = NoOrder
  NoPayment = NoPayment
SYMMETRY Interchangeable
CHECK_DEADLOCK FALSE
INVARIANTS
  StockNonNegative
  PaidHasInvoice
