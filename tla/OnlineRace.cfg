SPECIFICATION Spec
CONSTANTS
  u1 = u1
  u2 = u2
  o1 = o1
  o2 = o2
  Users = {u1}
  Orders = {o1}
  Authorities = {a1, a2}
  Transfers = {}
  Sessions = {s1, s2}
  Owner <- OneOwner
  Qty <- UnitEach
  Promo = {o1}
  InitialStock = 1
  MaxStock = 2
  MaxCarts = 2
  Handlers <- OnlineAndCancel
  NoOrder = NoOrder
  NoPayment = NoPayment
SYMMETRY Interchangeable
CHECK_DEADLOCK FALSE
INVARIANTS
  TypeOK
  InvoicesBacked
  PromotionUseBacked
  PaidHasInvoice
  FulfilmentPaid
