SPECIFICATION Spec
CONSTANTS
  u1 = u1
  u2 = u2
  o1 = o1
  o2 = o2
  Users = {u1}
  Orders = {o1}
  Authorities = {a1}
  Transfers = {}
  Sessions = {s1}
  Owner <- OneOwner
  Qty <- UnitEach
  Promo = {}
  InitialStock = 1
  MaxStock = 1
  MaxCarts = 2
  Handlers <- Online
  NoOrder = NoOrder
  NoPayment = NoPayment
SYMMETRY Interchangeable
CHECK_DEADLOCK FALSE
PROPERTIES
  AlreadyVerifiedRecorded
