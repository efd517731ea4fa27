SPECIFICATION Spec
CONSTANTS
  u1 = u1
  u2 = u2
  o1 = o1
  o2 = o2
  Users = {u1, u2}
  Orders = {o1, o2}
  Authorities = {a1, a2, a3}
  Transfers = {}
  Sessions = {s1}
  Owner <- TwoOwners
  Qty <- TwoOfSecond
  Promo = {o1}
  InitialStock = 3
  MaxStock = 3
  MaxCarts = 2
  Handlers <- OnlineAndCancel
  NoOrder = NoOrder
  NoPayment = NoPayment
SYMMETRY Interchangeable
CHECK_DEADLOCK FALSE
INVARIANTS
  NoOversell
  SettledOnce
PROPERTIES
  ClosedForGood
