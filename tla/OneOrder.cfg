SPECIFICATION FairSpec
CONSTANTS
  u1 = u1
  u2 = u2
  o1 = o1
  o2 = o2
  Users = {u1}
  Orders = {o1}
  Authorities = {a1}
  Transfers = {t1}
  Sessions = {s1}
  Owner <- OneOwner
  Qty <- UnitEach
  Promo = {}
  InitialStock = 1
  MaxStock = 1
  MaxCarts = 2
  Handlers <- Everything
  NoOrder = NoOrder
  NoPayment = NoPayment
CHECK_DEADLOCK FALSE
INVARIANT
  MoneyBacks
PROPERTIES
  SuccessIsFinal
  ReservationsEnd
  CartsUnlocked
