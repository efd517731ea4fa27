-------------------------- MODULE OrderAccounting --------------------------
(***************************************************************************)
(* The listeners that carry the shop's events into the books and the       *)
(* warehouses: order.paid, emitted by the successful-payment handler for a *)
(* gateway callback, product.created and product.stock.updated, emitted by *)
(* the product service (src/src/modules/accounting/listeners and           *)
(* services/order-accounting.service.ts).  A listener calls the services   *)
(* of Ledger and Inventory one after the other; the database transaction   *)
(* that processOrderPayment opens around them holds a connection but       *)
(* contains none of their statements, which run on connections of their    *)
(* own.  An error ends the listener and is only logged: what was written   *)
(* before it stays.                                                        *)
(***************************************************************************)
EXTENDS Ledger, Inventory

CONSTANTS
  OrderOf,      \* the order each payment is for
  Items,        \* the products and quantities of each order, as a sequence
  Total,        \* the total of each order
  Charges,      \* its shipping and gift wrapping costs that are not 0, as a sequence
  Connections,  \* connections in the pool of the database driver
  MaxPaid,      \* bound: how often order.paid is emitted for each payment
  Restocks,     \* the events of the product service: type of the movement,
                \* product, quantity, and whether the product is being created
  MaxRestocked  \* bound: events of the product service

\* What an order costs besides its items.
Costs == { "SHIPPING_FEE", "GIFT_WRAPPING_FEE" }

ASSUME OrderAccountingAssumption ==
  /\ OrderOf \in [Payments -> Orders]
  /\ Items \in [Orders -> Seq(Products \X (Nat \ {0}))]
  /\ Total \in [Orders -> Nat]
  /\ Charges \in [Orders -> Seq(Costs \X Nat)]
  /\ Connections \in Nat
  /\ MaxPaid \in [Payments -> Nat]
  /\ Restocks \subseteq {"IN", "OUT"} \X Products \X (Nat \ {0}) \X BOOLEAN
  /\ MaxRestocked \in Nat

VARIABLES
  booking,    \* the event each desk is processing
  paid,       \* how often order.paid was emitted for each payment
  restocked   \* events of the product service

vars == << ledgerVars, inventoryVars, booking, paid, restocked >>

Stages == { "none", "account", "income", "charges", "approve", "warehouse", "items", "ship" }

\* todo holds the movements still to make.
NoBooking ==
  [ stage |-> "none", order |-> NoOrder, ref |-> NoReference, account |-> NoAccount, id |-> 0,
    charges |-> << >>, warehouse |-> NoWarehouse, todo |-> << >>, fresh |-> FALSE ]

Bookings ==
  [ stage : Stages, order : Orders \cup {NoOrder}, ref : References,
    account : Accounts \cup {NoAccount}, id : Nat, charges : Seq(Costs \X Nat),
    warehouse : Warehouses \cup {NoWarehouse},
    todo : Seq({"IN", "OUT"} \X Products \X Nat), fresh : BOOLEAN ]

TypeOK ==
  /\ LedgerTypeOK
  /\ InventoryTypeOK
  /\ booking \in [Desks -> Bookings]
  /\ paid \in [Payments -> Nat]
  /\ restocked \in Nat

Init ==
  /\ LedgerInit
  /\ InventoryInit
  /\ booking = [d \in Desks |-> NoBooking]
  /\ paid = [pay \in Payments |-> 0]
  /\ restocked = 0

Free(d) == booking[d] = NoBooking /\ ledgerCall[d] = LedgerIdle /\ stockCall[d] = StockIdle

\* Mutant of Connected: a statement takes two connections.
ConnectedTwice ==
  Cardinality({ d \in Desks : booking[d].order # NoOrder }) + 1 < Connections

\* processOrderPayment's own transaction keeps its connection to the end, and
\* every statement inside it takes another one from the pool.
Connected == Cardinality({ d \in Desks : booking[d].order # NoOrder }) < Connections

Turn(d, stage) == booking[d].stage = stage /\ Connected
Goes(d, b) == booking' = [booking EXCEPT ![d] = b]
Ends(d) == Goes(d, NoBooking)

-----------------------------------------------------------------------------
(***************************************************************************)
(* The events.                                                             *)
(***************************************************************************)
OrderPaid(d, pay) ==
  LET o == OrderOf[pay]
  IN /\ Free(d)
     /\ paid[pay] < MaxPaid[pay]
     /\ paid' = [paid EXCEPT ![pay] = @ + 1]
     /\ Goes(d, [NoBooking EXCEPT
          !.stage = "account", !.order = o, !.ref = << "AUTHORITY", pay >>,
          !.charges = Charges[o],
          !.todo = [n \in DOMAIN Items[o] |-> << "OUT", Items[o][n][1], Items[o][n][2] >>]])
     /\ UNCHANGED << ledgerVars, inventoryVars, restocked >>

\* product.created has the initial stock, product.stock.updated the difference
\* to the old stock, of which only the sign decides about IN or OUT.
ProductEvent(d, type, p, quantity, fresh) ==
  /\ Free(d)
  /\ restocked < MaxRestocked
  /\ restocked' = restocked + 1
  /\ Goes(d, [NoBooking EXCEPT !.stage = "warehouse", !.fresh = fresh,
                               !.todo = << << type, p, quantity >> >>])
  /\ UNCHANGED << ledgerVars, inventoryVars, paid >>

-----------------------------------------------------------------------------
(***************************************************************************)
(* recordOrderTransaction: the whole total is one income, with the         *)
(* authority of the payment as its reference; shipping and gift wrapping   *)
(* are recorded once more on their own; only the first is approved.        *)
(***************************************************************************)
Income(b, category, amount, ref) ==
  [ type |-> "INCOME", status |-> "PENDING", amount |-> amount, account |-> b.account,
    dest |-> NoAccount, ref |-> ref, order |-> b.order, category |-> category ]

MainIncome(b) == Income(b, "PRODUCT_SALE", Total[b.order], b.ref)

\* Mutant of ChargeIncome: the additional incomes are approved as well.
ChargeApproved(b) ==
  [Income(b, Head(b.charges)[1], Head(b.charges)[2], NoReference) EXCEPT !.status = "APPROVED"]

ChargeIncome(b) == Income(b, Head(b.charges)[1], Head(b.charges)[2], NoReference)

Postable == { a \in Accounts : account[a].default /\ account[a].active }

FindAccount(d) ==
  /\ Turn(d, "account")
  /\ \E a \in Postable : Goes(d, [booking[d] EXCEPT !.stage = "income", !.account = a])
  /\ UNCHANGED << ledgerVars, inventoryVars >>

RecordIncome(d) ==
  /\ Turn(d, "income")
  /\ CreateTransaction(d, MainIncome(booking[d]))
  /\ UNCHANGED << booking, inventoryVars >>

IncomeRecorded(d) ==
  /\ Turn(d, "income")
  /\ InsertTransaction(d)
  /\ Goes(d, [booking[d] EXCEPT !.stage = "charges", !.id = Len(txn) + 1])
  /\ UNCHANGED inventoryVars

RecordCharge(d) ==
  /\ Turn(d, "charges") /\ booking[d].charges # << >>
  /\ CreateTransaction(d, ChargeIncome(booking[d]))
  /\ UNCHANGED << booking, inventoryVars >>

ChargeRecorded(d) ==
  /\ Turn(d, "charges") /\ booking[d].charges # << >>
  /\ InsertTransaction(d)
  /\ Goes(d, [booking[d] EXCEPT !.charges = Tail(@)])
  /\ UNCHANGED inventoryVars

\* Mutant of ApproveIncome: the goods are moved without it.
IncomeNotApproved(d) ==
  /\ Turn(d, "charges") /\ booking[d].charges = << >> /\ ledgerCall[d] = LedgerIdle
  /\ Goes(d, [booking[d] EXCEPT !.stage = "warehouse", !.id = 0])
  /\ UNCHANGED << ledgerVars, inventoryVars >>

ApproveIncome(d) ==
  /\ Turn(d, "charges") /\ booking[d].charges = << >> /\ ledgerCall[d] = LedgerIdle
  /\ ApproveTransaction(d, booking[d].id)
  /\ Goes(d, [booking[d] EXCEPT !.stage = "approve"])
  /\ UNCHANGED inventoryVars

IncomeApproved(d) ==
  /\ Turn(d, "approve")
  /\ \/ BeginApproval(d) /\ UNCHANGED booking
     \/ CommitApproval(d) /\ Goes(d, [booking[d] EXCEPT !.stage = "warehouse", !.id = 0])
  /\ UNCHANGED inventoryVars

-----------------------------------------------------------------------------
(***************************************************************************)
(* decreaseStock, handleProductCreated and handleProductStockUpdated: one  *)
(* movement after the other in the default warehouse, each approved before *)
(* the next is created.                                                    *)
(***************************************************************************)
Serving == { w \in Warehouses : warehouse[w].default /\ warehouse[w].active }

NextMovement(b) ==
  [ type |-> Head(b.todo)[1], status |-> "PENDING", product |-> Head(b.todo)[2],
    warehouse |-> b.warehouse, dest |-> NoWarehouse, quantity |-> Head(b.todo)[3],
    after |-> 0, number |-> 0, order |-> b.order ]

FindWarehouse(d) ==
  /\ Turn(d, "warehouse")
  /\ \E w \in Serving : Goes(d, [booking[d] EXCEPT !.stage = "items", !.warehouse = w])
  /\ UNCHANGED << ledgerVars, inventoryVars >>

MoveItem(d) ==
  /\ Turn(d, "items") /\ booking[d].todo # << >>
  /\ CreateMovement(d, NextMovement(booking[d]))
  /\ UNCHANGED << booking, ledgerVars >>

ItemMoves(d) ==
  /\ Turn(d, "items") /\ booking[d].todo # << >>
  /\ InsertMovement(d)
  /\ Goes(d, [booking[d] EXCEPT !.stage = "ship", !.id = Len(movement) + 1])
  /\ UNCHANGED ledgerVars

ShipItem(d) ==
  /\ Turn(d, "ship")
  /\ \/ ApproveMovement(d, booking[d].id) /\ UNCHANGED booking
     \/ BeginMovement(d) /\ UNCHANGED booking
     \/ /\ CommitMovement(d)
        /\ Goes(d, [booking[d] EXCEPT !.stage = "items", !.id = 0, !.todo = Tail(@)])
  /\ UNCHANGED ledgerVars

AllMoved(d) ==
  /\ Turn(d, "items") /\ booking[d].todo = << >>
  /\ Ends(d)
  /\ UNCHANGED << ledgerVars, inventoryVars >>

-----------------------------------------------------------------------------
(***************************************************************************)
(* Errors.  The listener logs them and forgets the event.                  *)
(***************************************************************************)
NotFound(d) ==
  \/ Turn(d, "account") /\ Postable = {}
  \/ Turn(d, "income") /\ ledgerCall[d] = LedgerIdle /\ ~Creatable(MainIncome(booking[d]))
  \/ /\ Turn(d, "charges") /\ ledgerCall[d] = LedgerIdle
     /\ IF booking[d].charges = << >> THEN txn[booking[d].id].status # "PENDING"
                                      ELSE ~Creatable(ChargeIncome(booking[d]))
  \/ Turn(d, "warehouse") /\ Serving = {}
  \/ /\ Turn(d, "items") /\ booking[d].todo # << >> /\ stockCall[d] = StockIdle
     /\ booking[d].fresh \/ ~CreatableMovement(NextMovement(booking[d]))
  \/ /\ Turn(d, "ship") /\ stockCall[d] = StockIdle
     /\ movement[booking[d].id].status # "PENDING"

\* fresh: product.created is emitted before its transaction commits, so the
\* look-up of the product can miss it.
LookupFails(d) ==
  /\ NotFound(d)
  /\ Ends(d)
  /\ UNCHANGED << ledgerVars, inventoryVars >>

LedgerFails(d) ==
  /\ booking[d] # NoBooking /\ Connected
  /\ InsertRefused(d) \/ RollbackApproval(d)
  /\ Ends(d)
  /\ UNCHANGED inventoryVars

InventoryFails(d) ==
  /\ booking[d] # NoBooking /\ Connected
  /\ MovementRefused(d) \/ InsufficientStock(d) \/ RollbackMovement(d)
  /\ Ends(d)
  /\ UNCHANGED ledgerVars

-----------------------------------------------------------------------------
BookingStep(d) ==
  \/ FindAccount(d) \/ RecordIncome(d) \/ IncomeRecorded(d)
  \/ RecordCharge(d) \/ ChargeRecorded(d) \/ ApproveIncome(d) \/ IncomeApproved(d)
  \/ FindWarehouse(d) \/ MoveItem(d) \/ ItemMoves(d) \/ ShipItem(d) \/ AllMoved(d)
  \/ LookupFails(d) \/ LedgerFails(d) \/ InventoryFails(d)

Event(d) ==
  \/ \E pay \in Payments : OrderPaid(d, pay)
  \/ \E r \in Restocks : ProductEvent(d, r[1], r[2], r[3], r[4])

AccountantAsks(d) ==
  Free(d) /\ LedgerRequest(d) /\ UNCHANGED << inventoryVars, booking >>

StorekeeperAsks(d) ==
  Free(d) /\ InventoryRequest(d) /\ UNCHANGED << ledgerVars, booking >>

StaffStep(d) ==
  /\ booking[d] = NoBooking /\ Connected
  /\ \/ LedgerStep(d) /\ UNCHANGED inventoryVars
     \/ InventoryStep(d) /\ UNCHANGED ledgerVars
  /\ UNCHANGED booking

Step(d) == (BookingStep(d) \/ StaffStep(d)) /\ UNCHANGED << paid, restocked >>

Next ==
  \E d \in Desks :
    \/ Event(d)
    \/ (AccountantAsks(d) \/ StorekeeperAsks(d)) /\ UNCHANGED << paid, restocked >>
    \/ Step(d)

\* What has been started goes on: every await of a listener or a service ends.
Fairness == \A d \in Desks : WF_vars(Step(d))

Spec == Init /\ [][Next]_vars
FairSpec == Spec /\ Fairness

-----------------------------------------------------------------------------
Sales(o) == { i \in TxnIds : txn[i].order = o /\ txn[i].category = "PRODUCT_SALE" }
Shipments(o) == { i \in MovementIds : movement[i].order = o }
InProgress(o) == \E d \in Desks : booking[d].order = o

\* The payments of order o that order.paid has come for, once or more.
PaidWith(o) == { pay \in Payments : OrderOf[pay] = o /\ paid[pay] > 0 }

\* However often order.paid comes for a payment, and however the listeners
\* overlap, the order's total is recorded once and no item leaves the warehouse
\* twice: the second record is refused for its reference number, the authority,
\* and nothing else of the event is done then.
BookedOnce ==
  \A o \in Orders :
    /\ Cardinality(Sales(o)) <= Cardinality(PaidWith(o))
    /\ \A p \in Products :
         Cardinality({ i \in Shipments(o) : movement[i].product = p })
           <= Cardinality({ n \in DOMAIN Items[o] : Items[o][n][1] = p })
                * Cardinality(PaidWith(o))

\* Nothing leaves the warehouse for an order whose income has not been approved.
GoodsAfterMoney ==
  \A o \in Orders :
    Shipments(o) # {} => \E i \in Sales(o) : txn[i].status = "APPROVED"

\* What an order adds to the balances is its total, once for each payment:
\* shipping and gift wrapping, recorded a second time, stay pending as long as
\* no one approves them.
IncomeIsTotal ==
  \A o \in Orders :
    LET earned == { i \in Approved : txn[i].order = o }
    IN  /\ \A i \in earned : txn[i].amount = Total[o]
        /\ Cardinality(earned) <= Cardinality(PaidWith(o))

\* Every event that a listener has taken is done with in the end: the pool has
\* a connection for one of them at least.
BookingsEnd == \A d \in Desks : booking[d] # NoBooking ~> booking[d] = NoBooking

\* What APPLIED_TO_YOUR_CODE.md promises of order.paid, "all or nothing": once
\* an order's income is approved and its event is done with, all its items have
\* left the warehouse.
AllOrNothing ==
  \A o \in Orders :
    (\E i \in Sales(o) : txn[i].status = "APPROVED") /\ ~InProgress(o) =>
      Cardinality(Shipments(o) \cap ApprovedMovements) = Len(Items[o])

=============================================================================
