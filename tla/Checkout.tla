------------------------------ MODULE Checkout ------------------------------
(***************************************************************************)
(* The checkout of the shop: orders, their online and card-to-card         *)
(* payments, the stock they reserve, the status of the users' carts, the   *)
(* payment gateway and the two scheduled jobs that clean up after all of   *)
(* them (src/src/modules/order, payment, invoice, and the status part of   *)
(* src/src/modules/card).                                                  *)
(*                                                                         *)
(* Every handler runs in one MySQL REPEATABLE READ transaction             *)
(* (runInTransaction).  Its plain reads all come from the snapshot of its  *)
(* first read; TypeORM's save writes the columns that differ from what was *)
(* read, as absolute values; update-where and increment act on the         *)
(* current rows; everything becomes visible at commit.  A handler is       *)
(* therefore a session: Begin* takes from the current tables what the      *)
(* handler reads, Commit* installs its writes, and in between any other    *)
(* session may commit.  Rollback is an exception, a deadlock or a crash    *)
(* before the commit.  Row locks are held until the commit, so they only   *)
(* show where a handler does something outside the database while it has   *)
(* them: a gateway callback locks its order and payment rows before it     *)
(* talks to the gateway.                                                   *)
(***************************************************************************)
EXTENDS Integers, FiniteSets

CONSTANTS
  Users,         \* customers
  Orders,        \* the ids order rows can get
  Authorities,   \* the ids the gateway can give to online payments
  Transfers,     \* the ids card-to-card payment rows can get
  Sessions,      \* requests and jobs that can be in progress at once
  Owner,         \* the user of each order id
  Qty,           \* the units of the product each order holds
  Promo,         \* the order ids whose order has promotionDetails
  InitialStock,  \* units of the product in stock at the start
  MaxCarts,      \* bound: no new cart row for a user with this many
  MaxStock,      \* bound: with more in stock no unreserved order awaits payment
  Handlers,      \* bound: the handlers the environment calls
  NoOrder,       \* "no such row", for orders
  NoPayment      \* "no such row", for payments

Payments == Authorities \cup Transfers

OrderStatus ==
  { "START_ORDER", "PENDING_APPROVAL", "AWAITING_PAYMENT",
    "PAYMENT_CONFIRMATION_PENDING", "PROCESSING", "PREPARING", "SHIPPING",
    "DELIVERED", "NOT_DELIVERED", "EXPIRED", "REJECTED", "REFUNDED",
    "PAYMENT_FAILED", "CANCELLED" }

PaymentStatus ==
  { "PENDING", "IN_PROGRESS", "SUCCESS", "FAILED", "CANCELLED", "VERIFIED", "REFUNDED" }

CardToCardStatus == { "PENDING", "UPLOADED", "APPROVED", "REJECTED" }

\* An id that no row has had yet, and an id whose row is gone.
NoRow == { "NONE", "DELETED" }

ASSUME CheckoutAssumption ==
  /\ Authorities \cap Transfers = {}
  /\ NoOrder \notin Orders
  /\ NoPayment \notin Payments
  /\ Owner \in [Orders -> Users]
  /\ Qty \in [Orders -> Nat \ {0}]
  /\ Promo \subseteq Orders
  /\ InitialStock \in Nat
  /\ MaxCarts \in Nat /\ MaxStock \in Nat

VARIABLES
  order,      \* status of each order row
  payOf,      \* the order each payment row was created for
  payStatus,  \* status column of each payment row
  receipt,    \* card_to_card_status column of each card-to-card payment row
  invoices,   \* number of invoice rows of each order
  stock,      \* stock column of the product
  cart,       \* number of OPEN, LOCKED and ABANDONED cart rows of each user
  promoUsed,  \* used_count column of the promotion
  aged,       \* orders created longer ago than the reservation timeout
  gateway,    \* what the gateway knows of each authority
  tx          \* the transaction in progress in each session

tables == << order, payOf, payStatus, receipt, invoices, stock, cart, promoUsed >>
vars == << order, payOf, payStatus, receipt, invoices, stock, cart, promoUsed,
           aged, gateway, tx >>

-----------------------------------------------------------------------------
(***************************************************************************)
(* Sessions.  A session's record holds what its handler was called with    *)
(* and what it has read; a field the handler does not read stays as in     *)
(* Idle.                                                                   *)
(***************************************************************************)
Replies == { "none", "logged", "100", "101", "other", "error", "counted", "lost", "orphaned" }

Ops == { "createFromCard", "createPayment", "verifyPayment", "userCancel",
         "initiate", "uploadReceipt", "approve", "reject", "awaitingPayment",
         "cancelOrder", "getMyCard", "expire", "unlockStuck" }

Idle ==
  [ op |-> "idle", order |-> NoOrder, pay |-> NoPayment, reply |-> "none",
    status |-> "NONE", payStatus |-> "NONE", receipt |-> "NONE",
    stock |-> 0, open |-> FALSE, batch |-> {}, done |-> {} ]

Begin(s, session) ==
  /\ tx[s] = Idle
  /\ session.op \in Handlers
  /\ tx' = [tx EXCEPT ![s] = session]
  /\ UNCHANGED << tables, aged, gateway >>

End(s) == tx' = [tx EXCEPT ![s] = Idle]

OrderExists(o) == order[o] \notin NoRow

(***************************************************************************)
(* Row locks.  The log entry of a gateway callback refers to the order and *)
(* to the payment, so from then on the session has shared locks on both    *)
(* rows; it has written the order, and locked it exclusively, when it      *)
(* counts promotions.  After a lost deadlock it has no transaction.        *)
(***************************************************************************)
Holds(r, o) ==
  /\ tx[r].op \in {"verifyPayment", "userCancel"}
  /\ tx[r].order = o
  /\ tx[r].reply \notin {"none", "lost", "orphaned"}

\* s may update or delete the row of o, or insert a row that refers to it.
CanWrite(s, o) == \A r \in Sessions \ {s} : ~Holds(r, o)

CanRefer(s, o) == \A r \in Sessions \ {s} : ~(Holds(r, o) /\ tx[r].reply = "counted")

CanWritePayment(s, p) ==
  \A r \in Sessions \ {s} : ~(Holds(r, payOf[p]) /\ tx[r].pay = p)

(***************************************************************************)
(* TypeORM's save of the order, or of the payment, that the session read:  *)
(* the status is written only if it differs from what was read.            *)
(***************************************************************************)
Saved(read, new, current) == IF current \in NoRow \/ read = new THEN current ELSE new

SaveOrder(s, new) ==
  LET t == tx[s]
  IN /\ t.status # new => CanWrite(s, t.order)
     /\ order' = [order EXCEPT ![t.order] = Saved(t.status, new, @)]

SavePayment(s, new) ==
  LET t == tx[s]
  IN /\ t.payStatus # new => CanWritePayment(s, t.pay)
     /\ payStatus' = [payStatus EXCEPT ![t.pay] = Saved(t.payStatus, new, @)]

\* A payment log is inserted: it refers to both rows.
PaymentLogged(s) ==
  /\ OrderExists(tx[s].order)
  /\ CanRefer(s, tx[s].order)
  /\ payStatus[tx[s].pay] \notin NoRow

HasOpenCart(u) == cart[u].open > 0

-----------------------------------------------------------------------------
(* Carts: CardStatusService acts on the current rows of one user.          *)

LockCart(c) == [open |-> 0, locked |-> c.locked + c.open, abandoned |-> c.abandoned]

UnlockCart(c) == [open |-> c.open + c.locked, locked |-> 0, abandoned |-> c.abandoned]

CartRows(c) == c.open + c.locked + c.abandoned

\* abandonCart, then getOrCreateActiveCart, whose plain read sees an OPEN
\* cart only if the snapshot has one.
AbandonCart(c, sawOpen) ==
  [ open |-> IF sawOpen THEN c.open ELSE c.open + 1, locked |-> 0,
    abandoned |-> c.abandoned + c.locked ]

AbandonedCart(u, sawOpen) ==
  /\ sawOpen \/ CartRows(cart[u]) < MaxCarts
  /\ cart' = [cart EXCEPT ![u] = AbandonCart(@, sawOpen)]

\* The handlers of a successful payment go on when abandonCart throws, before
\* or after its update.
TriedToAbandonCart(u, sawOpen) ==
  \/ AbandonedCart(u, sawOpen)
  \/ cart' = [cart EXCEPT ![u] = AbandonCart(@, TRUE)]
  \/ UNCHANGED cart

(***************************************************************************)
(* Stock: decreaseStock reads the product, refuses if there is not enough, *)
(* and saves the difference to what it read; so does inCreaseStock with    *)
(* the sum.  returnStock increments the current row.                       *)
(***************************************************************************)
ReserveFromCurrent(t) ==   \* mutant: the checked stock is not the one written from
  /\ t.stock >= Qty[t.order]
  /\ stock' = stock - Qty[t.order]

ReserveStock(t) ==
  /\ t.stock >= Qty[t.order]
  /\ stock' = t.stock - Qty[t.order]

ReturnStock(o) == stock' = stock + Qty[o]

-----------------------------------------------------------------------------
(* createFromCard: an order is made from the user's OPEN cart; the user's  *)
(* unpaid START_ORDER order, if one is found, is deleted, and its payments *)
(* and invoices with it (ON DELETE CASCADE).                               *)

StartedOrders(u) == { o \in Orders : order[o] = "START_ORDER" /\ Owner[o] = u }

BeginCreateFromCard(s, o) ==
  /\ order[o] = "NONE"
  /\ stock >= Qty[o]
  /\ \E found \in SUBSET StartedOrders(Owner[o]) :
       /\ Cardinality(found) <= 1
       /\ found = {} => StartedOrders(Owner[o]) = {}
       /\ Begin(s, [Idle EXCEPT !.op = "createFromCard", !.order = o, !.batch = found])

\* The cart is found by a locking read, so it must be OPEN now.
CommitCreateFromCard(s) ==
  LET t == tx[s]
      deletedPayment(p) == payOf[p] \in t.batch /\ payStatus[p] \notin NoRow
  IN /\ t.op = "createFromCard"
     /\ order[t.order] = "NONE"
     /\ HasOpenCart(Owner[t.order])
     /\ \A o \in t.batch : CanWrite(s, o)
     /\ order' = [o \in Orders |-> IF o = t.order THEN "START_ORDER"
                                   ELSE IF o \in t.batch THEN "DELETED"
                                   ELSE order[o]]
     /\ payStatus' = [p \in Payments |-> IF deletedPayment(p) THEN "DELETED"
                                         ELSE payStatus[p]]
     /\ invoices' = [o \in Orders |-> IF o \in t.batch THEN 0 ELSE invoices[o]]
     /\ End(s)
     /\ UNCHANGED << payOf, receipt, stock, cart, promoUsed, aged, gateway >>

-----------------------------------------------------------------------------
(* createPayment: the gateway is asked for an authority inside the         *)
(* transaction, then the cart is locked, the order awaits payment, the     *)
(* stock is reserved and the payment row is inserted.                      *)

Payable == { "PAYMENT_FAILED", "START_ORDER", "AWAITING_PAYMENT" }

BeginCreatePayment(s, o) ==
  /\ order[o] \in Payable
  /\ Begin(s, [Idle EXCEPT !.op = "createPayment", !.order = o,
                           !.status = order[o], !.stock = stock])

\* zarinpal.payments.create: a new authority, which stays issued whatever
\* becomes of the transaction.
GatewayIssues(s, a) ==
  /\ tx[s].op = "createPayment"
  /\ tx[s].pay = NoPayment
  /\ gateway[a] = "unused"
  /\ gateway' = [gateway EXCEPT ![a] = "issued"]
  /\ tx' = [tx EXCEPT ![s].pay = a]
  /\ UNCHANGED << tables, aged >>

\* The inserted payment refers to the order row.
CommitCreatePayment(s) ==
  LET t == tx[s]
  IN /\ t.op = "createPayment"
     /\ t.pay # NoPayment
     /\ OrderExists(t.order) /\ CanRefer(s, t.order)
     /\ ReserveStock(t)
     /\ SaveOrder(s, "AWAITING_PAYMENT")
     /\ cart' = [cart EXCEPT ![Owner[t.order]] = LockCart(@)]
     /\ payOf' = [payOf EXCEPT ![t.pay] = t.order]
     /\ payStatus' = [payStatus EXCEPT ![t.pay] = "IN_PROGRESS"]
     /\ End(s)
     /\ UNCHANGED << receipt, invoices, promoUsed, aged, gateway >>

\* The customer pays at the gateway, behind the link the commit returned.
UserPays(a) ==
  /\ gateway[a] = "issued"
  /\ payOf[a] # NoOrder
  /\ gateway' = [gateway EXCEPT ![a] = "paid"]
  /\ UNCHANGED << tables, aged, tx >>

-----------------------------------------------------------------------------
(* verifyPayment: the browser comes back from the gateway.  With Status=OK *)
(* the payment is verified (and captured) at the gateway in the middle of  *)
(* the transaction; otherwise the payment is only marked CANCELLED.        *)

VerifiablePrepared ==   \* mutant: a prepared order can be paid once more
  { "AWAITING_PAYMENT", "PAYMENT_FAILED", "PENDING_APPROVAL",
    "PAYMENT_CONFIRMATION_PENDING", "PREPARING" }

VerifiableExpired ==   \* mutant: a late payment of an expired order is accepted
  { "AWAITING_PAYMENT", "PAYMENT_FAILED", "PENDING_APPROVAL",
    "PAYMENT_CONFIRMATION_PENDING", "EXPIRED" }

Verifiable == { "AWAITING_PAYMENT", "PAYMENT_FAILED", "PENDING_APPROVAL",
                "PAYMENT_CONFIRMATION_PENDING" }

BeginCallback(s, a, op) ==
  LET o == payOf[a]
  IN /\ payStatus[a] \notin NoRow \cup {"SUCCESS"}
     /\ order[o] \in Verifiable
     /\ Begin(s, [Idle EXCEPT !.op = op, !.order = o, !.pay = a,
                              !.status = order[o], !.payStatus = payStatus[a],
                              !.open = op = "verifyPayment" /\ HasOpenCart(Owner[o])])

BeginVerify(s, a) ==
  /\ gateway[a] # "unused"
  /\ BeginCallback(s, a, "verifyPayment")

BeginUserCancel(s, a) ==
  /\ gateway[a] = "issued"
  /\ BeginCallback(s, a, "userCancel")

LogCallback(s) ==
  /\ tx[s].op \in {"verifyPayment", "userCancel"}
  /\ tx[s].reply = "none"
  /\ PaymentLogged(s)
  /\ tx' = [tx EXCEPT ![s].reply = "logged"]
  /\ UNCHANGED << tables, aged, gateway >>

\* zarinpal.verifications.verify: code 100 captures the money, 101 says it
\* was captured before, any other code refuses; the call may also fail
\* before or after the gateway has captured.
GatewayVerifies(s, reply) ==
  LET a == tx[s].pay
  IN /\ tx[s].op = "verifyPayment"
     /\ tx[s].reply = "logged"
     /\ \/ reply = "100" /\ gateway[a] = "paid"
        \/ reply = "101" /\ gateway[a] = "captured"
        \/ reply = "other" /\ gateway[a] # "captured"
        \/ reply = "error"
     /\ \/ gateway[a] = "paid" /\ reply \in {"100", "error"}
           /\ gateway' = [gateway EXCEPT ![a] = "captured"]
        \/ reply # "100" /\ UNCHANGED gateway
     /\ tx' = [tx EXCEPT ![s].reply = reply]
     /\ UNCHANGED << tables, aged >>

CountPromotionAgain(s) ==   \* mutant: counts for code 101 as well
  /\ tx[s].reply \in {"100", "101"}
  /\ tx[s].order \in Promo
  /\ CanWrite(s, tx[s].order)
  /\ promoUsed' = promoUsed + 1
  /\ tx' = [tx EXCEPT ![s].reply = "counted"]
  /\ UNCHANGED << order, payOf, payStatus, receipt, invoices, stock, cart, aged, gateway >>

\* handlePromotionIncrement: usage is counted on another connection, before
\* and independently of the commit; its errors are swallowed.
CountPromotion(s) ==
  /\ tx[s].reply = "100"
  /\ tx[s].order \in Promo
  /\ CanWrite(s, tx[s].order)
  /\ promoUsed' = promoUsed + 1
  /\ tx' = [tx EXCEPT ![s].reply = "counted"]
  /\ UNCHANGED << order, payOf, payStatus, receipt, invoices, stock, cart, aged, gateway >>

SuccessWithoutInvoice(t) ==   \* mutant: the payment stays SUCCESS without an invoice
  /\ payStatus' = [payStatus EXCEPT ![t.pay] = "SUCCESS"]
  /\ \/ invoices' = [invoices EXCEPT ![t.order] = @ + 1]
     \/ UNCHANGED invoices

\* handleInvoiceCreation: the payment is VERIFIED instead of SUCCESS when
\* the invoice could not be made.
InvoiceOrVerified(t) ==
  \/ /\ payStatus' = [payStatus EXCEPT ![t.pay] = "SUCCESS"]
     /\ invoices' = [invoices EXCEPT ![t.order] = @ + 1]
  \/ /\ payStatus' = [payStatus EXCEPT ![t.pay] = "VERIFIED"]
     /\ UNCHANGED invoices

\* SuccessfulPaymentHandler.
CommitVerified(s) ==
  LET t == tx[s]
  IN /\ t.reply \in {"100", "counted"}
     /\ PaymentLogged(s)
     /\ SaveOrder(s, "PREPARING")
     /\ TriedToAbandonCart(Owner[t.order], t.open)
     /\ InvoiceOrVerified(t)
     /\ End(s)
     /\ UNCHANGED << payOf, receipt, stock, promoUsed, aged, gateway >>

CommitVerifiedAgain(s) ==   \* mutant: code 101 makes the invoice as code 100 does
  /\ tx[s].reply = "101"
  /\ SaveOrder(s, "PAYMENT_CONFIRMATION_PENDING")
  /\ InvoiceOrVerified(tx[s])
  /\ End(s)
  /\ UNCHANGED << payOf, receipt, stock, cart, promoUsed, aged, gateway >>

\* Code 101: the answer is "already verified"; only the order is saved.
CommitAlreadyVerified(s) ==
  /\ tx[s].reply = "101"
  /\ SaveOrder(s, "PAYMENT_CONFIRMATION_PENDING")
  /\ End(s)
  /\ UNCHANGED << payOf, payStatus, receipt, invoices, stock, cart, promoUsed, aged, gateway >>

CommitRefusedPrepared(s) ==   \* mutant: the order is prepared before the reply is looked at
  /\ tx[s].reply = "other"
  /\ SaveOrder(s, "PREPARING")
  /\ SavePayment(s, "FAILED")
  /\ End(s)
  /\ UNCHANGED << payOf, receipt, invoices, stock, cart, promoUsed, aged, gateway >>

CommitRefusedFailed(s) ==   \* mutant: the order gets a status of payments
  /\ tx[s].reply = "other"
  /\ SaveOrder(s, "FAILED")
  /\ SavePayment(s, "FAILED")
  /\ End(s)
  /\ UNCHANGED << payOf, receipt, invoices, stock, cart, promoUsed, aged, gateway >>

\* FailedPaymentHandler, after the order was saved.
CommitRefused(s) ==
  /\ tx[s].reply = "other"
  /\ SaveOrder(s, "PAYMENT_CONFIRMATION_PENDING")
  /\ SavePayment(s, "FAILED")
  /\ End(s)
  /\ UNCHANGED << payOf, receipt, invoices, stock, cart, promoUsed, aged, gateway >>

\* The verify call threw: FAILED is saved, and the exception that is then
\* thrown rolls it back.
VerifyThrows(s) ==
  /\ tx[s].reply = "error"
  /\ End(s)
  /\ UNCHANGED << tables, aged, gateway >>

CommitUserCancelReturns(s) ==   \* mutant: the stock is given back, the order can still be paid
  /\ tx[s].op = "userCancel"
  /\ tx[s].reply = "logged"
  /\ SavePayment(s, "CANCELLED")
  /\ ReturnStock(tx[s].order)
  /\ End(s)
  /\ UNCHANGED << order, payOf, receipt, invoices, cart, promoUsed, aged, gateway >>

CommitUserCancel(s) ==
  /\ tx[s].op = "userCancel"
  /\ tx[s].reply = "logged"
  /\ SavePayment(s, "CANCELLED")
  /\ End(s)
  /\ UNCHANGED << order, payOf, receipt, invoices, stock, cart, promoUsed, aged, gateway >>

(***************************************************************************)
(* Deadlocks.  MySQL rolls the victim's whole transaction back, and what   *)
(* the handler still executes after it has caught the error is committed   *)
(* statement by statement.                                                 *)
(***************************************************************************)

\* The next write of session s waits for a lock of the callback in r.
WaitsFor(s, r) ==
  LET t == tx[s]
      writesOrder == t.op = "verifyPayment" /\ t.reply \in {"100", "101", "other"}
                     /\ (t.reply = "100" \/ t.status # "PAYMENT_CONFIRMATION_PENDING")
      writesPayment == t.reply = "other" \/ (t.op = "userCancel" /\ t.reply = "logged")
  IN /\ Holds(r, t.order)
     /\ writesOrder \/ (writesPayment /\ tx[r].pay = t.pay)

\* Two callbacks for one order: one is the victim, and verifyWithZarinpal
\* catches the error.
LosesDeadlock(s) ==
  /\ tx[s].op = "verifyPayment"
  /\ \E r \in Sessions \ {s} : WaitsFor(s, r) /\ WaitsFor(r, s)
  /\ tx' = [tx EXCEPT ![s].reply = "lost"]
  /\ UNCHANGED << tables, aged, gateway >>

\* Then the payment is saved as FAILED, for good.
RecordsFailed(s) ==
  LET p == tx[s].pay
  IN /\ tx[s].reply = "lost"
     /\ CanWritePayment(s, p)
     /\ payStatus' = [payStatus EXCEPT ![p] = Saved("NONE", "FAILED", @)]
     /\ End(s)
     /\ UNCHANGED << order, payOf, receipt, invoices, stock, cart, promoUsed, aged, gateway >>

\* A handler that has locked the user's carts waits for the order row, and
\* abandonCart waits for the carts: the error in abandonCart is swallowed.
LosesCartDeadlock(s) ==
  /\ tx[s].reply = "100"
  /\ CanWrite(s, tx[s].order)
  /\ \E r \in Sessions \ {s} :
       /\ tx[r].order = tx[s].order
       /\ \/ tx[r].op = "initiate"
          \/ tx[r].op = "createPayment" /\ tx[r].pay # NoPayment
  /\ tx' = [tx EXCEPT ![s].reply = "orphaned"]
  /\ UNCHANGED << tables, aged, gateway >>

\* The rest of SuccessfulPaymentHandler without its transaction: what was
\* saved of the order and of the payment is gone, what follows is kept.
CommitOrphaned(s) ==
  LET t == tx[s]
  IN /\ t.reply = "orphaned"
     /\ PaymentLogged(s)
     /\ \/ /\ invoices' = [invoices EXCEPT ![t.order] = @ + 1]
           /\ UNCHANGED payStatus
        \/ /\ CanWritePayment(s, t.pay)
           /\ payStatus' = [payStatus EXCEPT ![t.pay] = "VERIFIED"]
           /\ UNCHANGED invoices
     /\ \/ t.order \in Promo /\ promoUsed' = promoUsed + 1
        \/ UNCHANGED promoUsed
     /\ End(s)
     /\ UNCHANGED << order, payOf, receipt, stock, cart, aged, gateway >>

-----------------------------------------------------------------------------
(* Card-to-card payments: the user initiates one, uploads a receipt, an    *)
(* administrator approves or rejects it.                                   *)

TransfersOf(o) == { p \in Transfers : payOf[p] = o /\ payStatus[p] \notin NoRow }

BeginInitiate(s, o) ==
  /\ order[o] \in Payable
  /\ \A p \in TransfersOf(o) : receipt[p] \notin {"PENDING", "UPLOADED"}
  /\ Begin(s, [Idle EXCEPT !.op = "initiate", !.order = o])

CommitInitiate(s, p) ==
  LET o == tx[s].order
  IN /\ tx[s].op = "initiate"
     /\ OrderExists(o) /\ CanRefer(s, o)
     /\ p \in Transfers /\ payStatus[p] = "NONE"
     /\ cart' = [cart EXCEPT ![Owner[o]] = LockCart(@)]
     /\ payOf' = [payOf EXCEPT ![p] = o]
     /\ payStatus' = [payStatus EXCEPT ![p] = "PENDING"]
     /\ receipt' = [receipt EXCEPT ![p] = "PENDING"]
     /\ End(s)
     /\ UNCHANGED << order, invoices, stock, promoUsed, aged, gateway >>

\* What uploadReceipt and reviewReceipt read of a card-to-card payment.
TransferRead(op, p) ==
  [Idle EXCEPT !.op = op, !.order = payOf[p], !.pay = p, !.status = order[payOf[p]],
               !.payStatus = payStatus[p], !.receipt = receipt[p]]

SaveReceiptOnly(s, newReceipt, newStatus) ==   \* mutant: a failed review leaves the payment SUCCESS
  LET t == tx[s]
  IN /\ receipt' = [receipt EXCEPT ![t.pay] = IF t.receipt = newReceipt THEN @ ELSE newReceipt]
     /\ SavePayment(s, "SUCCESS")

SaveReceipt(s, newReceipt, newStatus) ==
  LET t == tx[s]
  IN /\ receipt' = [receipt EXCEPT ![t.pay] = IF t.receipt = newReceipt THEN @ ELSE newReceipt]
     /\ SavePayment(s, newStatus)

BeginUploadAnyReceipt(s, p) ==   \* mutant: an approved transfer gets a new receipt
  /\ p \in Transfers /\ payStatus[p] \notin NoRow
  /\ Begin(s, TransferRead("uploadReceipt", p))

BeginUploadReceipt(s, p) ==
  /\ p \in Transfers /\ payStatus[p] \notin NoRow
  /\ receipt[p] # "APPROVED"
  /\ Begin(s, TransferRead("uploadReceipt", p))

CommitUploadReceipt(s) ==
  LET t == tx[s]
  IN /\ t.op = "uploadReceipt"
     /\ PaymentLogged(s)
     /\ SaveReceipt(s, "UPLOADED", "PENDING")
     /\ SaveOrder(s, "PAYMENT_CONFIRMATION_PENDING")
     /\ End(s)
     /\ UNCHANGED << payOf, invoices, stock, cart, promoUsed, aged, gateway >>

\* reviewReceipt with APPROVED.  incrementPromotionUsage looks the promotion
\* up by a class that is not an entity, so the approval of an order with
\* promotions always throws.
BeginApprove(s, p) ==
  LET o == payOf[p]
  IN /\ p \in Transfers /\ payStatus[p] \notin NoRow
     /\ receipt[p] = "UPLOADED"
     /\ order[o] = "PAYMENT_CONFIRMATION_PENDING"
     /\ o \notin Promo
     /\ Begin(s, [TransferRead("approve", p) EXCEPT !.stock = stock,
                                                   !.open = HasOpenCart(Owner[o])])

CommitApproveUnsaved(s) ==   \* mutant: the review of the transfer is not saved
  LET t == tx[s]
  IN /\ t.op = "approve"
     /\ PaymentLogged(s)
     /\ ReserveStock(t)
     /\ SaveOrder(s, "PROCESSING")
     /\ TriedToAbandonCart(Owner[t.order], t.open)
     /\ invoices' = [invoices EXCEPT ![t.order] = @ + 1]
     /\ End(s)
     /\ UNCHANGED << payOf, payStatus, receipt, promoUsed, aged, gateway >>

CommitApprove(s) ==
  LET t == tx[s]
  IN /\ t.op = "approve"
     /\ PaymentLogged(s)
     /\ ReserveStock(t)
     /\ SaveOrder(s, "PROCESSING")
     /\ SaveReceipt(s, "APPROVED", "SUCCESS")
     /\ TriedToAbandonCart(Owner[t.order], t.open)
     /\ invoices' = [invoices EXCEPT ![t.order] = @ + 1]
     /\ End(s)
     /\ UNCHANGED << payOf, promoUsed, aged, gateway >>

\* reviewReceipt with REJECTED: the order waits for payment again.
BeginReject(s, p) ==
  /\ p \in Transfers /\ payStatus[p] \notin NoRow
  /\ receipt[p] = "UPLOADED"
  /\ stock <= MaxStock
  /\ Begin(s, TransferRead("reject", p))

CommitReject(s) ==
  LET t == tx[s]
  IN /\ t.op = "reject"
     /\ PaymentLogged(s)
     /\ SaveReceipt(s, "REJECTED", "FAILED")
     /\ SaveOrder(s, "AWAITING_PAYMENT")
     /\ cart' = [cart EXCEPT ![Owner[t.order]] = UnlockCart(@)]
     /\ End(s)
     /\ UNCHANGED << payOf, invoices, stock, promoUsed, aged, gateway >>

-----------------------------------------------------------------------------
(* The user's other operations on orders and carts.                        *)

\* awaitingPayment accepts an order in any status.
BeginAwaitingPayment(s, o) ==
  /\ OrderExists(o)
  /\ stock <= MaxStock
  /\ Begin(s, [Idle EXCEPT !.op = "awaitingPayment", !.order = o, !.status = order[o],
                           !.open = HasOpenCart(Owner[o])])

CommitAwaitingPayment(s) ==
  LET t == tx[s]
  IN /\ t.op = "awaitingPayment"
     /\ SaveOrder(s, "AWAITING_PAYMENT")
     /\ AbandonedCart(Owner[t.order], t.open)
     /\ End(s)
     /\ UNCHANGED << payOf, payStatus, receipt, invoices, stock, promoUsed, aged, gateway >>

Cancellable == { "AWAITING_PAYMENT", "PAYMENT_CONFIRMATION_PENDING", "PROCESSING", "PREPARING" }

BeginCancelOrder(s, o) ==
  /\ order[o] \in Cancellable
  /\ Begin(s, [Idle EXCEPT !.op = "cancelOrder", !.order = o, !.status = order[o],
                           !.open = HasOpenCart(Owner[o])])

\* Stock is returned for the statuses that follow a successful payment.
CommitCancelOrder(s) ==
  LET t == tx[s]
  IN /\ t.op = "cancelOrder"
     /\ SaveOrder(s, "CANCELLED")
     /\ IF t.status \in {"PROCESSING", "PREPARING"} THEN ReturnStock(t.order)
                                                    ELSE UNCHANGED stock
     /\ AbandonedCart(Owner[t.order], t.open)
     /\ End(s)
     /\ UNCHANGED << payOf, payStatus, receipt, invoices, promoUsed, aged, gateway >>

\* addItem looks for an OPEN cart with a locking read and makes one when the
\* user has none, LOCKED or not.
AddItem(u) ==
  /\ "addItem" \in Handlers
  /\ ~HasOpenCart(u)
  /\ CartRows(cart[u]) < MaxCarts
  /\ cart' = [cart EXCEPT ![u].open = 1]
  /\ UNCHANGED << order, payOf, payStatus, receipt, invoices, stock, promoUsed, aged,
                  gateway, tx >>

\* getMyCard does the same without a transaction or a lock.
BeginGetMyCard(s, u) ==
  /\ ~HasOpenCart(u)
  /\ Begin(s, [Idle EXCEPT !.op = "getMyCard", !.batch = {u}])

CommitGetMyCard(s) ==
  /\ tx[s].op = "getMyCard"
  /\ \A u \in tx[s].batch : CartRows(cart[u]) < MaxCarts
  /\ cart' = [u \in Users |-> IF u \in tx[s].batch THEN [cart[u] EXCEPT !.open = @ + 1]
                              ELSE cart[u]]
  /\ End(s)
  /\ UNCHANGED << order, payOf, payStatus, receipt, invoices, stock, promoUsed, aged, gateway >>

LockOpen(c) == [open |-> c.open - 1, locked |-> c.locked + 1, abandoned |-> c.abandoned]

LockAbandoned(c) == [open |-> c.open, locked |-> c.locked + 1, abandoned |-> c.abandoned - 1]

\* The lock endpoint locks whichever cart of the user the query returns.
LockAnyCart(u) ==
  /\ "lock" \in Handlers
  /\ \/ cart[u].open > 0 /\ cart' = [cart EXCEPT ![u] = LockOpen(@)]
     \/ cart[u].abandoned > 0 /\ cart' = [cart EXCEPT ![u] = LockAbandoned(@)]
  /\ UNCHANGED << order, payOf, payStatus, receipt, invoices, stock, promoUsed, aged,
                  gateway, tx >>

-----------------------------------------------------------------------------
(* The scheduled jobs of CartCleanupService.                               *)

Ages(o) ==
  /\ order[o] # "NONE"
  /\ o \notin aged
  /\ aged' = aged \cup {o}
  /\ UNCHANGED << tables, gateway, tx >>

ExpirableFailed(o) ==   \* mutant: only failed payments expire
  order[o] = "PAYMENT_FAILED" /\ o \in aged

Expirable(o) == order[o] \in {"AWAITING_PAYMENT", "PAYMENT_FAILED"} /\ o \in aged

\* A job does not overlap itself.
JobIdle(op) == \A s \in Sessions : tx[s].op # op

BeginExpire(s) ==
  LET found == { o \in Orders : Expirable(o) }
  IN /\ JobIdle("expire")
     /\ found # {}
     /\ Begin(s, [Idle EXCEPT !.op = "expire", !.stock = stock, !.batch = found])

\* One turn of the loop over the expired orders: inCreaseStock.
ExpireNext(s, o) ==
  LET t == tx[s]
  IN /\ t.op = "expire"
     /\ o \in t.batch \ t.done
     /\ tx' = [tx EXCEPT ![s] = [t EXCEPT !.stock = t.stock + Qty[o], !.done = t.done \cup {o}]]
     /\ UNCHANGED << tables, aged, gateway >>

CommitExpire(s) ==
  LET t == tx[s]
  IN /\ t.op = "expire"
     /\ t.done = t.batch
     /\ \A o \in t.batch : CanWrite(s, o)
     /\ order' = [o \in Orders |-> IF o \in t.batch /\ OrderExists(o) THEN "EXPIRED"
                                   ELSE order[o]]
     /\ stock' = t.stock
     /\ cart' = [u \in Users |-> IF \E o \in t.batch : Owner[o] = u THEN UnlockCart(cart[u])
                                 ELSE cart[u]]
     /\ End(s)
     /\ UNCHANGED << payOf, payStatus, receipt, invoices, promoUsed, aged, gateway >>

\* handleStuckLockedCarts: users with a LOCKED cart (untouched for two
\* hours: any of them may be) and no order awaiting payment.
StuckUsersUnconfirmed ==   \* mutant: a payment to be confirmed keeps the cart locked
  { u \in Users : /\ cart[u].locked > 0
                  /\ \A o \in Orders : Owner[o] = u =>
                       order[o] \notin {"AWAITING_PAYMENT", "PAYMENT_CONFIRMATION_PENDING"} }

StuckUsers ==
  { u \in Users : /\ cart[u].locked > 0
                  /\ \A o \in Orders : Owner[o] = u => order[o] # "AWAITING_PAYMENT" }

BeginUnlockStuck(s) ==
  /\ JobIdle("unlockStuck")
  /\ \E old \in SUBSET StuckUsers :
       /\ old # {}
       /\ Begin(s, [Idle EXCEPT !.op = "unlockStuck", !.batch = old])

CommitUnlockStuck(s) ==
  /\ tx[s].op = "unlockStuck"
  /\ cart' = [u \in Users |-> IF u \in tx[s].batch THEN UnlockCart(cart[u]) ELSE cart[u]]
  /\ End(s)
  /\ UNCHANGED << order, payOf, payStatus, receipt, invoices, stock, promoUsed, aged, gateway >>

\* PaymentRecoveryService.recoverUninvoicedPayments is no action: its query
\* joins order.invoice, which is not a relation of Order, and always throws.

\* cleanupAbandonedCarts: rows older than 30 days are deleted.
CleanupAbandoned(u) ==
  /\ "cleanup" \in Handlers
  /\ cart[u].abandoned > 0
  /\ cart' = [cart EXCEPT ![u].abandoned = @ - 1]
  /\ UNCHANGED << order, payOf, payStatus, receipt, invoices, stock, promoUsed, aged,
                  gateway, tx >>

-----------------------------------------------------------------------------
\* An exception, a deadlock or a crash: nothing of the transaction remains.
Rollback(s) ==
  /\ tx[s].op # "idle" /\ tx[s].reply # "error"
  /\ End(s)
  /\ UNCHANGED << tables, aged, gateway >>

Init ==
  /\ order = [o \in Orders |-> "NONE"]
  /\ payOf = [p \in Payments |-> NoOrder]
  /\ payStatus = [p \in Payments |-> "NONE"]
  /\ receipt = [p \in Payments |-> "NONE"]
  /\ invoices = [o \in Orders |-> 0]
  /\ stock = InitialStock
  /\ cart = [u \in Users |-> [open |-> 1, locked |-> 0, abandoned |-> 0]]
  /\ promoUsed = 0
  /\ aged = {}
  /\ gateway = [a \in Authorities |-> "unused"]
  /\ tx = [s \in Sessions |-> Idle]

OnlineStep(s) ==
  \/ \E o \in Orders : BeginCreatePayment(s, o)
  \/ \E a \in Authorities : GatewayIssues(s, a) \/ BeginVerify(s, a) \/ BeginUserCancel(s, a)
  \/ \E reply \in {"100", "101", "other", "error"} : GatewayVerifies(s, reply)
  \/ CommitCreatePayment(s) \/ LogCallback(s) \/ CountPromotion(s) \/ CommitVerified(s)
  \/ CommitAlreadyVerified(s) \/ CommitRefused(s) \/ VerifyThrows(s) \/ CommitUserCancel(s)
  \/ LosesDeadlock(s) \/ RecordsFailed(s) \/ LosesCartDeadlock(s) \/ CommitOrphaned(s)

TransferStep(s) ==
  \/ \E o \in Orders : BeginInitiate(s, o)
  \/ \E p \in Transfers : \/ CommitInitiate(s, p) \/ BeginUploadReceipt(s, p)
                          \/ BeginApprove(s, p) \/ BeginReject(s, p)
  \/ CommitUploadReceipt(s) \/ CommitApprove(s) \/ CommitReject(s)

OrderStep(s) ==
  \/ \E o \in Orders : \/ BeginCreateFromCard(s, o) \/ BeginAwaitingPayment(s, o)
                       \/ BeginCancelOrder(s, o)
  \/ \E u \in Users : BeginGetMyCard(s, u)
  \/ CommitCreateFromCard(s) \/ CommitAwaitingPayment(s) \/ CommitCancelOrder(s)
  \/ CommitGetMyCard(s) \/ Rollback(s)

JobStep(s) ==
  \/ BeginExpire(s) \/ CommitExpire(s) \/ BeginUnlockStuck(s) \/ CommitUnlockStuck(s)
  \/ \E o \in Orders : ExpireNext(s, o)

Next ==
  \/ \E s \in Sessions : OnlineStep(s) \/ TransferStep(s) \/ OrderStep(s) \/ JobStep(s)
  \/ \E o \in Orders : Ages(o)
  \/ \E a \in Authorities : UserPays(a)
  \/ \E u \in Users : AddItem(u) \/ LockAnyCart(u) \/ CleanupAbandoned(u)

Spec == Init /\ [][Next]_vars

(***************************************************************************)
(* Fairness.  Time passes; a request in progress ends, by its commit or by *)
(* a rollback; and the scheduler starts each job again and again, so that  *)
(* a job whose transaction is not always rolled back gets through.         *)
(***************************************************************************)
InProgress(s) ==
  /\ tx[s] # Idle
  /\ OnlineStep(s) \/ TransferStep(s) \/ OrderStep(s) \/ JobStep(s)

Fairness ==
  /\ \A o \in Orders : WF_vars(Ages(o))
  /\ \A s \in Sessions :
       /\ WF_vars(InProgress(s))
       /\ SF_vars(BeginExpire(s)) /\ SF_vars(CommitExpire(s))
       /\ SF_vars(BeginUnlockStuck(s)) /\ SF_vars(CommitUnlockStuck(s))
       /\ \A o \in Orders : SF_vars(ExpireNext(s, o))

FairSpec == Spec /\ Fairness

-----------------------------------------------------------------------------
(* Properties.                                                             *)

Session ==
  [ op : Ops \cup {"idle"}, order : Orders \cup {NoOrder}, pay : Payments \cup {NoPayment},
    reply : Replies, status : OrderStatus \cup NoRow, payStatus : PaymentStatus \cup NoRow,
    receipt : CardToCardStatus \cup {"NONE"}, stock : Int, open : BOOLEAN,
    batch : SUBSET (Orders \cup Users), done : SUBSET Orders ]

Cart == [open : Nat, locked : Nat, abandoned : Nat]

TypeOK ==
  /\ order \in [Orders -> OrderStatus \cup NoRow]
  /\ payOf \in [Payments -> Orders \cup {NoOrder}]
  /\ payStatus \in [Payments -> PaymentStatus \cup NoRow]
  /\ receipt \in [Payments -> CardToCardStatus \cup {"NONE"}]
  /\ invoices \in [Orders -> Nat]
  /\ stock \in Int
  /\ cart \in [Users -> Cart]
  /\ promoUsed \in Nat
  /\ aged \in SUBSET Orders
  /\ gateway \in [Authorities -> {"unused", "issued", "paid", "captured"}]
  /\ tx \in [Sessions -> Session]

\* A payment row belongs to an order, a session that is not working on a batch
\* works on an order, and only callbacks wait for the gateway.
RowsKnown ==
  /\ \A p \in Payments : payStatus[p] # "NONE" => payOf[p] \in Orders
  /\ \A s \in Sessions :
       /\ tx[s].op \notin {"idle", "getMyCard", "expire", "unlockStuck"} => tx[s].order \in Orders
       /\ tx[s].reply # "none" => tx[s].op \in {"verifyPayment", "userCancel"}

\* The stock column is never negative, although every reservation writes a
\* difference to a stock that may have changed since it was checked.
StockNonNegative == stock >= 0

Captured(o) == { a \in Authorities : payOf[a] = o /\ gateway[a] = "captured" }

Approved(o) == { p \in TransfersOf(o) : receipt[p] = "APPROVED" }

\* An order has at most one invoice for each payment that was really made
\* for it: captured by the gateway, or approved by an administrator.
InvoicesBacked ==
  \A o \in Orders : invoices[o] <= Cardinality(Captured(o)) + Cardinality(Approved(o))

\* A promotion is counted as used at most once for each captured payment of
\* an order that uses it, whatever is rolled back, retried or called twice.
PromotionUseBacked ==
  promoUsed <= Cardinality(UNION { Captured(o) : o \in Promo })

\* A payment is SUCCESS only together with an invoice of its order; the
\* recovery job looks for VERIFIED payments to make the missing ones.
PaidHasInvoice ==
  \A p \in Payments : payStatus[p] = "SUCCESS" => invoices[payOf[p]] > 0

\* An order is prepared only if the gateway captured the money of one of its
\* payments, whatever was answered, lost, rolled back or called twice.
PreparedIsCaptured == \A o \in Orders : order[o] = "PREPARING" => Captured(o) # {}

\* An order is prepared or processed only if the gateway captured its money
\* or an administrator has approved a transfer for it.
FulfilmentPaid ==
  /\ PreparedIsCaptured
  /\ \A o \in Orders : order[o] = "PROCESSING" => Captured(o) \cup Approved(o) # {}

\* However the two ways of paying mix on an order, an invoice and a fulfilment
\* have money behind them.
MoneyBacks == InvoicesBacked /\ FulfilmentPaid

\* Orders that hold units of the product.
Holding ==
  { o \in Orders : order[o] \in { "AWAITING_PAYMENT", "PAYMENT_CONFIRMATION_PENDING",
                                  "PREPARING", "PROCESSING" } }

\* The units of the product that a set of orders takes.
Units(S) == UNION { {o} \X (1 .. Qty[o]) : o \in S }

\* The shop never promises more units than it had: what the live orders hold
\* and what is still offered is no more than the initial stock.
NoOversell == stock + Cardinality(Units(Holding)) <= InitialStock

\* However many payment links an order was given, at most one of its
\* payments is ever accepted as successful.
SettledOnce ==
  \A o \in Orders :
    Cardinality({ p \in Payments : payOf[p] = o /\ payStatus[p] \in {"SUCCESS", "VERIFIED"} }) <= 1

\* No late answer, link or job brings an expired or cancelled order back:
\* its stock is offered to others.
ClosedForGood ==
  [][\A o \in Orders : order[o] \in {"EXPIRED", "CANCELLED"} => order'[o] = order[o]]_vars

\* A successful payment stays successful, whatever is uploaded, reviewed or
\* called back later.
SuccessIsFinal ==
  [][\A p \in Payments : payStatus[p] = "SUCCESS" => payStatus'[p] = "SUCCESS"]_vars

\* A reservation that was not paid in time ends.
ReservationsEnd ==
  \A o \in Orders :
    order[o] = "AWAITING_PAYMENT" /\ o \in aged ~> order[o] # "AWAITING_PAYMENT"

\* A cart that was locked for a payment does not stay locked.
CartsUnlocked ==
  \A u \in Users : cart[u].locked > 0 ~> cart[u].locked = 0

(***************************************************************************)
(* What comments of the source say, and its runs refute.                   *)
(***************************************************************************)

\* "Only the orders that are still being paid" expire.  The job saves what
\* it read, also when the payment was verified in the meantime.
OnlyUnpaidExpire ==
  [][\A o \in Orders : order'[o] = "EXPIRED" /\ order[o] # "EXPIRED"
                        => order[o] \in {"AWAITING_PAYMENT", "PAYMENT_FAILED"}]_vars

\* Code 101 is answered as "verified before".  After a verification whose
\* transaction was lost, no payment, invoice or order says so.
AlreadyVerifiedRecorded ==
  [][\A s \in Sessions : CommitAlreadyVerified(s)
                          => payStatus[tx[s].pay] \in {"SUCCESS", "VERIFIED"}]_vars
=============================================================================
