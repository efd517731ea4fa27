------------------------------ MODULE Fulfilment ------------------------------
(***************************************************************************)
(* What administrators do with an order that has been paid, or whose       *)
(* transfer they are to confirm: its status, the latest payment, and the   *)
(* units it took from the stock.  Every operation is a transaction that    *)
(* reads the order unlocked and saves what differs from what it has read;  *)
(* the stock is incremented in place.  How an order gets here is Checkout. *)
(***************************************************************************)
EXTENDS Naturals

CONSTANT Packers           \* transactions in progress at once

VARIABLES
  parcel,        \* the status of the order, "gone" when its row is deleted
  paid,          \* its latest payment: status and cardToCardStatus
  reference,     \* paymentGatewayRef has been entered
  returned,      \* how many times its units were put back
  packing        \* what each transaction has read and will write

fulfilmentVars == << parcel, paid, reference, returned, packing >>

OrderStatuses ==
  { "pending_approval", "awaiting_payment", "payment_confirmation_pending", "processing", "preparing",
    "shipping", "delivered", "not_delivered", "expired", "rejected", "refunded", "payment_failed",
    "cancelled", "start_order" }

Payments ==
  [status : {"pending", "in_progress", "success", "failed", "cancelled", "verified", "refunded"},
   transfer : {"null", "pending", "uploaded", "approved", "rejected"}]
Money(status, transfer) == [status |-> status, transfer |-> transfer]

NoPacking == [op |-> "none"]

FulfilmentInit ==
  /\ \/ parcel = "payment_confirmation_pending" /\ paid = Money("pending", "uploaded")
     \/ parcel = "preparing" /\ paid \in {Money("success", "null"), Money("success", "approved")}
  /\ reference = FALSE /\ returned = 0
  /\ packing = [c \in Packers |-> NoPacking]

-----------------------------------------------------------------------------
\* The reads.

Opens(c, op, to) ==
  /\ packing[c] = NoPacking /\ parcel # "gone"
  /\ packing' = [packing EXCEPT ![c] = [op |-> op, to |-> to, saw |-> parcel, sawPaid |-> paid]]
  /\ UNCHANGED << parcel, paid, reference, returned >>

UpdateOrderStatus(c, status) == Opens(c, "update", status)
RemoveOrder(c) == Opens(c, "remove", "gone")
MarkAsDelivered(c) == parcel = "shipping" /\ Opens(c, "deliver", "delivered")
AwaitPayment(c) == Opens(c, "await", "awaiting_payment")

CancelOrder(c) ==
  /\ parcel \in {"awaiting_payment", "payment_confirmation_pending", "processing", "preparing"}
  /\ Opens(c, "cancel", "cancelled")

\* Mutant of RefundOrder: the status is not asked for.
RefundAny(c) == Opens(c, "refund", "refunded")

RefundOrder(c) == parcel \in {"delivered", "not_delivered"} /\ Opens(c, "refund", "refunded")

UpdatePaymentRef(c) ==
  /\ parcel \notin {"start_order", "awaiting_payment", "payment_confirmation_pending", "processing",
                    "expired", "cancelled"}
  /\ Opens(c, "refer", parcel)

-----------------------------------------------------------------------------
\* The writes and the commit.

\* What updateStatus makes of the payment.  (It assigns the invoice a status
\* too, but never saves it.)
PaymentAfter(status, payment) ==
  CASE status = "payment_confirmation_pending" -> Money("pending", "uploaded")
    [] status \in {"preparing", "delivered"} -> Money("success", "approved")
    [] status \in {"cancelled", "expired", "not_delivered"} -> Money("failed", "rejected")
    [] status = "refunded" -> Money("refunded", "rejected")
    [] OTHER -> payment

\* save: the columns that differ from what was read; of a deleted row, none.
SavedPayment(c) ==
  LET read == packing[c].sawPaid
      new == IF packing[c].op = "update" THEN PaymentAfter(packing[c].to, read) ELSE read
  IN  Money(IF new.status = read.status THEN paid.status ELSE new.status,
            IF new.transfer = read.transfer THEN paid.transfer ELSE new.transfer)
SavedStatus(c) == IF packing[c].to = packing[c].saw THEN parcel ELSE packing[c].to

\* returnStock.
ReturnsStock(c) ==
  \/ packing[c].op = "refund"
  \/ packing[c].op = "cancel" /\ packing[c].saw \in {"processing", "preparing"}

CommitOrder(c) ==
  /\ packing[c] # NoPacking
  /\ returned' = IF ReturnsStock(c) THEN returned + 1 ELSE returned
  /\ IF parcel = "gone" THEN UNCHANGED << parcel, paid, reference >>
     ELSE /\ parcel' = SavedStatus(c)
          /\ paid' = SavedPayment(c)
          /\ reference' = (reference \/ packing[c].op = "refer")
  /\ packing' = [packing EXCEPT ![c] = NoPacking]

\* A lock wait, a deadlock, a crash: nothing is written.
AbandonOrder(c) ==
  /\ packing[c] # NoPacking
  /\ packing' = [packing EXCEPT ![c] = NoPacking]
  /\ UNCHANGED << parcel, paid, reference, returned >>

OrderDesk(c) ==
  \/ \E status \in OrderStatuses : UpdateOrderStatus(c, status)
  \/ UpdatePaymentRef(c) \/ RemoveOrder(c) \/ MarkAsDelivered(c) \/ AwaitPayment(c)
  \/ CancelOrder(c) \/ RefundOrder(c)

EndsOrder(c) == CommitOrder(c) \/ AbandonOrder(c)

FulfilmentNext == \E c \in Packers : OrderDesk(c) \/ EndsOrder(c)

FulfilmentSpec == FulfilmentInit /\ [][FulfilmentNext]_fulfilmentVars

FulfilmentTypeOK ==
  /\ parcel \in OrderStatuses \cup {"gone"} /\ paid \in Payments
  /\ reference \in BOOLEAN /\ returned \in Nat
  /\ packing \in [Packers -> {NoPacking} \cup
       [op : {"update", "remove", "deliver", "await", "cancel", "refund", "refer"},
        to : OrderStatuses \cup {"gone"}, saw : OrderStatuses, sawPaid : Payments]]

=============================================================================
