--------------------------- MODULE WatchedFulfilment ---------------------------
(***************************************************************************)
(* Fulfilment with what explains units that were returned twice and a      *)
(* payment that says something else than its order.                        *)
(***************************************************************************)
EXTENDS Fulfilment

CONSTANT MaxOrderings      \* bound: how many requests are made

VARIABLES
  orderings,     \* how many requests there have been
  together,      \* two transactions of the order were in progress together
  reopened,      \* a status that lets units be returned came after their return
  lastOp         \* the operation that last changed the status

fulfilmentWatch == << orderings, together, reopened, lastOp >>

\* Statuses from which an order may come to have its units returned.
Returnable == {"processing", "preparing", "shipping", "delivered", "not_delivered"}

WatchedFulfilmentInit ==
  /\ FulfilmentInit
  /\ orderings = 0 /\ together = FALSE /\ reopened = FALSE /\ lastOp = "update"

WatchedFulfilmentNext ==
  /\ \/ orderings < MaxOrderings /\ orderings' = orderings + 1 /\ \E c \in Packers : OrderDesk(c)
     \/ UNCHANGED orderings /\ \E c \in Packers : EndsOrder(c)
  /\ together' = (together \/ \E c, d \in Packers :
                                 c # d /\ packing'[c] # NoPacking /\ packing'[d] # NoPacking)
  /\ reopened' = (reopened \/ (returned' > 0 /\ parcel' # parcel /\ parcel' \in Returnable))
  /\ lastOp' = IF \E c \in Packers : packing'[c] # packing[c] /\ packing[c] # NoPacking /\ parcel' # parcel
               THEN packing[CHOOSE c \in Packers : packing'[c] # packing[c]].op ELSE lastOp

WatchedFulfilmentSpec ==
  WatchedFulfilmentInit /\ [][WatchedFulfilmentNext]_<< fulfilmentVars, fulfilmentWatch >>

\* The units of an order are returned at most once, unless two transactions
\* overlapped (nothing locks the order) or an administrator put an order whose
\* units are back in a status from which it can be cancelled or refunded again;
\* and after updateStatus the payment says what that status means, unless
\* transactions overlapped.
OrdersSettled ==
  /\ ~together /\ ~reopened => returned <= 1
  /\ ~together /\ lastOp = "update" /\ parcel # "gone" =>
       PaymentAfter(parcel, paid).status = paid.status

=============================================================================
