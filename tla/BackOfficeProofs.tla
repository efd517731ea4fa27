-------------------------- MODULE BackOfficeProofs --------------------------
(***************************************************************************)
(* Theorems about the back office, for any number of requests, rows and    *)
(* bounds: the orders and their transactions, the support tickets and the  *)
(* reviews, the customers with their codes and addresses, and the small    *)
(* tables.                                                                 *)
(***************************************************************************)
EXTENDS WatchedFulfilment, WatchedDesk, WatchedAccounts, WatchedRegisters,
        FiniteSetTheorems, WellFoundedInduction, TLAPS

-----------------------------------------------------------------------------
\* The orders: the units of an order are returned at most once and its payment
\* says what updateStatus made of it, unless two transactions overlapped or an
\* administrator reopened the order.

Packs(c) == packing[c] # NoPacking

\* What a transaction has read is what there is, as long as it is alone.
Alone ==
  ~together =>
    /\ \A c, d \in Packers : Packs(c) /\ Packs(d) => c = d
    /\ \A c \in Packers : Packs(c) => packing[c].saw = parcel /\ packing[c].sawPaid = paid

\* The operations that return units have read a status that lets them.
Grounds ==
  \A c \in Packers :
    /\ packing[c].op = "refund" =>
         packing[c].to = "refunded" /\ packing[c].saw \in {"delivered", "not_delivered"}
    /\ packing[c].op = "cancel" => packing[c].to = "cancelled"
    /\ packing[c].op = "update" => packing[c].to \in OrderStatuses

\* Units that are back leave the order in a status that returns none.
UnitsBack ==
  ~together /\ ~reopened => returned <= 1 /\ (returned = 1 => parcel \notin Returnable)

PaymentFits ==
  ~together /\ lastOp = "update" /\ parcel # "gone" => PaymentAfter(parcel, paid).status = paid.status

IInv ==
  /\ FulfilmentTypeOK /\ together \in BOOLEAN /\ reopened \in BOOLEAN
  /\ Alone /\ Grounds /\ UnitsBack /\ PaymentFits

-----------------------------------------------------------------------------
\* The payment of a status is of that status.
LEMMA PaymentSettles ==
  ASSUME NEW status \in OrderStatuses, NEW payment \in Payments
  PROVE  /\ PaymentAfter(status, payment) \in Payments
         /\ LET new == PaymentAfter(status, payment) IN PaymentAfter(status, new).status = new.status
  BY DEF PaymentAfter, Payments, Money, OrderStatuses

LEMMA PaymentIsMade ==
  ASSUME NEW payment \in Payments
  PROVE  Money(payment.status, payment.transfer) = payment
  BY DEF Money, Payments

LEMMA InitInvariant == WatchedFulfilmentInit => IInv
<1> SUFFICES ASSUME WatchedFulfilmentInit PROVE IInv
  OBVIOUS
<1> USE DEF WatchedFulfilmentInit, FulfilmentInit
<1>1. FulfilmentTypeOK
  <2>1. parcel \in OrderStatuses
    BY DEF OrderStatuses
  <2>2. paid \in Payments
    BY DEF Payments, Money
  <2>3. packing \in [Packers -> {NoPacking}]
    OBVIOUS
  <2> QED BY <2>1, <2>2, <2>3 DEF FulfilmentTypeOK
<1>2. Alone /\ Grounds /\ UnitsBack
  BY DEF Alone, Grounds, UnitsBack, Packs, NoPacking
<1>3. PaymentFits
  BY DEF PaymentFits, PaymentAfter, Money
<1> QED BY <1>1, <1>2, <1>3 DEF IInv

\* A step as the watch sees it.
LEMMA OpensInvariant ==
  ASSUME IInv, NEW c \in Packers, OrderDesk(c),
         together' = (together \/ \E x, y \in Packers :
                        x # y /\ packing'[x] # NoPacking /\ packing'[y] # NoPacking),
         reopened' \in BOOLEAN, reopened => reopened',
         parcel' = parcel => lastOp' = lastOp
  PROVE  IInv'
<1>1. PICK op \in {"update", "remove", "deliver", "await", "cancel", "refund", "refer"},
           to \in OrderStatuses \cup {"gone"} :
         /\ Opens(c, op, to)
         /\ op = "refund" => to = "refunded" /\ parcel \in {"delivered", "not_delivered"}
         /\ op = "cancel" => to = "cancelled"
         /\ op = "update" => to \in OrderStatuses
  <2>1. parcel \in OrderStatuses \cup {"gone"}
    BY DEF IInv, FulfilmentTypeOK
  <2>2. CASE \E status \in OrderStatuses : UpdateOrderStatus(c, status)
    BY <2>2 DEF UpdateOrderStatus
  <2>3. CASE UpdatePaymentRef(c)
    BY <2>1, <2>3 DEF UpdatePaymentRef
  <2>4. CASE RemoveOrder(c)
    BY <2>4 DEF RemoveOrder
  <2>5. CASE MarkAsDelivered(c)
    BY <2>5 DEF MarkAsDelivered, OrderStatuses
  <2>6. CASE AwaitPayment(c)
    BY <2>6 DEF AwaitPayment, OrderStatuses
  <2>7. CASE CancelOrder(c)
    BY <2>7 DEF CancelOrder, OrderStatuses
  <2>8. CASE RefundOrder(c)
    BY <2>8 DEF RefundOrder, OrderStatuses
  <2> QED BY <2>2, <2>3, <2>4, <2>5, <2>6, <2>7, <2>8 DEF OrderDesk
<1> DEFINE next == [op |-> op, to |-> to, saw |-> parcel, sawPaid |-> paid]
<1>2. /\ packing[c] = NoPacking /\ parcel # "gone"
      /\ packing' = [packing EXCEPT ![c] = next]
      /\ UNCHANGED << parcel, paid, reference, returned >>
  BY <1>1 DEF Opens
<1>3. \A d \in Packers : packing'[d] = IF d = c THEN next ELSE packing[d]
  BY <1>2 DEF IInv, FulfilmentTypeOK
<1>4. FulfilmentTypeOK'
  BY <1>2 DEF IInv, FulfilmentTypeOK
<1>5. Alone'
  <2> SUFFICES ASSUME ~together' PROVE /\ \A x, y \in Packers : Packs(x)' /\ Packs(y)' => x = y
                                       /\ \A d \in Packers : Packs(d)' =>
                                            /\ packing'[d].saw = parcel'
                                            /\ packing'[d].sawPaid = paid'
    BY DEF Alone
  <2>1. ~together
    BY DEF IInv
  <2>2. \A x, y \in Packers : Packs(x)' /\ Packs(y)' => x = y
    BY DEF Packs, IInv
  <2>3. ASSUME NEW d \in Packers, Packs(d)'
        PROVE  packing'[d].saw = parcel' /\ packing'[d].sawPaid = paid'
    BY <2>1, <2>3, <1>2, <1>3 DEF Packs, IInv, Alone
  <2> QED BY <2>2, <2>3
<1>6. Grounds'
  BY <1>1, <1>3 DEF Grounds, IInv
<1>7. UnitsBack' /\ PaymentFits'
  BY <1>2 DEF UnitsBack, PaymentFits, IInv
<1> QED BY <1>4, <1>5, <1>6, <1>7 DEF IInv

LEMMA CommitInvariant ==
  ASSUME IInv, NEW c \in Packers, CommitOrder(c),
         together' = (together \/ \E x, y \in Packers :
                        x # y /\ packing'[x] # NoPacking /\ packing'[y] # NoPacking),
         reopened' = (reopened \/ (returned' > 0 /\ parcel' # parcel /\ parcel' \in Returnable)),
         lastOp' = IF parcel' # parcel THEN packing[c].op ELSE lastOp
  PROVE  IInv'
<1> DEFINE p == packing[c]
<1>1. /\ p # NoPacking
      /\ p.op \in {"update", "remove", "deliver", "await", "cancel", "refund", "refer"}
      /\ p.to \in OrderStatuses \cup {"gone"} /\ p.saw \in OrderStatuses /\ p.sawPaid \in Payments
      /\ paid \in Payments /\ parcel \in OrderStatuses \cup {"gone"} /\ returned \in Nat
  BY DEF CommitOrder, IInv, FulfilmentTypeOK
<1>2. \A d \in Packers : packing'[d] = IF d = c THEN NoPacking ELSE packing[d]
  BY DEF CommitOrder, IInv, FulfilmentTypeOK
<1>3. FulfilmentTypeOK'
  <2>1. packing' \in [Packers -> {NoPacking} \cup
          [op : {"update", "remove", "deliver", "await", "cancel", "refund", "refer"},
           to : OrderStatuses \cup {"gone"}, saw : OrderStatuses, sawPaid : Payments]]
    BY DEF CommitOrder, IInv, FulfilmentTypeOK
  <2>2. p.op = "update" => p.to \in OrderStatuses
    BY DEF IInv, Grounds
  <2>3. SavedPayment(c) \in Payments
    <3> DEFINE new == IF p.op = "update" THEN PaymentAfter(p.to, p.sawPaid) ELSE p.sawPaid
    <3>1. new \in Payments
      BY <1>1, <2>2, PaymentSettles
    <3>2. SavedPayment(c) = Money(IF new.status = p.sawPaid.status THEN paid.status ELSE new.status,
                                  IF new.transfer = p.sawPaid.transfer THEN paid.transfer ELSE new.transfer)
      BY DEF SavedPayment
    <3> HIDE DEF new
    <3> QED BY <3>1, <3>2, <1>1 DEF Money, Payments
  <2>4. SavedStatus(c) \in OrderStatuses \cup {"gone"}
    BY <1>1 DEF SavedStatus
  <2>5. parcel' \in OrderStatuses \cup {"gone"} /\ paid' \in Payments /\ reference' \in BOOLEAN
    BY <2>3, <2>4 DEF CommitOrder, IInv, FulfilmentTypeOK
  <2>6. returned' \in Nat
    BY <1>1 DEF CommitOrder
  <2> QED BY <2>1, <2>5, <2>6 DEF FulfilmentTypeOK
<1>4. Grounds'
  BY <1>2 DEF Grounds, IInv, NoPacking
<1>5. ASSUME ~together'
      PROVE  /\ ~together
             /\ p.saw = parcel /\ p.sawPaid = paid /\ parcel # "gone"
             /\ \A d \in Packers : packing'[d] = NoPacking
             /\ parcel' = p.to
             /\ paid' = IF p.op = "update" THEN PaymentAfter(p.to, paid) ELSE paid
  <2>1. ~together
    BY <1>5 DEF IInv
  <2>2. p.saw = parcel /\ p.sawPaid = paid /\ parcel # "gone"
    BY <2>1, <1>1 DEF IInv, Alone, Packs, OrderStatuses
  <2>3. \A d \in Packers : packing'[d] = NoPacking
    BY <2>1, <1>1, <1>2 DEF IInv, Alone, Packs
  <2>4. parcel' = p.to
    BY <2>2 DEF CommitOrder, SavedStatus
  <2>5. paid' = IF p.op = "update" THEN PaymentAfter(p.to, paid) ELSE paid
    <3> DEFINE new == IF p.op = "update" THEN PaymentAfter(p.to, paid) ELSE paid
    <3>1. new \in Payments
      BY <1>1, PaymentSettles DEF IInv, Grounds
    <3>2. paid' = Money(IF new.status = paid.status THEN paid.status ELSE new.status,
                        IF new.transfer = paid.transfer THEN paid.transfer ELSE new.transfer)
      BY <2>2 DEF CommitOrder, SavedPayment
    <3> HIDE DEF new
    <3>3. paid' = Money(new.status, new.transfer)
      BY <3>2
    <3>4. paid' = new
      BY <3>1, <3>3, PaymentIsMade
    <3> QED BY <3>4 DEF new
  <2> QED BY <2>1, <2>2, <2>3, <2>4, <2>5
<1>6. Alone'
  BY <1>5 DEF Alone, Packs
<1>7. UnitsBack'
  <2> SUFFICES ASSUME ~together', ~reopened'
               PROVE  returned' <= 1 /\ (returned' = 1 => parcel' \notin Returnable)
    BY DEF UnitsBack
  <2>1. /\ ~reopened
        /\ returned <= 1 /\ (returned = 1 => parcel \notin Returnable)
        /\ p.saw = parcel /\ parcel' = p.to
    BY <1>5 DEF IInv, UnitsBack
  <2>2. CASE ReturnsStock(c)
    <3>1. parcel \in Returnable
      BY <2>1, <2>2 DEF ReturnsStock, Returnable, IInv, Grounds
    <3>2. returned' = 1
      BY <3>1, <2>1, <2>2, <1>1 DEF CommitOrder
    <3>3. parcel' \in {"cancelled", "refunded"}
      BY <2>1, <2>2 DEF ReturnsStock, IInv, Grounds
    <3> QED BY <3>2, <3>3 DEF Returnable
  <2>3. CASE ~ReturnsStock(c)
    <3>1. returned' = returned
      BY <2>3 DEF CommitOrder
    <3>2. returned' > 0 => parcel' = parcel \/ parcel' \notin Returnable
      OBVIOUS
    <3> QED BY <3>1, <3>2, <2>1, <1>1
  <2> QED BY <2>2, <2>3
<1>8. PaymentFits'
  <2> SUFFICES ASSUME ~together', lastOp' = "update", parcel' # "gone"
               PROVE  PaymentAfter(parcel', paid').status = paid'.status
    BY DEF PaymentFits
  <2>1. CASE p.op = "update"
    BY <2>1, <1>1, <1>5, PaymentSettles DEF IInv, Grounds
  <2>2. CASE p.op # "update"
    <3>1. parcel' = parcel /\ lastOp = "update" /\ paid' = paid
      BY <2>2, <1>5
    <3> QED BY <3>1, <1>5 DEF IInv, PaymentFits
  <2> QED BY <2>1, <2>2
<1>9. together' \in BOOLEAN /\ reopened' \in BOOLEAN
  OBVIOUS
<1> QED BY <1>3, <1>4, <1>6, <1>7, <1>8, <1>9 DEF IInv

LEMMA NextInvariant ==
  IInv /\ [WatchedFulfilmentNext]_<< fulfilmentVars, fulfilmentWatch >> => IInv'
<1> SUFFICES ASSUME IInv, [WatchedFulfilmentNext]_<< fulfilmentVars, fulfilmentWatch >> PROVE IInv'
  OBVIOUS
<1>1. ASSUME WatchedFulfilmentNext PROVE IInv'
  <2>0. /\ together' = (together \/ \E c, d \in Packers :
                          c # d /\ packing'[c] # NoPacking /\ packing'[d] # NoPacking)
        /\ reopened' = (reopened \/ (returned' > 0 /\ parcel' # parcel /\ parcel' \in Returnable))
        /\ lastOp' = IF \E c \in Packers :
                          packing'[c] # packing[c] /\ packing[c] # NoPacking /\ parcel' # parcel
                     THEN packing[CHOOSE c \in Packers : packing'[c] # packing[c]].op ELSE lastOp
    BY <1>1 DEF WatchedFulfilmentNext
  <2>1. ASSUME NEW c \in Packers, OrderDesk(c) PROVE IInv'
    <3>1. reopened' \in BOOLEAN /\ (reopened => reopened')
      BY <2>0 DEF IInv
    <3>2. parcel' = parcel => lastOp' = lastOp
      BY <2>0
    <3> QED BY <3>1, <3>2, <2>0, <2>1, OpensInvariant
  <2>2. ASSUME NEW c \in Packers, CommitOrder(c) PROVE IInv'
    <3>1. /\ packing'[c] = NoPacking /\ packing[c] # NoPacking
          /\ \A d \in Packers : packing'[d] # packing[d] => d = c
      BY <2>2 DEF CommitOrder, IInv, FulfilmentTypeOK
    <3>2. (CHOOSE d \in Packers : packing'[d] # packing[d]) = c
      BY <3>1
    <3>3. lastOp' = IF parcel' # parcel THEN packing[c].op ELSE lastOp
      BY <2>0, <3>1, <3>2
    <3> QED BY <3>3, <2>0, <2>2, CommitInvariant
  <2>3. ASSUME NEW c \in Packers, AbandonOrder(c) PROVE IInv'
    <3>1. \A d \in Packers : packing'[d] = IF d = c THEN NoPacking ELSE packing[d]
      BY <2>3 DEF AbandonOrder, IInv, FulfilmentTypeOK
    <3>2. UNCHANGED << parcel, paid, reference, returned >>
      BY <2>3 DEF AbandonOrder
    <3>3. (together => together') /\ together' \in BOOLEAN /\ reopened' = reopened /\ lastOp' = lastOp
      BY <2>0, <3>2 DEF IInv
    <3>4. FulfilmentTypeOK'
      BY <2>3, <3>2 DEF AbandonOrder, IInv, FulfilmentTypeOK
    <3>5. Alone'
      BY <3>1, <3>2, <3>3 DEF IInv, Alone, Packs
    <3>6. Grounds'
      BY <3>1 DEF IInv, Grounds, NoPacking
    <3>7. UnitsBack' /\ PaymentFits'
      BY <3>2, <3>3 DEF IInv, UnitsBack, PaymentFits
    <3> QED BY <3>3, <3>4, <3>5, <3>6, <3>7 DEF IInv
  <2> QED BY <1>1, <2>1, <2>2, <2>3 DEF WatchedFulfilmentNext, EndsOrder
<1>2. ASSUME UNCHANGED << fulfilmentVars, fulfilmentWatch >> PROVE IInv'
  BY <1>2 DEF fulfilmentVars, fulfilmentWatch, IInv, FulfilmentTypeOK, Alone, Grounds, UnitsBack,
     PaymentFits, Packs
<1> QED BY <1>1, <1>2

\* The row of an order, its payment and what a transaction has read of them keep
\* their types.
THEOREM FulfilmentTyping == WatchedFulfilmentSpec => []FulfilmentTypeOK
<1>1. IInv => FulfilmentTypeOK
  BY DEF IInv
<1> QED BY <1>1, InitInvariant, NextInvariant, PTL DEF WatchedFulfilmentSpec

\* Units go back to the stock once, whatever administrators do to the order one
\* after the other, as long as they do not reopen it; and the latest payment
\* says what the status they gave the order means.
THEOREM OrdersStaySettled == WatchedFulfilmentSpec => []OrdersSettled
<1>1. IInv => OrdersSettled
  BY DEF IInv, UnitsBack, PaymentFits, OrdersSettled
<1> QED BY <1>1, InitInvariant, NextInvariant, PTL DEF WatchedFulfilmentSpec

-----------------------------------------------------------------------------
\* The support tickets and the reviews.

Jobs ==
  {NoVisit} \cup [step : {"message", "status"}, by : {"user", "staff"}, saw : Statuses]
            \cup [step : {"close"}] \cup [step : {"edit", "judge"}, row : Reviews]

\* The requests that are in progress about the ticket or the review.
Concerns(c, what) == what \in About(visit[c].step)

\* What is typed, and whose the messages are that are not committed.
DeskTyped ==
  /\ ticket \in Statuses \cup {"none"} /\ messages \subseteq Messages
  /\ lastMessage \in 0 .. MaxMessages /\ review \subseteq Reviews
  /\ visit \in [Clerks -> Jobs]
  /\ collided \subseteq {"ticket", "review"}
  /\ \A m \in messages : m.id <= lastMessage
  /\ \A m \in messages : m.of = {} \/ \E c \in Clerks : m.of = {c} /\ visit[c].step = "status"
  /\ ticket = "none" => messages = {} /\ \A c \in Clerks : ~Concerns(c, "ticket")

\* As long as no two requests of the ticket overlap, each goes by the status
\* that is stored, and its message is the last.
TicketAlone ==
  "ticket" \notin collided =>
    /\ \A c, d \in Clerks : Concerns(c, "ticket") /\ Concerns(d, "ticket") => c = d
    /\ \A m, n \in messages : m.id = n.id => m = n
    /\ \A c \in Clerks : visit[c].step \in {"message", "status"} => visit[c].saw = ticket
    /\ \A c \in Clerks : visit[c].step = "status" =>
         \E m \in messages : m.id = lastMessage /\ m.of = {c} /\ m.by = visit[c].by
    /\ ticket # "closed" => \A m \in LastSeen : ticket = "answered" <=> m.by = "staff"

\* Likewise a request about the review goes by the row that is stored.
ReviewAlone ==
  "review" \notin collided =>
    /\ \A c, d \in Clerks : Concerns(c, "review") /\ Concerns(d, "review") => c = d
    /\ \A r, s \in review : r = s
    /\ \A c \in Clerks : visit[c].step = "edit" =>
         \E r \in review : visit[c].row = [r EXCEPT !.text = visit[c].row.text]
    /\ \A c \in Clerks : visit[c].step = "judge" =>
         \E r \in review : visit[c].row = [r EXCEPT !.approved = visit[c].row.approved]
    /\ review = wanted

DeskInv == DeskTyped /\ TicketAlone /\ ReviewAlone

-----------------------------------------------------------------------------
LEMMA CollisionsRemembered ==
  ASSUME DeskInv, visit' \in [Clerks -> Jobs], NEW c \in Clerks, WatchesDesk(c)
  PROVE  /\ collided \subseteq collided' /\ collided' \subseteq {"ticket", "review"}
         /\ \A what \in {"ticket", "review"} : what \notin collided' =>
              \A d, e \in Clerks : Concerns(d, what)' /\ Concerns(e, what)' => d = e
         /\ "review" \notin collided' /\ review' # review =>
              \A d \in Clerks : ~Concerns(d, "review")'
<1>1. collided' = collided \cup Pulled \cup Shared'
  BY DEF WatchesDesk
<1>2. \A x \in Shared' : x \in {"ticket", "review"}
  BY DEF Shared, About
<1>3. \A x \in Pulled : x \in {"ticket", "review"}
  BY DEF Pulled
<1>4. collided \subseteq collided' /\ collided' \subseteq {"ticket", "review"}
  BY <1>1, <1>2, <1>3 DEF DeskInv, DeskTyped
<1>5. ASSUME NEW what \in {"ticket", "review"}, what \notin collided',
             NEW d \in Clerks, NEW e \in Clerks, Concerns(d, what)', Concerns(e, what)', d # e
      PROVE  FALSE
  <2>1. << d, e >> \in { x \in Clerks \X Clerks : x[1] # x[2] }
    BY <1>5
  <2>2. what \in (About(visit'[d].step) \cap About(visit'[e].step))
    BY <1>5 DEF Concerns
  <2>3. what \in Shared'
    BY <2>1, <2>2 DEF Shared
  <2> QED BY <2>3, <1>1, <1>5
<1>6. ASSUME "review" \notin collided', review' # review, NEW d \in Clerks, Concerns(d, "review")'
      PROVE  FALSE
  <2>1. "review" \in Pulled
    BY <1>6 DEF Pulled, Concerns
  <2> QED BY <2>1, <1>1, <1>6
<1> QED BY <1>4, <1>5, <1>6

\* A request that is not about the ticket leaves what holds of it.
LEMMA TicketLeft ==
  ASSUME DeskInv, NEW c \in Clerks, WatchesDesk(c), visit' \in [Clerks -> Jobs],
         UNCHANGED << ticket, messages, lastMessage >>,
         \A d \in Clerks : visit'[d].step \in {"message", "status"} => visit'[d] = visit[d]
  PROVE  TicketAlone'
<1> SUFFICES ASSUME "ticket" \notin collided' PROVE TicketAlone'
  BY DEF TicketAlone
<1>1. /\ "ticket" \notin collided
      /\ \A d, e \in Clerks : Concerns(d, "ticket")' /\ Concerns(e, "ticket")' => d = e
  BY CollisionsRemembered
<1>2. ticket' = ticket /\ messages' = messages /\ lastMessage' = lastMessage
  OBVIOUS
<1>3. LastSeen' = LastSeen
  BY <1>2 DEF LastSeen
<1>4. \A d \in Clerks : visit'[d].step \in {"message", "status"} => visit'[d].saw = ticket'
  BY <1>1, <1>2 DEF DeskInv, TicketAlone
<1>5. \A d \in Clerks : visit'[d].step = "status" =>
        \E m \in messages' : m.id = lastMessage' /\ m.of = {d} /\ m.by = visit'[d].by
  <2> SUFFICES ASSUME NEW d \in Clerks, visit'[d].step = "status"
               PROVE  \E m \in messages : m.id = lastMessage /\ m.of = {d} /\ m.by = visit'[d].by
    BY <1>2
  <2>1. visit'[d] = visit[d] /\ visit[d].step = "status"
    OBVIOUS
  <2> QED BY <2>1, <1>1 DEF DeskInv, TicketAlone
<1>6. \A m, n \in messages' : m.id = n.id => m = n
  BY <1>1, <1>2 DEF DeskInv, TicketAlone
<1>7. ticket' # "closed" => \A m \in LastSeen' : ticket' = "answered" <=> m.by = "staff"
  BY <1>1, <1>2, <1>3 DEF DeskInv, TicketAlone
<1> QED BY <1>1, <1>4, <1>5, <1>6, <1>7 DEF TicketAlone

LEMMA ReviewLeft ==
  ASSUME DeskInv, NEW c \in Clerks, WatchesDesk(c), visit' \in [Clerks -> Jobs],
         UNCHANGED review,
         \A d \in Clerks : visit'[d].step \in {"edit", "judge"} => visit'[d] = visit[d]
  PROVE  ReviewAlone'
<1>1. /\ collided \subseteq collided'
      /\ "review" \notin collided' =>
           \A d, e \in Clerks : Concerns(d, "review")' /\ Concerns(e, "review")' => d = e
  BY CollisionsRemembered
<1>2. wanted' = wanted
  BY DEF WatchesDesk
<1> QED BY <1>1, <1>2 DEF DeskInv, ReviewAlone

LEMMA NextVisit ==
  ASSUME DeskTyped, NEW c \in Clerks, NEW job \in Jobs, visit' = [visit EXCEPT ![c] = job]
  PROVE  /\ visit' \in [Clerks -> Jobs]
         /\ \A d \in Clerks : visit'[d] = IF d = c THEN job ELSE visit[d]
  BY DEF DeskTyped

-----------------------------------------------------------------------------
LEMMA CreateSupportKeeps ==
  ASSUME DeskInv, NEW c \in Clerks, WatchesDesk(c), CreateSupport(c)
  PROVE  DeskInv'
<1>1. /\ ticket = "none" /\ ticket' = "open" /\ messages' = {[id |-> 1, by |-> "user", of |-> {}]}
      /\ lastMessage' = 1 /\ review' = review /\ visit' = visit
  BY DEF CreateSupport
<1>2. visit' \in [Clerks -> Jobs]
  BY <1>1 DEF DeskInv, DeskTyped
<1>3. \A d \in Clerks : visit[d].step \notin {"message", "status", "close"}
  BY <1>1 DEF DeskInv, DeskTyped, Concerns, About
<1>4. DeskTyped'
  <2>1. [id |-> 1, by |-> "user", of |-> {}] \in Messages
    BY DeskAssumption DEF Messages
  <2> QED BY <1>1, <1>2, <2>1, CollisionsRemembered, DeskAssumption DEF DeskInv, DeskTyped, Statuses
<1>5. TicketAlone'
  BY <1>1, <1>2, <1>3, CollisionsRemembered DEF TicketAlone, LastSeen
<1>6. ReviewAlone'
  BY <1>1, <1>2, ReviewLeft
<1> QED BY <1>4, <1>5, <1>6 DEF DeskInv

LEMMA ReadTicketKeeps ==
  ASSUME DeskInv, NEW c \in Clerks, WatchesDesk(c), NEW by \in {"user", "staff"}, ReadTicket(c, by)
  PROVE  DeskInv'
<1> DEFINE job == [step |-> "message", by |-> by, saw |-> ticket]
<1>1. /\ ticket # "none" /\ visit[c] = NoVisit /\ visit' = [visit EXCEPT ![c] = job]
      /\ UNCHANGED << ticket, messages, lastMessage, review >>
  BY DEF ReadTicket, Enters
<1>2. job \in Jobs
  BY <1>1 DEF Jobs, DeskInv, DeskTyped
<1>3. /\ visit' \in [Clerks -> Jobs]
      /\ \A d \in Clerks : visit'[d] = IF d = c THEN job ELSE visit[d]
  BY <1>1, <1>2, NextVisit DEF DeskInv
<1>4. DeskTyped'
  BY <1>1, <1>3, CollisionsRemembered DEF DeskInv, DeskTyped, NoVisit
<1>5. TicketAlone'
  BY <1>1, <1>3, CollisionsRemembered DEF DeskInv, TicketAlone, LastSeen
<1>6. ReviewAlone'
  BY <1>1, <1>3, ReviewLeft
<1> QED BY <1>4, <1>5, <1>6 DEF DeskInv

LEMMA InsertMessageKeeps ==
  ASSUME DeskInv, NEW c \in Clerks, WatchesDesk(c), InsertMessage(c)
  PROVE  DeskInv'
<1> DEFINE job == [visit[c] EXCEPT !.step = "status"]
           row == [id |-> lastMessage + 1, by |-> visit[c].by, of |-> {c}]
<1>1. /\ visit[c].step = "message" /\ lastMessage < MaxMessages
      /\ messages' = messages \cup {row} /\ lastMessage' = lastMessage + 1
      /\ visit' = [visit EXCEPT ![c] = job]
      /\ UNCHANGED << ticket, review >>
  BY DEF InsertMessage
<1>2. /\ visit[c] \in [step : {"message", "status"}, by : {"user", "staff"}, saw : Statuses]
      /\ lastMessage \in Nat
  BY <1>1 DEF DeskInv, DeskTyped, Jobs, NoVisit
<1>3. job \in Jobs /\ job.step = "status" /\ job.by = visit[c].by /\ job.saw = visit[c].saw
  BY <1>2 DEF Jobs
<1>4. row \in Messages /\ row.id = lastMessage + 1 /\ row.of = {c} /\ row.by = visit[c].by
  BY <1>1, <1>2, DeskAssumption DEF Messages
<1> HIDE DEF job, row
<1>5. /\ visit' \in [Clerks -> Jobs]
      /\ \A d \in Clerks : visit'[d] = IF d = c THEN job ELSE visit[d]
  BY <1>1, <1>3, NextVisit DEF DeskInv
<1>6. DeskTyped'
  <2>1. ticket # "none"
    BY <1>1 DEF DeskInv, DeskTyped, Concerns, About
  <2>2. \A m \in messages' : m.id <= lastMessage'
    BY <1>1, <1>2, <1>4 DEF DeskInv, DeskTyped, Messages
  <2>3. \A m \in messages' : m.of = {} \/ \E d \in Clerks : m.of = {d} /\ visit'[d].step = "status"
    BY <1>1, <1>3, <1>4, <1>5 DEF DeskInv, DeskTyped
  <2>4. lastMessage' \in 0 .. MaxMessages
    BY <1>1, <1>2, DeskAssumption
  <2>5. messages' \subseteq Messages
    BY <1>1, <1>4 DEF DeskInv, DeskTyped
  <2>6. collided' \subseteq {"ticket", "review"}
    BY <1>5, CollisionsRemembered
  <2> QED BY <1>1, <1>5, <2>1, <2>2, <2>3, <2>4, <2>5, <2>6 DEF DeskInv, DeskTyped
<1>7. TicketAlone'
  <2> SUFFICES ASSUME "ticket" \notin collided' PROVE TicketAlone'
    BY DEF TicketAlone
  <2>1. "ticket" \notin collided
    BY <1>5, CollisionsRemembered
  <2>2. \A d \in Clerks : d # c => visit[d].step \notin {"message", "status"}
    BY <2>1, <1>1 DEF DeskInv, TicketAlone, Concerns, About
  <2>3. \A d, e \in Clerks : Concerns(d, "ticket")' /\ Concerns(e, "ticket")' => d = e
    BY <1>5, CollisionsRemembered
  <2>4. \A m, n \in messages' : m.id = n.id => m = n
    BY <2>1, <1>1, <1>2, <1>4 DEF DeskInv, DeskTyped, TicketAlone, Messages
  <2>5. LastSeen' = LastSeen
    BY <1>1, <1>4 DEF LastSeen
  <2>6. \A d \in Clerks : visit'[d].step \in {"message", "status"} => visit'[d].saw = ticket'
    BY <2>1, <2>2, <1>1, <1>3, <1>5 DEF DeskInv, TicketAlone
  <2>7. \A d \in Clerks : visit'[d].step = "status" =>
          \E m \in messages' : m.id = lastMessage' /\ m.of = {d} /\ m.by = visit'[d].by
    BY <2>2, <1>1, <1>3, <1>4, <1>5
  <2> QED BY <2>1, <2>3, <2>4, <2>5, <2>6, <2>7, <1>1 DEF DeskInv, TicketAlone
<1>8. ReviewAlone'
  BY <1>1, <1>3, <1>5, ReviewLeft
<1> QED BY <1>6, <1>7, <1>8 DEF DeskInv
LEMMA SaveStatusKeeps ==
  ASSUME DeskInv, NEW c \in Clerks, WatchesDesk(c), SaveStatus(c)
  PROVE  DeskInv'
<1> DEFINE status == StatusAfter(visit[c].by, visit[c].saw)
           Seen(m) == IF m.of = {c} THEN [m EXCEPT !.of = {}] ELSE m
<1>1. /\ visit[c].step = "status"
      /\ ticket' = ticket \/ ticket' = status
      /\ status = visit[c].saw => ticket' = ticket
      /\ status # visit[c].saw => ticket' = status
      /\ messages' = { Seen(m) : m \in messages }
      /\ visit' = [visit EXCEPT ![c] = NoVisit]
      /\ lastMessage' = lastMessage /\ review' = review
  BY DEF SaveStatus, Committed, Leaves
<1>2. visit[c] \in [step : {"message", "status"}, by : {"user", "staff"}, saw : Statuses]
  BY <1>1 DEF DeskInv, DeskTyped, Jobs, NoVisit
<1>3. /\ status \in Statuses /\ status # "closed"
      /\ status = "answered" <=> visit[c].by = "staff"
  BY <1>2 DEF StatusAfter, AddMessageByUser, AdminReply, Statuses
<1>4. /\ visit' \in [Clerks -> Jobs]
      /\ \A d \in Clerks : visit'[d] = IF d = c THEN NoVisit ELSE visit[d]
  BY <1>1, NextVisit DEF DeskInv, Jobs
<1>5. NoVisit.step = "none"
  BY DEF NoVisit
<1>6. \A m \in messages :
        /\ Seen(m) \in Messages /\ Seen(m).id = m.id /\ Seen(m).by = m.by
        /\ Seen(m).of = IF m.of = {c} THEN {} ELSE m.of
  BY DEF DeskInv, DeskTyped, Messages
<1> HIDE DEF status, Seen
<1>7. \A n \in messages' : \E m \in messages : n = Seen(m)
  BY <1>1
<1>8. DeskTyped'
  <2>1. ticket # "none"
    BY <1>1 DEF DeskInv, DeskTyped, Concerns, About
  <2>2. \A n \in messages' : n \in Messages /\ n.id <= lastMessage'
    BY <1>1, <1>6, <1>7 DEF DeskInv, DeskTyped
  <2>3. ASSUME NEW n \in messages', n.of # {}
        PROVE  \E d \in Clerks : n.of = {d} /\ visit'[d].step = "status"
    <3>1. PICK m \in messages : n = Seen(m)
      BY <1>7
    <3>2. m.of # {} /\ m.of # {c} /\ n.of = m.of
      BY <3>1, <2>3, <1>6
    <3>3. PICK d \in Clerks : m.of = {d} /\ visit[d].step = "status"
      BY <3>2 DEF DeskInv, DeskTyped
    <3> QED BY <3>2, <3>3, <1>4
  <2>4. ticket' \in Statuses
    BY <1>1, <1>3, <2>1 DEF DeskInv, DeskTyped
  <2>5. ticket' # "none"
    BY <2>4 DEF Statuses
  <2>6. collided' \subseteq {"ticket", "review"}
    BY <1>4, CollisionsRemembered
  <2>7. messages' \subseteq Messages
    BY <2>2
  <2> QED BY <1>1, <1>4, <2>2, <2>3, <2>4, <2>5, <2>6, <2>7 DEF DeskInv, DeskTyped
<1>9. TicketAlone'
  <2> SUFFICES ASSUME "ticket" \notin collided' PROVE TicketAlone'
    BY DEF TicketAlone
  <2>1. /\ "ticket" \notin collided
        /\ \A d, e \in Clerks : Concerns(d, "ticket")' /\ Concerns(e, "ticket")' => d = e
    BY <1>4, CollisionsRemembered
  <2>2. \A d \in Clerks : d # c => visit[d].step \notin {"message", "status", "close"}
    BY <2>1, <1>1 DEF DeskInv, TicketAlone, Concerns, About
  <2>3. ticket' = status
    BY <2>1, <1>1 DEF DeskInv, TicketAlone
  <2>4. PICK o \in messages : o.id = lastMessage /\ o.of = {c} /\ o.by = visit[c].by
    BY <2>1, <1>1 DEF DeskInv, TicketAlone
  <2>5. \A m, n \in messages' : m.id = n.id => m = n
    BY <2>1, <1>6, <1>7 DEF DeskInv, TicketAlone
  <2>6. Seen(o) \in messages' /\ Seen(o).of = {} /\ Seen(o).id = lastMessage /\ Seen(o).by = visit[c].by
    BY <2>4, <1>1, <1>6
  <2>7. ASSUME NEW m \in LastSeen' PROVE m = Seen(o)
    <3>1. m \in messages' /\ Seen(o).id <= m.id
      BY <2>6 DEF LastSeen
    <3>2. m.id \in Nat /\ m.id <= lastMessage /\ lastMessage \in Nat
      BY <3>1, <1>1, <1>8 DEF DeskTyped, Messages
    <3> QED BY <3>1, <3>2, <2>5, <2>6
  <2>8. \A m \in LastSeen' : ticket' = "answered" <=> m.by = "staff"
    BY <2>3, <2>6, <2>7, <1>3
  <2>9. \A d \in Clerks : visit'[d].step \notin {"message", "status"}
    BY <2>2, <1>4, <1>5
  <2> QED BY <2>1, <2>5, <2>8, <2>9 DEF TicketAlone
<1>10. ReviewAlone'
  BY <1>1, <1>4, <1>5, ReviewLeft
<1> QED BY <1>8, <1>9, <1>10 DEF DeskInv

LEMMA DeadlockedKeeps ==
  ASSUME DeskInv, NEW c \in Clerks, WatchesDesk(c), Deadlocked(c)
  PROVE  DeskInv'
<1>1. /\ visit[c].step = "status" /\ \E d \in Clerks \ {c} : visit[d].step = "status"
      /\ messages' = { m \in messages : m.of # {c} }
      /\ visit' = [visit EXCEPT ![c] = NoVisit]
      /\ UNCHANGED << ticket, lastMessage, review >>
  BY DEF Deadlocked, Waits, Undone, Leaves
<1>2. /\ visit' \in [Clerks -> Jobs]
      /\ \A d \in Clerks : visit'[d] = IF d = c THEN NoVisit ELSE visit[d]
  BY <1>1, NextVisit DEF DeskInv, Jobs
<1>3. NoVisit.step = "none"
  BY DEF NoVisit
<1>4. "ticket" \in collided'
  BY <1>1, <1>2, CollisionsRemembered DEF DeskInv, TicketAlone, Concerns, About
<1>5. DeskTyped'
  <2>1. ticket # "none"
    BY <1>1 DEF DeskInv, DeskTyped, Concerns, About
  <2>2. \A m \in messages' : m.of = {} \/ \E d \in Clerks : m.of = {d} /\ visit'[d].step = "status"
    BY <1>1, <1>2 DEF DeskInv, DeskTyped
  <2> QED BY <1>1, <1>2, <2>1, <2>2, CollisionsRemembered DEF DeskInv, DeskTyped
<1>6. ReviewAlone'
  BY <1>1, <1>2, <1>3, ReviewLeft
<1> QED BY <1>4, <1>5, <1>6 DEF DeskInv, TicketAlone

LEMMA ReadToCloseKeeps ==
  ASSUME DeskInv, NEW c \in Clerks, WatchesDesk(c), ReadToClose(c)
  PROVE  DeskInv'
<1> DEFINE job == [step |-> "close"]
<1>1. /\ ticket # "none" /\ visit' = [visit EXCEPT ![c] = job] /\ visit[c] = NoVisit
      /\ UNCHANGED << ticket, messages, lastMessage, review >>
  BY DEF ReadToClose, Enters
<1>2. job \in Jobs
  BY DEF Jobs
<1>3. /\ visit' \in [Clerks -> Jobs]
      /\ \A d \in Clerks : visit'[d] = IF d = c THEN job ELSE visit[d]
  BY <1>1, <1>2, NextVisit DEF DeskInv
<1>4. DeskTyped'
  BY <1>1, <1>3, CollisionsRemembered DEF DeskInv, DeskTyped, NoVisit
<1>5. TicketAlone' /\ ReviewAlone'
  BY <1>1, <1>3, TicketLeft, ReviewLeft
<1> QED BY <1>4, <1>5 DEF DeskInv

LEMMA CloseSupportKeeps ==
  ASSUME DeskInv, NEW c \in Clerks, WatchesDesk(c), CloseSupport(c)
  PROVE  DeskInv'
<1>1. /\ visit[c].step = "close" /\ ticket' = "closed" /\ visit' = [visit EXCEPT ![c] = NoVisit]
      /\ UNCHANGED << messages, lastMessage, review >>
  BY DEF CloseSupport, Leaves
<1>2. /\ visit' \in [Clerks -> Jobs]
      /\ \A d \in Clerks : visit'[d] = IF d = c THEN NoVisit ELSE visit[d]
  BY <1>1, NextVisit DEF DeskInv, Jobs
<1>3. NoVisit.step = "none"
  BY DEF NoVisit
<1>4. DeskTyped'
  BY <1>1, <1>2, <1>3, CollisionsRemembered DEF DeskInv, DeskTyped, Statuses
<1>5. TicketAlone'
  <2> SUFFICES ASSUME "ticket" \notin collided' PROVE TicketAlone'
    BY DEF TicketAlone
  <2>1. /\ "ticket" \notin collided
        /\ \A d, e \in Clerks : Concerns(d, "ticket")' /\ Concerns(e, "ticket")' => d = e
    BY <1>2, CollisionsRemembered
  <2>2. \A d \in Clerks : visit'[d].step \notin {"message", "status"}
    BY <2>1, <1>1, <1>2, <1>3 DEF DeskInv, TicketAlone, Concerns, About
  <2>3. \A m, n \in messages' : m.id = n.id => m = n
    BY <2>1, <1>1 DEF DeskInv, TicketAlone
  <2> QED BY <2>1, <2>2, <2>3, <1>1 DEF TicketAlone
<1>6. ReviewAlone'
  BY <1>1, <1>2, <1>3, ReviewLeft
<1> QED BY <1>4, <1>5, <1>6 DEF DeskInv

-----------------------------------------------------------------------------
\* A change of the review in one step, by a clerk who has nothing in progress.
LEMMA ReviewChangedKeeps ==
  ASSUME DeskInv, NEW c \in Clerks, WatchesDesk(c), visit[c] = NoVisit, visit' = visit,
         review' \subseteq Reviews, \A r, s \in review' : r = s,
         UNCHANGED << ticket, messages, lastMessage >>
  PROVE  DeskInv'
<1>1. visit' \in [Clerks -> Jobs]
  BY DEF DeskInv, DeskTyped
<1>2. DeskTyped'
  BY <1>1, CollisionsRemembered DEF DeskInv, DeskTyped, Concerns
<1>3. TicketAlone'
  BY <1>1, TicketLeft
<1>4. CASE review' = review
  BY <1>1, <1>2, <1>3, <1>4, ReviewLeft DEF DeskInv
<1>5. CASE review' # review
  <2> SUFFICES ASSUME "review" \notin collided' PROVE ReviewAlone'
    BY <1>2, <1>3 DEF DeskInv, ReviewAlone
  <2>1. \A d \in Clerks : ~Concerns(d, "review")'
    BY <1>1, <1>5, CollisionsRemembered
  <2>2. \A d \in Clerks : visit'[d].step \notin {"edit", "judge"}
    BY <2>1 DEF Concerns, About
  <2>3. wanted' = review'
    BY <1>5 DEF WatchesDesk, Meant, NoVisit
  <2> QED BY <2>1, <2>2, <2>3 DEF ReviewAlone
<1> QED BY <1>4, <1>5

LEMMA CreateReviewKeeps ==
  ASSUME DeskInv, NEW c \in Clerks, WatchesDesk(c), NEW text \in Texts, CreateReview(c, text)
  PROVE  DeskInv'
<1>1. [text |-> text, approved |-> "null"] \in Reviews
  BY DEF Reviews
<1> QED BY <1>1, ReviewChangedKeeps DEF CreateReview

LEMMA RemoveReviewKeeps ==
  ASSUME DeskInv, NEW c \in Clerks, WatchesDesk(c), RemoveReview(c)
  PROVE  DeskInv'
BY ReviewChangedKeeps DEF RemoveReview

\* What a clerk who reads the review in order to change it intends.
LEMMA ReadReviewKeeps ==
  ASSUME DeskInv, NEW c \in Clerks, WatchesDesk(c), visit[c] = NoVisit,
         NEW job \in [step : {"edit", "judge"}, row : Reviews],
         visit' = [visit EXCEPT ![c] = job],
         job.step = "edit" => \E r \in review : job.row = [r EXCEPT !.text = job.row.text],
         job.step = "judge" => \E r \in review : job.row = [r EXCEPT !.approved = job.row.approved],
         UNCHANGED << ticket, messages, lastMessage, review >>
  PROVE  DeskInv'
<1>1. job \in Jobs
  BY DEF Jobs
<1>2. /\ visit' \in [Clerks -> Jobs]
      /\ \A d \in Clerks : visit'[d] = IF d = c THEN job ELSE visit[d]
  BY <1>1, NextVisit DEF DeskInv
<1>3. job.step \in {"edit", "judge"} /\ visit[c].step = "none"
  BY DEF NoVisit
<1>4. DeskTyped'
  <2>1. \A d \in Clerks : Concerns(d, "ticket")' => Concerns(d, "ticket")
    BY <1>2, <1>3 DEF Concerns, About
  <2>2. \A d \in Clerks : visit[d].step = "status" => visit'[d].step = "status"
    BY <1>2, <1>3
  <2> QED BY <1>2, <2>1, <2>2, CollisionsRemembered DEF DeskInv, DeskTyped
<1>5. TicketAlone'
  BY <1>2, <1>3, TicketLeft
<1>6. ReviewAlone'
  <2> SUFFICES ASSUME "review" \notin collided' PROVE ReviewAlone'
    BY DEF ReviewAlone
  <2>1. /\ "review" \notin collided
        /\ \A d, e \in Clerks : Concerns(d, "review")' /\ Concerns(e, "review")' => d = e
    BY <1>2, CollisionsRemembered
  <2>2. wanted' = wanted
    BY DEF WatchesDesk
  <2>3. \A d \in Clerks : visit'[d].step \in {"edit", "judge"} => d = c
    BY <2>1, <1>2, <1>3 DEF Concerns, About
  <2>4. \A d \in Clerks : visit'[d].step = "edit" =>
          \E r \in review' : visit'[d].row = [r EXCEPT !.text = visit'[d].row.text]
    BY <2>3, <1>2
  <2>5. \A d \in Clerks : visit'[d].step = "judge" =>
          \E r \in review' : visit'[d].row = [r EXCEPT !.approved = visit'[d].row.approved]
    BY <2>3, <1>2
  <2> QED BY <2>1, <2>2, <2>4, <2>5 DEF DeskInv, ReviewAlone
<1> QED BY <1>4, <1>5, <1>6 DEF DeskInv

LEMMA UpdateReviewKeeps ==
  ASSUME DeskInv, NEW c \in Clerks, WatchesDesk(c), NEW text \in Texts, UpdateReview(c, text)
  PROVE  DeskInv'
<1>1. PICK r \in review : Enters(c, [step |-> "edit", row |-> [r EXCEPT !.text = text]])
  BY DEF UpdateReview
<1> DEFINE row == [r EXCEPT !.text = text]
           job == [step |-> "edit", row |-> row]
<1>2. r \in Reviews
  BY DEF DeskInv, DeskTyped
<1>3. row \in Reviews /\ row.text = text
  BY <1>2 DEF Reviews
<1>4. job \in [step : {"edit", "judge"}, row : Reviews] /\ job.step = "edit" /\ job.row = row
  BY <1>3
<1>5. job.row = [r EXCEPT !.text = job.row.text]
  BY <1>3, <1>4
<1>6. visit[c] = NoVisit /\ visit' = [visit EXCEPT ![c] = job]
      /\ UNCHANGED << ticket, messages, lastMessage, review >>
  BY <1>1 DEF Enters, UpdateReview
<1> HIDE DEF job, row
<1> QED BY <1>4, <1>5, <1>6, ReadReviewKeeps

LEMMA UpdateStatusKeeps ==
  ASSUME DeskInv, NEW c \in Clerks, WatchesDesk(c), NEW approved \in Opinions,
         UpdateStatus(c, approved)
  PROVE  DeskInv'
<1>1. PICK r \in review : Enters(c, [step |-> "judge", row |-> [r EXCEPT !.approved = approved]])
  BY DEF UpdateStatus
<1> DEFINE row == [r EXCEPT !.approved = approved]
           job == [step |-> "judge", row |-> row]
<1>2. r \in Reviews
  BY DEF DeskInv, DeskTyped
<1>3. row \in Reviews /\ row.approved = approved
  BY <1>2 DEF Reviews
<1>4. job \in [step : {"edit", "judge"}, row : Reviews] /\ job.step = "judge" /\ job.row = row
  BY <1>3
<1>5. job.row = [r EXCEPT !.approved = job.row.approved]
  BY <1>3, <1>4
<1>6. visit[c] = NoVisit /\ visit' = [visit EXCEPT ![c] = job]
      /\ UNCHANGED << ticket, messages, lastMessage, review >>
  BY <1>1 DEF Enters, UpdateStatus
<1> HIDE DEF job, row
<1> QED BY <1>4, <1>5, <1>6, ReadReviewKeeps

LEMMA SaveReviewKeeps ==
  ASSUME DeskInv, NEW c \in Clerks, WatchesDesk(c), SaveReview(c)
  PROVE  DeskInv'
<1> DEFINE row == visit[c].row
<1>1. /\ visit[c].step \in {"edit", "judge"} /\ review' = {row}
      /\ visit' = [visit EXCEPT ![c] = NoVisit]
      /\ UNCHANGED << ticket, messages, lastMessage >>
  BY DEF SaveReview, Leaves
<1>2. row \in Reviews
  BY <1>1 DEF DeskInv, DeskTyped, Jobs, NoVisit
<1>3. /\ visit' \in [Clerks -> Jobs]
      /\ \A d \in Clerks : visit'[d] = IF d = c THEN NoVisit ELSE visit[d]
  BY <1>1, NextVisit DEF DeskInv, Jobs
<1>4. NoVisit.step = "none"
  BY DEF NoVisit
<1>5. DeskTyped'
  <2>1. \A d \in Clerks : Concerns(d, "ticket")' => Concerns(d, "ticket")
    BY <1>3, <1>4 DEF Concerns, About
  <2>2. \A d \in Clerks : visit[d].step = "status" => visit'[d].step = "status"
    BY <1>1, <1>3
  <2> QED BY <1>1, <1>2, <1>3, <2>1, <2>2, CollisionsRemembered DEF DeskInv, DeskTyped
<1>6. TicketAlone'
  BY <1>1, <1>3, <1>4, TicketLeft
<1>7. ReviewAlone'
  <2> SUFFICES ASSUME "review" \notin collided' PROVE ReviewAlone'
    BY DEF ReviewAlone
  <2>1. /\ "review" \notin collided
        /\ \A d, e \in Clerks : Concerns(d, "review")' /\ Concerns(e, "review")' => d = e
    BY <1>3, CollisionsRemembered
  <2>2. \A d \in Clerks : visit'[d].step \notin {"edit", "judge"}
    BY <2>1, <1>1, <1>3, <1>4 DEF DeskInv, ReviewAlone, Concerns, About
  <2>3. wanted = review /\ \A r, s \in review : r = s
    BY <2>1 DEF DeskInv, ReviewAlone
  <2>4. wanted' = review'
    <3>1. CASE review' = review
      BY <3>1, <2>3 DEF WatchesDesk
    <3>2. CASE review' # review /\ visit[c].step = "edit"
      <4>1. PICK r \in review : row = [r EXCEPT !.text = row.text]
        BY <3>2, <2>1 DEF DeskInv, ReviewAlone
      <4>2. wanted' = { [w EXCEPT !.text = row.text] : w \in wanted }
        BY <3>2 DEF WatchesDesk, Meant
      <4> QED BY <4>1, <4>2, <2>3, <1>1
    <3>3. CASE review' # review /\ visit[c].step = "judge"
      <4>1. PICK r \in review : row = [r EXCEPT !.approved = row.approved]
        BY <3>3, <2>1 DEF DeskInv, ReviewAlone
      <4>2. wanted' = { [w EXCEPT !.approved = row.approved] : w \in wanted }
        BY <3>3 DEF WatchesDesk, Meant
      <4> QED BY <4>1, <4>2, <2>3, <1>1
    <3> QED BY <3>1, <3>2, <3>3, <1>1
  <2> QED BY <2>1, <2>2, <2>4, <1>1 DEF ReviewAlone
<1> QED BY <1>5, <1>6, <1>7 DEF DeskInv

-----------------------------------------------------------------------------
LEMMA DeskStarts == ASSUME WatchedDeskInit PROVE DeskInv
<1>1. /\ ticket = "none" /\ messages = {} /\ lastMessage = 0 /\ review = {}
      /\ visit = [c \in Clerks |-> NoVisit] /\ collided = {} /\ wanted = {}
  BY DEF WatchedDeskInit, DeskInit
<1>2. \A c \in Clerks : visit[c] = NoVisit /\ visit[c].step = "none"
  BY <1>1 DEF NoVisit
<1>3. visit \in [Clerks -> Jobs]
  BY <1>1 DEF Jobs
<1>4. lastMessage \in 0 .. MaxMessages
  BY <1>1, DeskAssumption
<1>5. DeskTyped
  <2>1. messages \subseteq Messages /\ review \subseteq Reviews /\ collided \subseteq {"ticket", "review"}
    BY <1>1
  <2>2. \A c \in Clerks : ~Concerns(c, "ticket")
    BY <1>2 DEF Concerns, About
  <2> QED BY <1>1, <1>3, <1>4, <2>1, <2>2 DEF DeskTyped
<1>6. TicketAlone
  BY <1>1, <1>2 DEF TicketAlone, Concerns, About, LastSeen
<1>7. ReviewAlone
  BY <1>1, <1>2 DEF ReviewAlone, Concerns, About
<1> QED BY <1>5, <1>6, <1>7 DEF DeskInv

LEMMA DeskStutters ==
  ASSUME DeskInv, UNCHANGED << deskVars, deskWatch >> PROVE DeskInv'
<1>1. /\ ticket' = ticket /\ messages' = messages /\ lastMessage' = lastMessage
      /\ review' = review /\ visit' = visit /\ collided' = collided /\ wanted' = wanted
  BY DEF deskVars, deskWatch
<1>2. LastSeen' = LastSeen
  BY <1>1 DEF LastSeen
<1>3. DeskTyped'
  BY <1>1 DEF DeskInv, DeskTyped, Concerns
<1>4. TicketAlone'
  BY <1>1, <1>2 DEF DeskInv, TicketAlone, Concerns
<1>5. ReviewAlone'
  BY <1>1 DEF DeskInv, ReviewAlone, Concerns
<1> QED BY <1>3, <1>4, <1>5 DEF DeskInv

LEMMA DeskStep == ASSUME DeskInv, [WatchedDeskNext]_<< deskVars, deskWatch >> PROVE DeskInv'
<1>1. CASE UNCHANGED << deskVars, deskWatch >>
  BY <1>1, DeskStutters
<1>2. CASE WatchedDeskNext
  <2>1. PICK c \in Clerks : WatchesDesk(c) /\ (Visits(c) \/ Serves(c))
    BY <1>2 DEF WatchedDeskNext
  <2>2. CASE Visits(c)
    BY <2>1, <2>2, CreateSupportKeeps, ReadTicketKeeps, ReadToCloseKeeps, CreateReviewKeeps,
       UpdateReviewKeeps, RemoveReviewKeeps, UpdateStatusKeeps
       DEF Visits, WritesSupport, AnswersSupport, WritesReview, JudgesReview
  <2>3. CASE Serves(c)
    BY <2>1, <2>3, InsertMessageKeeps, SaveStatusKeeps, DeadlockedKeeps, CloseSupportKeeps,
       SaveReviewKeeps DEF Serves
  <2> QED BY <2>1, <2>2, <2>3
<1> QED BY <1>1, <1>2

LEMMA DeskInvHolds == WatchedDeskSpec => []DeskInv
BY DeskStarts, DeskStep, PTL DEF WatchedDeskSpec

\* Tickets, messages and reviews have the columns' values and messages ids that
\* were given, whatever is committed, rolled back or deleted meanwhile
\* (support.service.ts, review.service.ts).
THEOREM DeskTyping == WatchedDeskSpec => []DeskTypeOK
<1>1. DeskInv => DeskTypeOK
  BY DEF DeskInv, DeskTyped, DeskTypeOK
<1> QED BY <1>1, DeskInvHolds, PTL

\* A ticket says answered when the last committed message is the staff's and it
\* was not closed since, and a review is what its author and the staff have last
\* made it, unless requests about the ticket or the review overlapped
\* (support.service.ts, review.service.ts).
THEOREM RequestsServed == WatchedDeskSpec => []DeskSound
<1>1. DeskInv => DeskSound
  BY DEF DeskInv, TicketAlone, ReviewAlone, DeskSound
<1> QED BY <1>1, DeskInvHolds, PTL

-----------------------------------------------------------------------------
\* The customers, their codes and their addresses.

PhoneSteps == {"issue", "look", "retire", "accept", "save"}
AddressSteps == {"demote", "keep", "strike", "heir", "promote"}
AddressRows == [id : 0 .. MaxAddresses, user : 1 .. MaxUsers, primary : BOOLEAN, active : BOOLEAN]
Requests ==
  {NoCall} \cup [step : {"issue", "look"}, to : Phones]
           \cup [step : {"retire", "accept"}, to : Phones, otp : 1 .. MaxCodes]
           \cup [step : {"save"}, user : {NoUser} \cup Users, to : Phones]
           \cup [step : AddressSteps, row : AddressRows]

\* Which number, user or address a request is about.
OnPhone(job, p) == job.step \in PhoneSteps /\ job.to = p
OnUser(job, id) ==
  \/ job.step = "save" /\ job.user.id = id
  \/ job.step \in AddressSteps /\ job.row.user = id

\* Ids are single and were given; a request knows whose its code or address is.
AccountsTyped ==
  /\ AccountsTypeOK /\ call \in [Callers -> Requests]
  /\ accepted \in [1 .. MaxCodes -> Nat] /\ given \in [1 .. MaxUsers -> Phones \cup {"nobody"}]
  /\ \A o \in otps : o.id <= last.code /\ (accepted[o.id] # 0 => o.verified)
  /\ \A o, q \in otps : o.id = q.id => o = q
  /\ \A id \in 1 .. MaxCodes : id > last.code => accepted[id] = 0
  /\ \A u \in users : u.id <= last.user
  /\ \A u, v \in users : u.id = v.id \/ u.phone = v.phone => u = v
  /\ \A a \in addresses : a.id <= last.address
  /\ \A a, b \in addresses : a.id = b.id => a = b
  /\ \A c \in Callers :
       /\ call[c].step \in {"retire", "accept"} =>
            call[c].otp <= last.code /\ \A o \in otps : o.id = call[c].otp => o.to = call[c].to
       /\ call[c].step = "save" => call[c].user.id <= last.user
       /\ call[c].step \in AddressSteps =>
            call[c].row.id <= last.address /\ \A a \in addresses : a.id = call[c].row.id => a.user = call[c].row.user

\* Requests for a number that is not crossed find its code as they left it.
PhoneAlone(p) ==
  << "phone", p >> \notin crossed =>
    /\ \A c, d \in Callers : OnPhone(call[c], p) /\ OnPhone(call[d], p) => c = d
    /\ \A o, q \in CodesFor(p) : o = q
    /\ \A c \in Callers : OnPhone(call[c], p) =>
         /\ call[c].step = "issue" => CodesFor(p) = {}
         /\ call[c].step = "retire" => \A o \in CodesFor(p) : o.id = call[c].otp
         /\ call[c].step = "accept" => \A o \in otps : o.id = call[c].otp => ~o.verified
    /\ \A o \in otps : o.to = p => accepted[o.id] <= 1

PrimariesOf(id) == { a \in addresses : a.user = id /\ a.primary }

\* Likewise a user's row and primary address.
UserAlone(id) ==
  << "user", id >> \notin crossed =>
    /\ \A c, d \in Callers : OnUser(call[c], id) /\ OnUser(call[d], id) => c = d
    /\ \A u \in users : u.id = id => u.phone = given[id]
    /\ \A a, b \in PrimariesOf(id) : a = b
    /\ \A c \in Callers : OnUser(call[c], id) =>
         /\ call[c].step = "save" => call[c].user \in users
         /\ call[c].step \in {"keep", "strike"} /\ call[c].row.primary =>
              \A a \in PrimariesOf(id) : a.id = call[c].row.id
         /\ call[c].step \in {"heir", "promote"} => PrimariesOf(id) = {}

AccountsInv ==
  AccountsTyped /\ (\A p \in Phones : PhoneAlone(p)) /\ (\A id \in 1 .. MaxUsers : UserAlone(id))

\* Requests that hold the same address know the same user of it.
RowsAgree ==
  \A c, d \in Callers :
    call[c].step \in AddressSteps /\ call[d].step \in AddressSteps
      /\ call[c].row.id = call[d].row.id /\ call[c].row.id # 0
    => call[c].row.user = call[d].row.user

-----------------------------------------------------------------------------
LEMMA Least == ASSUME NEW T, T \subseteq Nat, T # {} PROVE \E n \in T : \A m \in T : n <= m
<1>1. PICK x \in T : \A y \in T : ~ (<<y, x>> \in OpToRel(<, Nat))
  BY NatLessThanWellFounded, WFMin
<1>2. OpToRel(<, Nat) = { ss \in Nat \X Nat : ss[1] < ss[2] }
  BY Zenon DEF OpToRel
<1>3. ASSUME NEW y \in T, y < x PROVE FALSE
  <2>1. << y, x >> \in { ss \in Nat \X Nat : ss[1] < ss[2] }
    BY <1>3
  <2> QED BY <2>1, <1>1, <1>2
<1> QED BY <1>3


\* Of rows with bounded single ids one is the newest.
LEMMA NewestIsOne ==
  ASSUME NEW rows, rows # {}, NEW m \in Nat, \A r \in rows : r.id \in 0 .. m
  PROVE  Newest(rows) \in rows
<1> DEFINE Gaps == { m - r.id : r \in rows }
<1>1. Gaps \subseteq Nat /\ Gaps # {}
  OBVIOUS
<1>2. PICK g \in Gaps : \A h \in Gaps : g <= h
  <2> HIDE DEF Gaps
  <2> QED BY <1>1, Least
<1>3. PICK r \in rows : g = m - r.id
  BY <1>2
<1>4. \A s \in rows : s.id <= r.id
  <2> SUFFICES ASSUME NEW s \in rows PROVE s.id <= r.id
    OBVIOUS
  <2>1. m - s.id \in Gaps
    OBVIOUS
  <2>2. m - r.id <= m - s.id /\ s.id \in Int /\ r.id \in Int
    BY <1>2, <1>3, <2>1
  <2> QED BY <2>2
<1> QED BY <1>4 DEF Newest

LEMMA Dealing ==
  ASSUME NEW job \in Requests
  PROVE  /\ \A p : << "phone", p >> \in DealsWith(job) <=> OnPhone(job, p)
         /\ \A id : << "user", id >> \in DealsWith(job) <=> OnUser(job, id)
<1>1. CASE job = NoCall
  BY <1>1 DEF DealsWith, OnPhone, OnUser, NoCall, PhoneSteps, AddressSteps
<1>2. CASE job \in [step : {"issue", "look"}, to : Phones]
  <2>1. DOMAIN job = {"step", "to"} /\ job.step \in {"issue", "look"}
    BY <1>2
  <2> QED BY <2>1 DEF DealsWith, OnPhone, OnUser, PhoneSteps, AddressSteps
<1>3. CASE job \in [step : {"retire", "accept"}, to : Phones, otp : 1 .. MaxCodes]
  <2>1. DOMAIN job = {"step", "to", "otp"} /\ job.step \in {"retire", "accept"}
    BY <1>3
  <2> QED BY <2>1 DEF DealsWith, OnPhone, OnUser, PhoneSteps, AddressSteps
<1>4. CASE job \in [step : {"save"}, user : {NoUser} \cup Users, to : Phones]
  <2>1. DOMAIN job = {"step", "user", "to"} /\ job.step = "save"
    BY <1>4
  <2> QED BY <2>1 DEF DealsWith, OnPhone, OnUser, PhoneSteps, AddressSteps
<1>5. CASE job \in [step : AddressSteps, row : AddressRows]
  <2>1. DOMAIN job = {"step", "row"} /\ job.step \in AddressSteps
    BY <1>5
  <2> QED BY <2>1 DEF DealsWith, OnPhone, OnUser, PhoneSteps, AddressSteps
<1> QED BY <1>1, <1>2, <1>3, <1>4, <1>5 DEF Requests

\* What WatchesAccounts remembers.
LEMMA CrossingsRemembered ==
  ASSUME AccountsInv, WatchesAccounts, call' \in [Callers -> Requests]
  PROVE  /\ crossed \subseteq crossed'
         /\ \A p : << "phone", p >> \notin crossed' =>
              \A c, d \in Callers : OnPhone(call'[c], p) /\ OnPhone(call'[d], p) => c = d
         /\ \A id : << "user", id >> \notin crossed' =>
              /\ \A c, d \in Callers : OnUser(call'[c], id) /\ OnUser(call'[d], id) => c = d
              /\ \A u \in users, c \in Callers : u.id = id /\ OnUser(call[c], id) => \E v \in users' : v.id = id
<1>1. crossed' = crossed \cup AtOnce' \cup RemovedUnder
  BY DEF WatchesAccounts
<1>2. ASSUME NEW x, NEW c \in Callers, NEW d \in Callers, c # d,
             x \in DealsWith(call'[c]), x \in DealsWith(call'[d])
      PROVE  x \in crossed'
  <2>1. << c, d >> \in { y \in Callers \X Callers : y[1] # y[2] }
    BY <1>2
  <2>2. x \in DealsWith(call'[c]) \cap DealsWith(call'[d])
    BY <1>2
  <2>3. x \in AtOnce'
    BY <2>1, <2>2 DEF AtOnce
  <2> QED BY <1>1, <2>3
<1>3. ASSUME NEW u \in users, NEW c \in Callers, << "user", u.id >> \in DealsWith(call[c]),
             \A v \in users' : v.id # u.id
      PROVE  << "user", u.id >> \in crossed'
  BY <1>1, <1>3 DEF RemovedUnder
<1>4. \A c \in Callers : call'[c] \in Requests /\ call[c] \in Requests
  BY DEF AccountsInv, AccountsTyped
<1>5. ASSUME NEW p, << "phone", p >> \notin crossed', NEW c \in Callers, NEW d \in Callers,
             OnPhone(call'[c], p), OnPhone(call'[d], p)
      PROVE  c = d
  BY <1>2, <1>4, <1>5, Dealing
<1>6. ASSUME NEW id, << "user", id >> \notin crossed', NEW c \in Callers, NEW d \in Callers,
             OnUser(call'[c], id), OnUser(call'[d], id)
      PROVE  c = d
  BY <1>2, <1>4, <1>6, Dealing
<1>7. ASSUME NEW id, << "user", id >> \notin crossed', NEW u \in users, NEW c \in Callers, u.id = id,
             OnUser(call[c], id)
      PROVE  \E v \in users' : v.id = id
  BY <1>3, <1>4, <1>7, Dealing
<1> QED BY <1>1, <1>5, <1>6, <1>7

LEMMA NextRequest ==
  ASSUME AccountsTyped, NEW c \in Callers, NEW job \in Requests, call' = [call EXCEPT ![c] = job]
  PROVE  /\ call' \in [Callers -> Requests]
         /\ \A d \in Callers : call'[d] = IF d = c THEN job ELSE call[d]
  BY DEF AccountsTyped

\* Counting what is accepted, unless the step accepts a code.
LEMMA NothingAccepted ==
  ASSUME AccountsInv, WatchesAccounts, \A c \in Callers : At(c, "accept") => call'[c] = call[c]
  PROVE  accepted' = accepted
<1>1. \A id \in 1 .. MaxCodes :
        { c \in Callers : At(c, "accept") /\ call[c].otp = id /\ call'[c] # call[c] } = {}
  OBVIOUS
<1>2. \A id \in 1 .. MaxCodes : accepted[id] + 0 = accepted[id] /\ accepted[id] \in Nat
  BY DEF AccountsInv, AccountsTyped
<1>3. accepted' = [id \in 1 .. MaxCodes |-> accepted[id] + 0]
  BY <1>1, FS_EmptySet DEF WatchesAccounts
<1> QED BY <1>2, <1>3 DEF AccountsInv, AccountsTyped

LEMMA NothingGiven ==
  ASSUME AccountsInv, WatchesAccounts, users' = users \/ \A c \in Callers : At(c, "save") => call'[c] = call[c]
  PROVE  given' = given
<1>1. \A id \in 1 .. MaxUsers, c \in Callers : ~Gives(c, id)
  BY DEF Gives, At, NoCall
<1>2. given' = [id \in 1 .. MaxUsers |-> given[id]]
  BY <1>1 DEF WatchesAccounts
<1> QED BY <1>2 DEF AccountsInv, AccountsTyped

-----------------------------------------------------------------------------
\* A step that leaves the codes, and after which no request is newly about one.
LEMMA CodesLeft ==
  ASSUME AccountsInv, WatchesAccounts, call' \in [Callers -> Requests],
         otps' = otps, accepted' = accepted,
         \A c \in Callers : call'[c] # call[c] => call'[c].step \notin {"issue", "retire", "accept"}
  PROVE  \A p \in Phones : PhoneAlone(p)'
<1> SUFFICES ASSUME NEW p \in Phones, << "phone", p >> \notin crossed' PROVE PhoneAlone(p)'
  BY DEF PhoneAlone
<1>1. /\ << "phone", p >> \notin crossed
      /\ \A c, d \in Callers : OnPhone(call'[c], p) /\ OnPhone(call'[d], p) => c = d
  BY CrossingsRemembered
<1>2. CodesFor(p)' = CodesFor(p)
  BY DEF CodesFor
<1>3. PhoneAlone(p)
  BY DEF AccountsInv
<1>4. \A c \in Callers : call'[c].step \in {"issue", "retire", "accept"} => call'[c] = call[c]
  OBVIOUS
<1>5. ASSUME NEW c \in Callers, OnPhone(call'[c], p)
      PROVE  /\ call'[c].step = "issue" => CodesFor(p) = {}
             /\ call'[c].step = "retire" => \A o \in CodesFor(p) : o.id = call'[c].otp
             /\ call'[c].step = "accept" => \A o \in otps : o.id = call'[c].otp => ~o.verified
  <2>1. CASE call'[c].step \in {"issue", "retire", "accept"}
    <3>1. call'[c] = call[c]
      BY <1>4, <2>1
    <3> QED BY <3>1, <1>1, <1>3, <1>5 DEF PhoneAlone
  <2> QED BY <2>1
<1>6. \A o \in otps : o.to = p => accepted[o.id] <= 1
  BY <1>1, <1>3 DEF PhoneAlone
<1>7. \A o, q \in CodesFor(p) : o = q
  BY <1>1, <1>3 DEF PhoneAlone
<1> QED BY <1>1, <1>2, <1>5, <1>6, <1>7 DEF PhoneAlone

\* Likewise a step that leaves a user and the primary address.
LEMMA UserLeft ==
  ASSUME AccountsInv, WatchesAccounts, call' \in [Callers -> Requests],
         NEW id \in 1 .. MaxUsers, PrimariesOf(id)' = PrimariesOf(id),
         \A u \in users' : u.id = id => u \in users, \A u \in users : u.id = id => u \in users',
         given'[id] = given[id],
         \A c \in Callers : OnUser(call'[c], id) => call'[c] = call[c]
  PROVE  UserAlone(id)'
<1> SUFFICES ASSUME << "user", id >> \notin crossed' PROVE UserAlone(id)'
  BY DEF UserAlone
<1>1. /\ << "user", id >> \notin crossed
      /\ \A c, d \in Callers : OnUser(call'[c], id) /\ OnUser(call'[d], id) => c = d
  BY CrossingsRemembered
<1>2. UserAlone(id)
  BY DEF AccountsInv
<1>3. \A u \in users' : u.id = id => u.phone = given'[id]
  BY <1>1, <1>2 DEF UserAlone
<1>4. \A a, b \in PrimariesOf(id)' : a = b
  BY <1>1, <1>2 DEF UserAlone
<1>5. ASSUME NEW c \in Callers, OnUser(call'[c], id)
      PROVE  /\ call'[c].step = "save" => call'[c].user \in users'
             /\ call'[c].step \in {"keep", "strike"} /\ call'[c].row.primary =>
                  \A a \in PrimariesOf(id)' : a.id = call'[c].row.id
             /\ call'[c].step \in {"heir", "promote"} => PrimariesOf(id)' = {}
  <2>1. call'[c] = call[c] /\ OnUser(call[c], id)
    BY <1>5
  <2>2. call[c].step = "save" => call[c].user.id = id
    BY <2>1 DEF OnUser, AddressSteps
  <2> QED BY <2>1, <2>2, <1>1, <1>2 DEF UserAlone
<1> QED BY <1>1, <1>3, <1>4, <1>5 DEF UserAlone

LEMMA UsersLeft ==
  ASSUME AccountsInv, WatchesAccounts, call' \in [Callers -> Requests],
         users' = users, addresses' = addresses, given' = given,
         \A c \in Callers : call'[c] # call[c] => call'[c].step \notin {"save"} \cup AddressSteps
  PROVE  \A id \in 1 .. MaxUsers : UserAlone(id)'
<1>1. \A id \in 1 .. MaxUsers : PrimariesOf(id)' = PrimariesOf(id)
  BY DEF PrimariesOf
<1>2. \A id \in 1 .. MaxUsers, c \in Callers : OnUser(call'[c], id) => call'[c] = call[c]
  BY DEF OnUser
<1> QED BY <1>1, <1>2, UserLeft

-----------------------------------------------------------------------------
(* Codes. *)

LEMMA UsableRows ==
  ASSUME AccountsInv, NEW p
  PROVE  \A o \in CodesFor(p) : o \in otps /\ o \in Otps /\ o.to = p /\ o.id \in 1 .. MaxCodes
                                /\ o.id <= last.code /\ ~o.verified
  BY DEF AccountsInv, AccountsTyped, AccountsTypeOK, CodesFor, Usable, Otps

LEMMA ReadCodeKeeps ==
  ASSUME AccountsInv, WatchesAccounts, NEW c \in Callers, NEW p \in Phones, NEW job \in Requests,
         call[c] = NoCall, call' = [call EXCEPT ![c] = job], UNCHANGED << otps, users, addresses, last >>,
         job.step \in {"issue", "retire", "accept"}, job.to = p,
         job.step = "issue" => CodesFor(p) = {},
         job.step # "issue" => \E o \in CodesFor(p) : o.id = job.otp
  PROVE  AccountsInv'
<1>1. /\ call' \in [Callers -> Requests]
      /\ \A d \in Callers : call'[d] = IF d = c THEN job ELSE call[d]
  BY NextRequest DEF AccountsInv
<1>2. call[c].step = "none"
  BY DEF NoCall
<1>3. accepted' = accepted /\ given' = given
  BY <1>1, <1>2, NothingAccepted, NothingGiven DEF At
<1>4. otps' = otps /\ users' = users /\ addresses' = addresses /\ last' = last
  OBVIOUS
<1>5. AccountsTyped'
  <2>1. job.step # "issue" => job.otp <= last.code /\ \A o \in otps : o.id = job.otp => o.to = job.to
    BY UsableRows DEF AccountsInv, AccountsTyped
  <2>2. ASSUME NEW d \in Callers
        PROVE  /\ call'[d].step \in {"retire", "accept"} =>
                    call'[d].otp <= last.code /\ \A o \in otps : o.id = call'[d].otp => o.to = call'[d].to
               /\ call'[d].step = "save" => call'[d].user.id <= last.user
               /\ call'[d].step \in AddressSteps =>
                    call'[d].row.id <= last.address /\ \A a \in addresses : a.id = call'[d].row.id => a.user = call'[d].row.user
    BY <1>1, <2>1 DEF AccountsInv, AccountsTyped, AddressSteps
  <2> QED BY <1>1, <1>3, <1>4, <2>2 DEF AccountsInv, AccountsTyped, AccountsTypeOK
<1>6. ASSUME NEW x \in Phones, << "phone", x >> \notin crossed'
      PROVE  PhoneAlone(x)'
  <2>1. /\ << "phone", x >> \notin crossed
        /\ \A d, e \in Callers : OnPhone(call'[d], x) /\ OnPhone(call'[e], x) => d = e
    BY <1>1, <1>6, CrossingsRemembered
  <2>2. PhoneAlone(x)
    BY DEF AccountsInv
  <2>3. CodesFor(x)' = CodesFor(x)
    BY <1>4 DEF CodesFor
  <2>4. ASSUME NEW d \in Callers, OnPhone(call'[d], x)
        PROVE  /\ call'[d].step = "issue" => CodesFor(x) = {}
               /\ call'[d].step = "retire" => \A o \in CodesFor(x) : o.id = call'[d].otp
               /\ call'[d].step = "accept" => \A o \in otps : o.id = call'[d].otp => ~o.verified
    <3>1. CASE d # c
      BY <1>1, <2>1, <2>2, <2>4, <3>1 DEF PhoneAlone
    <3>2. CASE d = c
      <4>1. x = p /\ call'[d] = job
        BY <1>1, <2>4, <3>2 DEF OnPhone
      <4>2. CASE job.step = "issue"
        BY <4>1, <4>2
      <4>3. CASE job.step # "issue"
        <5>1. PICK o \in CodesFor(p) : o.id = job.otp
          BY <4>3
        <5>2. \A q \in CodesFor(p) : q = o
          BY <5>1, <4>1, <2>1, <2>2 DEF PhoneAlone
        <5>3. \A q \in otps : q.id = job.otp => ~q.verified
          BY <5>1, UsableRows DEF AccountsInv, AccountsTyped
        <5> QED BY <4>1, <5>1, <5>2, <5>3, <4>3
      <4> QED BY <4>2, <4>3
    <3> QED BY <3>1, <3>2
  <2>5. /\ \A o \in otps : o.to = x => accepted[o.id] <= 1
        /\ \A o, q \in CodesFor(x) : o = q
    BY <2>1, <2>2 DEF PhoneAlone
  <2> QED BY <1>3, <1>4, <2>1, <2>3, <2>4, <2>5 DEF PhoneAlone
<1>7. \A x \in Phones : PhoneAlone(x)'
  BY <1>6 DEF PhoneAlone
<1>8. \A id \in 1 .. MaxUsers : UserAlone(id)'
  <2>1. \A d \in Callers : call'[d] # call[d] => call'[d].step \notin {"save"} \cup AddressSteps
    BY <1>1 DEF AddressSteps
  <2> QED BY <1>1, <1>3, <1>4, <2>1, UsersLeft
<1> QED BY <1>5, <1>7, <1>8 DEF AccountsInv

LEMMA RequestOtpKeeps ==
  ASSUME AccountsInv, WatchesAccounts, NEW c \in Callers, NEW p \in Phones, RequestOtp(c, p)
  PROVE  AccountsInv'
<1> DEFINE live == CodesFor(p)
<1>1. UNCHANGED << otps, users, addresses, last >> /\ call[c] = NoCall
  BY DEF RequestOtp, Reads
<1>2. CASE live = {}
  <2> DEFINE job == [step |-> "issue", to |-> p]
  <2>1. job \in Requests /\ job.step = "issue" /\ job.to = p
    BY DEF Requests
  <2>2. call' = [call EXCEPT ![c] = job]
    BY <1>2 DEF RequestOtp, Reads
  <2> HIDE DEF job
  <2> QED BY <1>1, <1>2, <2>1, <2>2, ReadCodeKeeps
<1>3. CASE live # {}
  <2>1. Newest(live) \in live
    <3>1. \A o \in live : o.id \in 0 .. MaxCodes
      BY UsableRows
    <3> HIDE DEF live
    <3> QED BY <3>1, <1>3, NewestIsOne, AccountsAssumption
  <2>2. PICK o \in live : o = Newest(live)
    BY <2>1
  <2> DEFINE job == [step |-> "retire", to |-> p, otp |-> o.id]
  <2>3. job \in Requests /\ job.step = "retire" /\ job.to = p /\ job.otp = o.id
    <3>1. o.id \in 1 .. MaxCodes
      BY <2>2, UsableRows
    <3> QED BY <3>1 DEF Requests
  <2>4. call' = [call EXCEPT ![c] = job]
    BY <1>3, <2>2 DEF RequestOtp, Reads
  <2> HIDE DEF job
  <2> QED BY <1>1, <2>2, <2>3, <2>4, ReadCodeKeeps
<1> QED BY <1>2, <1>3

LEMMA SubmitCodeKeeps ==
  ASSUME AccountsInv, WatchesAccounts, NEW c \in Callers, NEW p \in Phones, NEW digits \in Digits,
         SubmitCode(c, p, digits)
  PROVE  AccountsInv'
<1> DEFINE live == { o \in CodesFor(p) : o.code = digits }
<1>1. /\ UNCHANGED << otps, users, addresses, last >> /\ call[c] = NoCall
      /\ live # {} /\ call' = [call EXCEPT ![c] = [step |-> "accept", to |-> p, otp |-> Newest(live).id]]
  BY DEF SubmitCode, Reads
<1>2. Newest(live) \in live
  <2>1. \A o \in live : o.id \in 0 .. MaxCodes
    BY UsableRows
  <2> HIDE DEF live
  <2> QED BY <2>1, <1>1, NewestIsOne, AccountsAssumption
<1>3. PICK o \in CodesFor(p) : o = Newest(live)
  BY <1>2
<1> DEFINE job == [step |-> "accept", to |-> p, otp |-> o.id]
<1>4. job \in Requests /\ job.step = "accept" /\ job.to = p /\ job.otp = o.id
  <2>1. o.id \in 1 .. MaxCodes
    BY <1>3, UsableRows
  <2> QED BY <2>1 DEF Requests
<1>5. call' = [call EXCEPT ![c] = job]
  BY <1>1, <1>3
<1> HIDE DEF job, live
<1> QED BY <1>1, <1>3, <1>4, <1>5, ReadCodeKeeps


\* A code that is used up: retired for another, or accepted.
LEMMA VerifiedKeeps ==
  ASSUME AccountsInv, WatchesAccounts, NEW c \in Callers, call[c].step \in {"retire", "accept"},
         Verified(call[c].otp), UNCHANGED << users, addresses, last >>,
         NEW next \in {"issue", "look"}, call[c].step = "accept" => next = "look",
         call' = [call EXCEPT ![c] = [step |-> next, to |-> call[c].to]]
  PROVE  AccountsInv'
<1> DEFINE job == [step |-> next, to |-> call[c].to]
           id == call[c].otp
           Used(o) == IF o.id = id THEN [o EXCEPT !.verified = TRUE] ELSE o
<1>1. /\ call[c] \in [step : {"retire", "accept"}, to : Phones, otp : 1 .. MaxCodes]
      /\ id \in 1 .. MaxCodes /\ id <= last.code /\ call[c].to \in Phones
      /\ \A o \in otps : o.id = id => o.to = call[c].to
  BY DEF AccountsInv, AccountsTyped, Requests, NoCall, AddressSteps
<1>2. job \in Requests /\ job.step = next /\ job.to = call[c].to
  BY <1>1 DEF Requests
<1>3. otps' = { Used(o) : o \in otps }
  BY DEF Verified
<1>4. \A o \in otps : /\ Used(o) \in Otps /\ Used(o).id = o.id /\ Used(o).to = o.to /\ Used(o).age = o.age
                      /\ Used(o).verified = IF o.id = id THEN TRUE ELSE o.verified
  BY DEF AccountsInv, AccountsTyped, AccountsTypeOK, Otps
<1>5. \A q \in otps' : \E o \in otps :
        /\ q = Used(o) /\ q \in Otps /\ q.id = o.id /\ q.to = o.to /\ q.age = o.age
        /\ o.id = id => q.verified
        /\ o.id # id => q = o
  <2> SUFFICES ASSUME NEW q \in otps'
               PROVE  \E o \in otps :
                        /\ q = Used(o) /\ q \in Otps /\ q.id = o.id /\ q.to = o.to /\ q.age = o.age
                        /\ o.id = id => q.verified
                        /\ o.id # id => q = o
    OBVIOUS
  <2>1. PICK o \in otps : q = Used(o)
    BY <1>3
  <2> QED BY <2>1, <1>4
<1> HIDE DEF Used, job
<1>6. /\ call' \in [Callers -> Requests]
      /\ \A d \in Callers : call'[d] = IF d = c THEN job ELSE call[d]
  BY <1>2, NextRequest DEF AccountsInv, job
<1>7. users' = users /\ addresses' = addresses /\ last' = last
  OBVIOUS
<1>8. given' = given
  BY <1>7, NothingGiven
<1>9. \A n \in 1 .. MaxCodes :
        accepted'[n] = accepted[n] + IF call[c].step = "accept" /\ n = id THEN 1 ELSE 0
  <2> SUFFICES ASSUME NEW n \in 1 .. MaxCodes
               PROVE  accepted'[n] = accepted[n] + IF call[c].step = "accept" /\ n = id THEN 1 ELSE 0
    OBVIOUS
  <2> DEFINE now == { d \in Callers : At(d, "accept") /\ call[d].otp = n /\ call'[d] # call[d] }
  <2>1. accepted'[n] = accepted[n] + Cardinality(now)
    BY DEF WatchesAccounts
  <2>2. call'[c].step # call[c].step /\ \A d \in Callers : d # c => call'[d] = call[d]
    BY <1>2, <1>6
  <2>3. now = IF call[c].step = "accept" /\ n = id THEN {c} ELSE {}
    BY <2>2 DEF At
  <2> QED BY <2>1, <2>3, FS_EmptySet, FS_Singleton
<1>10. accepted \in [1 .. MaxCodes -> Nat] /\ accepted' \in [1 .. MaxCodes -> Nat]
  <2>1. accepted \in [1 .. MaxCodes -> Nat]
    BY DEF AccountsInv, AccountsTyped
  <2>2. DOMAIN accepted' = 1 .. MaxCodes /\ accepted' = [n \in 1 .. MaxCodes |-> accepted'[n]]
    BY DEF WatchesAccounts
  <2>3. \A n \in 1 .. MaxCodes : accepted'[n] \in Nat
    BY <1>9, <2>1
  <2> QED BY <2>1, <2>2, <2>3
<1> HIDE DEF id
<1>11. AccountsTyped'
  <2>1. otps' \subseteq Otps
    BY <1>4, <1>5
  <2>2. ASSUME NEW q \in otps' PROVE q.id <= last.code /\ (accepted'[q.id] # 0 => q.verified)
    <3>1. PICK o \in otps : q.id = o.id /\ (o.id = id => q.verified) /\ (o.id # id => q = o)
      BY <1>5
    <3>2. o.id <= last.code /\ (accepted[o.id] # 0 => o.verified) /\ o.id \in 1 .. MaxCodes
      BY DEF AccountsInv, AccountsTyped, AccountsTypeOK, Otps
    <3>3. accepted[o.id] \in Nat
      BY <1>10, <3>2
    <3>4. o.id # id => accepted'[o.id] = accepted[o.id]
      BY <1>9, <3>2, <3>3
    <3> QED BY <3>1, <3>2, <3>4
  <2>3. ASSUME NEW q \in otps', NEW r \in otps', q.id = r.id PROVE q = r
    <3>1. PICK o \in otps : q = Used(o) /\ q.id = o.id
      BY <1>5
    <3>2. PICK w \in otps : r = Used(w) /\ r.id = w.id
      BY <1>5
    <3>3. o = w
      BY <2>3, <3>1, <3>2 DEF AccountsInv, AccountsTyped
    <3> QED BY <3>1, <3>2, <3>3
  <2>4. \A n \in 1 .. MaxCodes : n > last.code => accepted'[n] = 0
    <3>1. last.code \in Nat
      BY DEF AccountsInv, AccountsTyped, AccountsTypeOK
    <3> QED BY <1>1, <1>9, <3>1 DEF AccountsInv, AccountsTyped
  <2>5. ASSUME NEW d \in Callers
        PROVE  /\ call'[d].step \in {"retire", "accept"} =>
                    call'[d].otp <= last.code /\ \A o \in otps' : o.id = call'[d].otp => o.to = call'[d].to
               /\ call'[d].step = "save" => call'[d].user.id <= last.user
               /\ call'[d].step \in AddressSteps =>
                    call'[d].row.id <= last.address /\ \A a \in addresses : a.id = call'[d].row.id => a.user = call'[d].row.user
    BY <1>2, <1>5, <1>6 DEF AccountsInv, AccountsTyped, AddressSteps
  <2> QED BY <1>6, <1>7, <1>8, <1>10, <2>1, <2>2, <2>3, <2>4, <2>5 DEF AccountsInv, AccountsTyped, AccountsTypeOK
<1>12. ASSUME NEW p \in Phones, << "phone", p >> \notin crossed'
       PROVE  PhoneAlone(p)'
  <2>1. /\ << "phone", p >> \notin crossed
        /\ \A d, e \in Callers : OnPhone(call'[d], p) /\ OnPhone(call'[e], p) => d = e
    BY <1>6, <1>12, CrossingsRemembered
  <2>2. PhoneAlone(p)
    BY DEF AccountsInv
  <2>3. \A q \in CodesFor(p)' : q \in CodesFor(p) /\ q.id # id
    BY <1>5 DEF CodesFor, Usable
  <2>4. \A q, r \in CodesFor(p)' : q = r
    BY <2>1, <2>2, <2>3 DEF PhoneAlone
  <2>5. OnPhone(call'[c], p) <=> call[c].to = p
    BY <1>2, <1>6 DEF OnPhone, PhoneSteps
  <2>6. OnPhone(call[c], p) <=> call[c].to = p
    BY DEF OnPhone, PhoneSteps
  <2>7. ASSUME NEW d \in Callers, OnPhone(call'[d], p)
        PROVE  /\ call'[d].step = "issue" => CodesFor(p)' = {}
               /\ call'[d].step = "retire" => \A o \in CodesFor(p)' : o.id = call'[d].otp
               /\ call'[d].step = "accept" => \A o \in otps' : o.id = call'[d].otp => ~o.verified
    <3>1. CASE d = c
      <4>1. call'[d].step = next /\ (next = "issue" => call[c].step = "retire")
        BY <1>2, <1>6, <3>1
      <4>2. next = "issue" => \A o \in CodesFor(p) : o.id = id
        BY <2>1, <2>2, <2>5, <2>6, <2>7, <3>1, <4>1 DEF PhoneAlone, id
      <4> QED BY <2>3, <4>1, <4>2
    <3>2. CASE d # c
      <4>1. call'[d] = call[d] /\ call[c].to # p
        BY <1>6, <2>1, <2>5, <2>7, <3>2
      <4>2. \A o \in CodesFor(p) : o \in otps
        BY DEF CodesFor
      <4>3. call[d].step = "issue" => CodesFor(p) = {}
        BY <4>1, <2>1, <2>2, <2>7 DEF PhoneAlone
      <4>4. call[d].step = "retire" => \A o \in CodesFor(p) : o.id = call[d].otp
        BY <4>1, <2>1, <2>2, <2>7 DEF PhoneAlone
      <4>5. call[d].step = "accept" => \A o \in otps : o.id = call[d].otp => ~o.verified /\ o.to = p
        BY <4>1, <2>1, <2>2, <2>7 DEF PhoneAlone, OnPhone, AccountsInv, AccountsTyped
      <4>6. call[d].step = "accept" => \A o \in otps' : o.id = call[d].otp => ~o.verified
        BY <1>1, <1>5, <4>1, <4>5
      <4> QED BY <2>3, <4>1, <4>2, <4>3, <4>4, <4>6
    <3> QED BY <3>1, <3>2
  <2>8. ASSUME NEW q \in otps', q.to = p PROVE accepted'[q.id] <= 1
    <3>1. PICK o \in otps : q = Used(o)
      BY <1>5
    <3>2. o.to = p /\ o.id = q.id /\ o.id \in 1 .. MaxCodes
      BY <1>4, <2>8, <3>1 DEF AccountsInv, AccountsTyped, AccountsTypeOK, Otps
    <3>3. accepted[o.id] <= 1 /\ accepted[o.id] \in Nat
      BY <1>10, <2>1, <2>2, <3>2 DEF PhoneAlone
    <3>4. CASE call[c].step = "accept" /\ o.id = id
      <4>1. OnPhone(call[c], p)
        BY <1>1, <2>6, <3>2, <3>4
      <4>2. ~o.verified
        BY <2>1, <2>2, <3>4, <4>1 DEF PhoneAlone, id
      <4>3. accepted[o.id] = 0
        BY <4>2 DEF AccountsInv, AccountsTyped
      <4> QED BY <1>9, <3>2, <4>3
    <3>5. CASE ~(call[c].step = "accept" /\ o.id = id)
      BY <1>9, <3>2, <3>3, <3>5 DEF id
    <3> QED BY <3>4, <3>5
  <2> QED BY <2>1, <2>4, <2>7, <2>8 DEF PhoneAlone
<1>13. \A p \in Phones : PhoneAlone(p)'
  BY <1>12 DEF PhoneAlone
<1>14. \A n \in 1 .. MaxUsers : UserAlone(n)'
  <2>1. \A d \in Callers : call'[d] # call[d] => call'[d].step \notin {"save"} \cup AddressSteps
    BY <1>2, <1>6 DEF AddressSteps
  <2> QED BY <1>6, <1>7, <1>8, <2>1, UsersLeft
<1> QED BY <1>11, <1>13, <1>14 DEF AccountsInv

LEMMA IssueOtpKeeps ==
  ASSUME AccountsInv, WatchesAccounts, NEW c \in Callers, NEW digits \in Digits, IssueOtp(c, digits)
  PROVE  AccountsInv'
<1> DEFINE to == call[c].to
           new == [id |-> last.code + 1, to |-> to, code |-> digits, verified |-> FALSE, age |-> "fresh"]
<1>1. /\ call[c].step = "issue" /\ last.code < MaxCodes /\ otps' = otps \cup {new}
      /\ call' = [call EXCEPT ![c] = NoCall] /\ users' = users /\ addresses' = addresses
      /\ last' = [last EXCEPT !.code = @ + 1]
  BY DEF IssueOtp, At, Returns, Goes
<1>2. to \in Phones
  BY <1>1 DEF AccountsInv, AccountsTyped, Requests, NoCall, AddressSteps
<1>3. last \in [code : 0 .. MaxCodes, user : 0 .. MaxUsers, address : 0 .. MaxAddresses]
  BY DEF AccountsInv, AccountsTyped, AccountsTypeOK
<1>4. /\ last' \in [code : 0 .. MaxCodes, user : 0 .. MaxUsers, address : 0 .. MaxAddresses]
      /\ last'.code = last.code + 1 /\ last'.user = last.user /\ last'.address = last.address
      /\ last.code \in Nat /\ last.code + 1 \in 1 .. MaxCodes
  BY <1>1, <1>3, AccountsAssumption
<1>5. /\ new \in Otps /\ new.id = last.code + 1 /\ new.to = to /\ ~new.verified
  BY <1>2, <1>4 DEF Otps
<1> HIDE DEF new, to
<1>6. NoCall \in Requests /\ NoCall.step = "none"
  BY DEF Requests, NoCall
<1>7. /\ call' \in [Callers -> Requests]
      /\ \A d \in Callers : call'[d] = IF d = c THEN NoCall ELSE call[d]
  BY <1>1, <1>6, NextRequest DEF AccountsInv
<1>8. accepted' = accepted /\ given' = given
  BY <1>1, <1>7, NothingAccepted, NothingGiven DEF At
<1>9. AccountsTyped'
  <2>1. otps' \subseteq Otps /\ \A o \in otps' : o \in otps \/ o = new
    BY <1>1, <1>5 DEF AccountsInv, AccountsTyped, AccountsTypeOK
  <2>2. \A o \in otps : o.id <= last.code /\ (accepted[o.id] # 0 => o.verified) /\ o.id \in Nat
    BY AccountsAssumption DEF AccountsInv, AccountsTyped, AccountsTypeOK, Otps
  <2>3. accepted[new.id] = 0
    BY <1>4, <1>5 DEF AccountsInv, AccountsTyped
  <2>4. \A o \in otps' : o.id <= last'.code /\ (accepted[o.id] # 0 => o.verified)
    BY <1>4, <1>5, <2>1, <2>2, <2>3
  <2>5. \A o, q \in otps' : o.id = q.id => o = q
    BY <1>4, <1>5, <2>1, <2>2 DEF AccountsInv, AccountsTyped
  <2>6. \A n \in 1 .. MaxCodes : n > last'.code => accepted[n] = 0
    BY <1>4 DEF AccountsInv, AccountsTyped
  <2>7. ASSUME NEW d \in Callers, call'[d].step \in {"retire", "accept"}
        PROVE  call'[d].otp <= last'.code /\ \A o \in otps' : o.id = call'[d].otp => o.to = call'[d].to
    <3>1. call'[d] = call[d]
      BY <1>6, <1>7, <2>7
    <3>2. call[d].otp \in 1 .. MaxCodes /\ call[d].otp <= last.code
      BY <2>7, <3>1 DEF AccountsInv, AccountsTyped, Requests, NoCall, AddressSteps
    <3>3. new.id # call[d].otp
      BY <1>4, <1>5, <3>2
    <3> QED BY <1>4, <2>1, <2>7, <3>1, <3>2, <3>3 DEF AccountsInv, AccountsTyped
  <2>8. ASSUME NEW d \in Callers
        PROVE  /\ call'[d].step = "save" => call'[d].user.id <= last.user
               /\ call'[d].step \in AddressSteps =>
                    call'[d].row.id <= last.address /\ \A a \in addresses : a.id = call'[d].row.id => a.user = call'[d].row.user
    BY <1>6, <1>7 DEF AccountsInv, AccountsTyped, AddressSteps
  <2> QED BY <1>1, <1>4, <1>7, <1>8, <2>1, <2>4, <2>5, <2>6, <2>7, <2>8 DEF AccountsInv, AccountsTyped, AccountsTypeOK
<1>10. ASSUME NEW p \in Phones, << "phone", p >> \notin crossed'
       PROVE  PhoneAlone(p)'
  <2>1. /\ << "phone", p >> \notin crossed
        /\ \A d, e \in Callers : OnPhone(call'[d], p) /\ OnPhone(call'[e], p) => d = e
    BY <1>7, <1>10, CrossingsRemembered
  <2>2. PhoneAlone(p)
    BY DEF AccountsInv
  <2>3. \A q \in CodesFor(p)' : q \in CodesFor(p) \/ (q = new /\ to = p)
    BY <1>1, <1>5 DEF CodesFor, Usable
  <2>4. OnPhone(call[c], p) <=> to = p
    BY <1>1 DEF OnPhone, PhoneSteps, to
  <2>5. to = p => CodesFor(p) = {}
    BY <1>1, <2>1, <2>2, <2>4 DEF PhoneAlone
  <2>6. \A o, q \in CodesFor(p)' : o = q
    BY <2>1, <2>2, <2>3, <2>5 DEF PhoneAlone
  <2>7. ASSUME NEW d \in Callers, OnPhone(call'[d], p)
        PROVE  /\ call'[d].step = "issue" => CodesFor(p)' = {}
               /\ call'[d].step = "retire" => \A o \in CodesFor(p)' : o.id = call'[d].otp
               /\ call'[d].step = "accept" => \A o \in otps' : o.id = call'[d].otp => ~o.verified
    <3>1. d # c /\ call'[d] = call[d]
      BY <1>6, <1>7, <2>7 DEF OnPhone, PhoneSteps
    <3>2. to # p
      BY <2>1, <2>2, <2>4, <2>7, <3>1 DEF PhoneAlone
    <3>3. CodesFor(p)' = {} \/ CodesFor(p) # {}
      BY <2>3, <3>2
    <3>4. call[d].step = "accept" => \A o \in otps' : o.id = call[d].otp => ~o.verified
      BY <1>1, <1>5, <2>1, <2>2, <2>7, <3>1 DEF PhoneAlone
    <3> QED BY <2>1, <2>2, <2>3, <2>7, <3>1, <3>2, <3>3, <3>4 DEF PhoneAlone
  <2>8. \A o \in otps' : o.to = p => accepted[o.id] <= 1
    <3>1. accepted[new.id] = 0
      BY <1>4, <1>5 DEF AccountsInv, AccountsTyped
    <3> QED BY <3>1, <1>1, <2>1, <2>2 DEF PhoneAlone
  <2> QED BY <1>8, <2>1, <2>6, <2>7, <2>8 DEF PhoneAlone
<1>11. \A p \in Phones : PhoneAlone(p)'
  BY <1>10 DEF PhoneAlone
<1>12. \A n \in 1 .. MaxUsers : UserAlone(n)'
  <2>1. \A d \in Callers : call'[d] # call[d] => call'[d].step \notin {"save"} \cup AddressSteps
    BY <1>6, <1>7 DEF AddressSteps
  <2> QED BY <1>1, <1>7, <1>8, <2>1, UsersLeft
<1> QED BY <1>9, <1>11, <1>12 DEF AccountsInv

\* Codes grow older or are deleted.
LEMMA CodesFade ==
  ASSUME AccountsInv, WatchesAccounts, UNCHANGED << users, addresses, last, call >>, otps' \subseteq Otps,
         \A q \in otps' : \E o \in otps :
            q.id = o.id /\ q.to = o.to /\ q.verified = o.verified /\ (Usable(q) => Usable(o)),
         \A o, q \in otps' : o.id = q.id => o = q
  PROVE  AccountsInv'
<1>1. users' = users /\ addresses' = addresses /\ last' = last /\ call' = call
  OBVIOUS
<1>2. call' \in [Callers -> Requests]
  BY <1>1 DEF AccountsInv, AccountsTyped
<1>3. accepted' = accepted /\ given' = given
  BY <1>1, NothingAccepted, NothingGiven
<1>4. AccountsTyped'
  <2>1. \A q \in otps' : q.id <= last.code /\ (accepted[q.id] # 0 => q.verified)
    BY DEF AccountsInv, AccountsTyped
  <2>2. \A c \in Callers : call[c].step \in {"retire", "accept"} =>
          call[c].otp <= last.code /\ \A q \in otps' : q.id = call[c].otp => q.to = call[c].to
    BY DEF AccountsInv, AccountsTyped
  <2> QED BY <1>1, <1>3, <2>1, <2>2 DEF AccountsInv, AccountsTyped, AccountsTypeOK
<1>5. ASSUME NEW p \in Phones, << "phone", p >> \notin crossed'
      PROVE  PhoneAlone(p)'
  <2>1. /\ << "phone", p >> \notin crossed
        /\ \A d, e \in Callers : OnPhone(call'[d], p) /\ OnPhone(call'[e], p) => d = e
    BY <1>2, <1>5, CrossingsRemembered
  <2>2. PhoneAlone(p)
    BY DEF AccountsInv
  <2>3. \A q \in CodesFor(p)' : q \in otps' /\ \E o \in CodesFor(p) : q.id = o.id
    BY DEF CodesFor
  <2>4. \A o, q \in CodesFor(p)' : o = q
    BY <2>1, <2>2, <2>3 DEF PhoneAlone
  <2>5. ASSUME NEW d \in Callers, OnPhone(call[d], p)
        PROVE  /\ call[d].step = "issue" => CodesFor(p)' = {}
               /\ call[d].step = "retire" => \A o \in CodesFor(p)' : o.id = call[d].otp
               /\ call[d].step = "accept" => \A o \in otps' : o.id = call[d].otp => ~o.verified
    BY <2>1, <2>2, <2>3, <2>5 DEF PhoneAlone
  <2>6. \A q \in otps' : q.to = p => accepted[q.id] <= 1
    BY <2>1, <2>2 DEF PhoneAlone
  <2> QED BY <1>1, <1>3, <2>1, <2>4, <2>5, <2>6 DEF PhoneAlone
<1>6. \A p \in Phones : PhoneAlone(p)'
  BY <1>5 DEF PhoneAlone
<1>7. \A n \in 1 .. MaxUsers : UserAlone(n)'
  BY <1>1, <1>2, <1>3, UsersLeft
<1> QED BY <1>4, <1>6, <1>7 DEF AccountsInv

LEMMA CleanupOtpsKeeps == ASSUME AccountsInv, WatchesAccounts, CleanupOtps PROVE AccountsInv'
<1>1. /\ UNCHANGED << users, addresses, last, call >> /\ otps' \subseteq otps
  BY DEF CleanupOtps
<1>2. otps' \subseteq Otps /\ \A o, q \in otps' : o.id = q.id => o = q
  BY <1>1 DEF AccountsInv, AccountsTyped, AccountsTypeOK
<1> QED BY <1>1, <1>2, CodesFade

LEMMA AgeOtpKeeps ==
  ASSUME AccountsInv, WatchesAccounts, NEW id \in 1 .. MaxCodes, AgeOtp(id) PROVE AccountsInv'
<1>1. PICK o \in otps : \E i \in 1 .. 3 :
         o.age = CodeAges[i] /\ otps' = (otps \ {o}) \cup {[o EXCEPT !.age = CodeAges[i + 1]]}
  BY DEF AgeOtp
<1>2. PICK i \in 1 .. 3 : o.age = CodeAges[i] /\ otps' = (otps \ {o}) \cup {[o EXCEPT !.age = CodeAges[i + 1]]}
  BY <1>1
<1> DEFINE older == [o EXCEPT !.age = CodeAges[i + 1]]
<1>3. CodeAges[i + 1] \in {"settled", "expired", "old"} /\ (CodeAges[i + 1] = "settled" => CodeAges[i] = "fresh")
  BY DEF CodeAges
<1>4. /\ older \in Otps /\ older.id = o.id /\ older.to = o.to /\ older.verified = o.verified
      /\ Usable(older) => Usable(o)
  BY <1>2, <1>3 DEF AccountsInv, AccountsTyped, AccountsTypeOK, Otps, Usable
<1> HIDE DEF older
<1>5. \A q \in otps' : (q \in otps /\ q # o) \/ q = older
  BY <1>2 DEF older
<1>6. otps' \subseteq Otps
  BY <1>4, <1>5 DEF AccountsInv, AccountsTyped, AccountsTypeOK
<1>7. \A q, r \in otps' : q.id = r.id => q = r
  BY <1>4, <1>5 DEF AccountsInv, AccountsTyped
<1>8. UNCHANGED << users, addresses, last, call >>
  BY DEF AgeOtp
<1> QED BY <1>4, <1>5, <1>6, <1>7, <1>8, CodesFade


-----------------------------------------------------------------------------
(* Users and addresses. *)

\* A request has read a user or an address, or ends, and wrote nothing.
LEMMA ReadPersonKeeps ==
  ASSUME AccountsInv, WatchesAccounts, NEW c \in Callers, NEW job \in Requests,
         call' = [call EXCEPT ![c] = job], call[c].step # "accept",
         UNCHANGED << otps, users, addresses, last >>,
         job.step \notin {"issue", "retire", "accept"},
         job.step = "save" => job.user \in {NoUser} \cup users,
         job.step \in AddressSteps =>
           job.row.id <= last.address /\ \A a \in addresses : a.id = job.row.id => a.user = job.row.user,
         \A id \in 1 .. MaxUsers : OnUser(job, id) /\ << "user", id >> \notin crossed =>
           /\ job.step \in {"keep", "strike"} /\ job.row.primary => \A a \in PrimariesOf(id) : a.id = job.row.id
           /\ job.step \in {"heir", "promote"} => PrimariesOf(id) = {}
  PROVE  AccountsInv'
<1>1. /\ call' \in [Callers -> Requests]
      /\ \A d \in Callers : call'[d] = IF d = c THEN job ELSE call[d]
  BY NextRequest DEF AccountsInv
<1>2. accepted' = accepted /\ given' = given
  BY <1>1, NothingAccepted, NothingGiven DEF At
<1>3. otps' = otps /\ users' = users /\ addresses' = addresses /\ last' = last
  OBVIOUS
<1>4. AccountsTyped'
  <2>1. job.step = "save" => job.user.id <= last.user
    BY DEF AccountsInv, AccountsTyped, AccountsTypeOK, NoUser
  <2>2. ASSUME NEW d \in Callers
        PROVE  /\ call'[d].step \in {"retire", "accept"} =>
                    call'[d].otp <= last.code /\ \A o \in otps : o.id = call'[d].otp => o.to = call'[d].to
               /\ call'[d].step = "save" => call'[d].user.id <= last.user
               /\ call'[d].step \in AddressSteps =>
                    call'[d].row.id <= last.address /\ \A a \in addresses : a.id = call'[d].row.id => a.user = call'[d].row.user
    BY <1>1, <2>1 DEF AccountsInv, AccountsTyped
  <2> QED BY <1>1, <1>2, <1>3, <2>2 DEF AccountsInv, AccountsTyped, AccountsTypeOK
<1>5. \A p \in Phones : PhoneAlone(p)'
  BY <1>1, <1>2, <1>3, CodesLeft
<1>6. ASSUME NEW id \in 1 .. MaxUsers, << "user", id >> \notin crossed'
      PROVE  UserAlone(id)'
  <2>1. /\ << "user", id >> \notin crossed
        /\ \A d, e \in Callers : OnUser(call'[d], id) /\ OnUser(call'[e], id) => d = e
    BY <1>1, <1>6, CrossingsRemembered
  <2>2. UserAlone(id)
    BY DEF AccountsInv
  <2>3. PrimariesOf(id)' = PrimariesOf(id)
    BY <1>3 DEF PrimariesOf
  <2>4. ASSUME NEW d \in Callers, OnUser(call'[d], id)
        PROVE  /\ call'[d].step = "save" => call'[d].user \in users
               /\ call'[d].step \in {"keep", "strike"} /\ call'[d].row.primary =>
                    \A a \in PrimariesOf(id) : a.id = call'[d].row.id
               /\ call'[d].step \in {"heir", "promote"} => PrimariesOf(id) = {}
    <3>1. CASE d # c
      BY <1>1, <2>1, <2>2, <2>4, <3>1 DEF UserAlone
    <3>2. CASE d = c
      <4>1. call'[d] = job
        BY <1>1, <3>2
      <4>2. job.step = "save" => job.user.id = id
        BY <2>4, <4>1 DEF OnUser, AddressSteps
      <4>3. job.step = "save" => job.user \in users
        BY <4>2, AccountsAssumption DEF NoUser
      <4> QED BY <2>1, <2>4, <4>1, <4>3
    <3> QED BY <3>1, <3>2
  <2> QED BY <1>2, <1>3, <2>1, <2>2, <2>3, <2>4 DEF UserAlone
<1>7. \A id \in 1 .. MaxUsers : UserAlone(id)'
  BY <1>6 DEF UserAlone
<1> QED BY <1>4, <1>5, <1>7 DEF AccountsInv

\* A request ends and wrote nothing.
LEMMA ReturnsKeeps ==
  ASSUME AccountsInv, WatchesAccounts, NEW c \in Callers, Returns(c), call[c].step # "accept",
         UNCHANGED << otps, users, addresses, last >>
  PROVE  AccountsInv'
<1>1. NoCall \in Requests /\ NoCall.step = "none"
  BY DEF Requests, NoCall
<1> QED BY <1>1, ReadPersonKeeps DEF Returns, Goes, OnUser, AddressSteps

\* The user a request will save.
LEMMA ReadUserKeeps ==
  ASSUME AccountsInv, WatchesAccounts, NEW c \in Callers, call[c].step # "accept",
         NEW p \in Phones, NEW u \in {NoUser} \cup users,
         call' = [call EXCEPT ![c] = [step |-> "save", user |-> u, to |-> p]],
         UNCHANGED << otps, users, addresses, last >>
  PROVE  AccountsInv'
<1> DEFINE job == [step |-> "save", user |-> u, to |-> p]
<1>1. job \in Requests /\ job.step = "save" /\ job.user = u
  BY DEF Requests, AccountsInv, AccountsTyped, AccountsTypeOK
<1>2. call' = [call EXCEPT ![c] = job]
  OBVIOUS
<1> HIDE DEF job
<1> QED BY <1>1, <1>2, ReadPersonKeeps DEF AddressSteps

LEMMA LookForUserKeeps ==
  ASSUME AccountsInv, WatchesAccounts, NEW c \in Callers, LookForUser(c)
  PROVE  AccountsInv'
<1> DEFINE to == call[c].to
           u == IF With(to) = {} THEN NoUser ELSE Newest(With(to))
<1>1. /\ call[c].step = "look" /\ UNCHANGED << otps, users, addresses, last >>
      /\ call' = [call EXCEPT ![c] = [step |-> "save", user |-> u, to |-> to]]
  BY DEF LookForUser, At, Goes
<1>2. to \in Phones
  BY <1>1 DEF AccountsInv, AccountsTyped, Requests, NoCall, AddressSteps
<1>3. u \in {NoUser} \cup users
  <2>1. \A w \in With(to) : w \in users /\ w.id \in 0 .. MaxUsers
    BY AccountsAssumption DEF With, AccountsInv, AccountsTyped, AccountsTypeOK, Users
  <2>2. With(to) # {} => Newest(With(to)) \in With(to)
    BY <2>1, NewestIsOne, AccountsAssumption
  <2> QED BY <2>1, <2>2
<1> HIDE DEF u, to
<1> QED BY <1>1, <1>2, <1>3, ReadUserKeeps

LEMMA CreateUserKeeps ==
  ASSUME AccountsInv, WatchesAccounts, NEW c \in Callers, NEW p \in Phones, CreateUser(c, p)
  PROVE  AccountsInv'
<1>1. call[c] = NoCall /\ call[c].step # "accept"
  BY DEF CreateUser, Reads, NoCall
<1> QED BY <1>1, ReadUserKeeps DEF CreateUser, Reads

LEMMA UpdateUserKeeps ==
  ASSUME AccountsInv, WatchesAccounts, NEW c \in Callers, NEW u \in users, NEW p \in Phones, UpdateUser(c, u, p)
  PROVE  AccountsInv'
<1>1. call[c] = NoCall /\ call[c].step # "accept"
  BY DEF UpdateUser, Reads, NoCall
<1> QED BY <1>1, ReadUserKeeps DEF UpdateUser, Reads

LEMMA SaveUserKeeps ==
  ASSUME AccountsInv, WatchesAccounts, NEW c \in Callers, SaveUser(c)
  PROVE  AccountsInv'
<1> DEFINE row == call[c].user
           to == call[c].to
           w == IF row = NoUser THEN [id |-> last.user + 1, phone |-> to] ELSE [row EXCEPT !.phone = to]
<1>1. /\ call[c].step = "save" /\ Returns(c) /\ call' = [call EXCEPT ![c] = NoCall]
      /\ otps' = otps /\ addresses' = addresses
  BY DEF SaveUser, At, Returns, Goes
<1>2. row \in {NoUser} \cup Users /\ to \in Phones /\ row.id <= last.user
  BY <1>1 DEF AccountsInv, AccountsTyped, Requests, NoCall, AddressSteps
<1>3. last \in [code : 0 .. MaxCodes, user : 0 .. MaxUsers, address : 0 .. MaxAddresses]
  BY DEF AccountsInv, AccountsTyped, AccountsTypeOK
<1>4. \A u \in users : u.id \in 1 .. MaxUsers /\ u.id <= last.user /\ u \in Users
  BY DEF AccountsInv, AccountsTyped, AccountsTypeOK, Users
<1>5. CASE UNCHANGED << users, last >>
  BY <1>1, <1>5, ReturnsKeeps
<1>6. CASE ~UNCHANGED << users, last >>
  <2>1. /\ \A u \in users : u.id # row.id => u.phone # to
        /\ IF row = NoUser THEN /\ last.user < MaxUsers /\ users' = users \cup {w}
                                /\ last' = [last EXCEPT !.user = @ + 1]
           ELSE users' = { u \in users : u.id # row.id } \cup {w} /\ last' = last
    BY <1>6 DEF SaveUser
  <2>2. /\ last' \in [code : 0 .. MaxCodes, user : 0 .. MaxUsers, address : 0 .. MaxAddresses]
        /\ last'.code = last.code /\ last'.address = last.address
        /\ last'.user = IF row = NoUser THEN last.user + 1 ELSE last.user
        /\ last.user <= last'.user
    BY <1>3, <2>1, AccountsAssumption
  <2>3. w \in Users /\ w.phone = to /\ w.id = IF row = NoUser THEN last.user + 1 ELSE row.id
    <3>1. CASE row = NoUser
      BY <1>2, <1>3, <2>1, <3>1, AccountsAssumption DEF Users
    <3>2. CASE row # NoUser
      BY <1>2, <3>2 DEF Users
    <3> QED BY <3>1, <3>2
  <2>4. \A u \in users : row = NoUser => u.id # row.id /\ u.id # w.id
    BY <1>3, <1>4, <2>3 DEF NoUser
  <2> HIDE DEF w
  <2>5. \A u \in users' : (u \in users /\ u.id # w.id /\ u.id # row.id) \/ u = w
    BY <2>1, <2>3, <2>4
  <2>6. \A u \in users : u.id # w.id => u \in users'
    BY <2>1, <2>3
  <2>7. w \in users' /\ w.id \in 1 .. MaxUsers
    BY <2>1, <2>3 DEF Users
  <2>8. NoCall \in Requests /\ NoCall.step = "none"
    BY DEF Requests, NoCall
  <2>9. /\ call' \in [Callers -> Requests]
        /\ \A d \in Callers : call'[d] = IF d = c THEN NoCall ELSE call[d]
    BY <1>1, <2>8, NextRequest DEF AccountsInv
  <2>10. accepted' = accepted
    BY <1>1, <2>9, NothingAccepted DEF At
  <2>11. \A id \in 1 .. MaxUsers :
           given'[id] = IF users' # users /\ id = w.id /\ (row = NoUser \/ row.phone # to) THEN to ELSE given[id]
    <3> SUFFICES ASSUME NEW id \in 1 .. MaxUsers
                 PROVE  given'[id] = IF users' # users /\ id = w.id /\ (row = NoUser \/ row.phone # to)
                                     THEN to ELSE given[id]
      OBVIOUS
    <3>1. given'[id] = IF \E d \in Callers : Gives(d, id) THEN (CHOOSE u \in users' : u.id = id).phone ELSE given[id]
      BY DEF WatchesAccounts
    <3>2. \A d \in Callers : Gives(d, id) => d = c
      BY <2>8, <2>9 DEF Gives, At
    <3>3. Gives(c, id) <=> users' # users /\ id = w.id /\ (row = NoUser \/ row.phone # to)
      <4>1. row = NoUser => row.id = 0
        BY DEF NoUser
      <4> QED BY <1>1, <2>2, <2>3, <2>9, <4>1 DEF Gives, At
    <3>4. id = w.id => (CHOOSE u \in users' : u.id = id) = w
      BY <2>5, <2>7
    <3> QED BY <2>3, <3>1, <3>2, <3>3, <3>4
  <2>12. given' \in [1 .. MaxUsers -> Phones \cup {"nobody"}]
    <3>1. DOMAIN given' = 1 .. MaxUsers /\ given' = [id \in 1 .. MaxUsers |-> given'[id]]
      BY DEF WatchesAccounts
    <3>2. \A id \in 1 .. MaxUsers : given'[id] \in Phones \cup {"nobody"}
      BY <1>2, <2>11 DEF AccountsInv, AccountsTyped
    <3> QED BY <3>1, <3>2
  <2> HIDE DEF row, to
  <2>13. AccountsTyped'
    <3>1. users' \subseteq Users
      BY <1>4, <2>3, <2>5
    <3>2. \A u \in users' : u.id <= last'.user
      BY <1>2, <1>3, <1>4, <2>2, <2>3, <2>5
    <3>3. \A u, v \in users' : u.id = v.id \/ u.phone = v.phone => u = v
      BY <2>1, <2>3, <2>5 DEF AccountsInv, AccountsTyped
    <3>4. ASSUME NEW d \in Callers
          PROVE  /\ call'[d].step \in {"retire", "accept"} =>
                      call'[d].otp <= last.code /\ \A o \in otps : o.id = call'[d].otp => o.to = call'[d].to
                 /\ call'[d].step = "save" => call'[d].user.id <= last'.user
                 /\ call'[d].step \in AddressSteps =>
                      call'[d].row.id <= last.address /\ \A a \in addresses : a.id = call'[d].row.id => a.user = call'[d].row.user
      <4>1. CASE d = c
        BY <2>8, <2>9, <4>1 DEF AddressSteps
      <4>2. CASE d # c
        <5>1. call'[d] = call[d]
          BY <2>9, <4>2
        <5>2. call[d].step = "save" => call[d].user.id <= last.user /\ call[d].user.id \in Nat
          BY AccountsAssumption DEF AccountsInv, AccountsTyped, Requests, NoCall, AddressSteps, Users, NoUser
        <5>3. call[d].step = "save" => call[d].user.id <= last'.user
          BY <1>3, <2>2, <5>2
        <5> QED BY <5>1, <5>3 DEF AccountsInv, AccountsTyped
      <4> QED BY <4>1, <4>2
    <3> QED BY <1>1, <2>2, <2>9, <2>10, <2>12, <3>1, <3>2, <3>3, <3>4 DEF AccountsInv, AccountsTyped, AccountsTypeOK
  <2>14. \A p \in Phones : PhoneAlone(p)'
    BY <1>1, <2>8, <2>9, <2>10, CodesLeft
  <2>15. \A id \in 1 .. MaxUsers : PrimariesOf(id)' = PrimariesOf(id)
    BY <1>1 DEF PrimariesOf
  <2>16. ASSUME NEW id \in 1 .. MaxUsers, id # w.id PROVE UserAlone(id)'
    <3>1. given'[id] = given[id]
      BY <2>11, <2>16
    <3>2. \A u \in users' : u.id = id => u \in users
      BY <2>5, <2>16
    <3>3. \A u \in users : u.id = id => u \in users'
      BY <2>6, <2>16
    <3>4. \A d \in Callers : OnUser(call'[d], id) => call'[d] = call[d]
      BY <2>8, <2>9 DEF OnUser, AddressSteps
    <3> QED BY <2>9, <2>15, <3>1, <3>2, <3>3, <3>4, UserLeft
  <2>17. ASSUME NEW n \in 1 .. MaxUsers, n = w.id, << "user", n >> \notin crossed'
        PROVE  UserAlone(n)'
    <3>1. /\ << "user", n >> \notin crossed
          /\ \A d, e \in Callers : OnUser(call'[d], n) /\ OnUser(call'[e], n) => d = e
      BY <2>9, <2>17, CrossingsRemembered
    <3>2. UserAlone(n)
      BY DEF AccountsInv
    <3>3. row # NoUser => OnUser(call[c], n) /\ row \in users
      <4>1. row # NoUser => OnUser(call[c], n)
        BY <1>1, <2>3, <2>17 DEF OnUser, row
      <4> QED BY <4>1, <1>1, <3>1, <3>2 DEF UserAlone, row
    <3>4. given'[n] = to
      <4>1. CASE row = NoUser
        BY <2>4, <2>7, <2>11, <2>17, <4>1
      <4>2. CASE row # NoUser /\ row.phone # to
        <5>1. w \notin users
          BY <2>3, <2>17, <3>3, <4>2 DEF AccountsInv, AccountsTyped
        <5> QED BY <2>7, <2>11, <2>17, <4>2, <5>1
      <4>3. CASE row # NoUser /\ row.phone = to
        <5>1. row.phone = given[n]
          BY <2>3, <2>17, <3>1, <3>2, <3>3, <4>3 DEF UserAlone
        <5> QED BY <2>7, <2>11, <2>17, <4>3, <5>1
      <4> QED BY <4>1, <4>2, <4>3
    <3>5. \A u \in users' : u.id = n => u.phone = given'[n]
      BY <2>3, <2>5, <2>17, <3>4
    <3>6. ASSUME NEW d \in Callers, OnUser(call'[d], n)
          PROVE  /\ call'[d].step # "save"
                 /\ call'[d].step \in {"keep", "strike"} /\ call'[d].row.primary =>
                      \A a \in PrimariesOf(n) : a.id = call'[d].row.id
                 /\ call'[d].step \in {"heir", "promote"} => PrimariesOf(n) = {}
      <4>1. d # c /\ call'[d] = call[d]
        BY <2>8, <2>9, <3>6 DEF OnUser, AddressSteps
      <4>2. row = NoUser
        BY <3>1, <3>2, <3>3, <3>6, <4>1 DEF UserAlone
      <4>3. call[d].step # "save"
        <5> SUFFICES ASSUME call[d].step = "save" PROVE FALSE
          OBVIOUS
        <5>1. call[d].user.id = last.user + 1
          BY <2>3, <2>17, <3>6, <4>1, <4>2 DEF OnUser, AddressSteps
        <5> QED BY <5>1, <1>3 DEF AccountsInv, AccountsTyped
      <4>4. OnUser(call[d], n)
        BY <3>6, <4>1
      <4>5. /\ call[d].step \in {"keep", "strike"} /\ call[d].row.primary =>
                 \A a \in PrimariesOf(n) : a.id = call[d].row.id
            /\ call[d].step \in {"heir", "promote"} => PrimariesOf(n) = {}
        BY <3>1, <3>2, <4>4 DEF UserAlone
      <4> QED BY <4>1, <4>3, <4>5
    <3>7. \A a, b \in PrimariesOf(n) : a = b
      BY <3>1, <3>2 DEF UserAlone
    <3>8. PrimariesOf(n)' = PrimariesOf(n)
      BY <2>15
    <3> QED BY <2>17, <3>1, <3>5, <3>6, <3>7, <3>8 DEF UserAlone
  <2>18. \A id \in 1 .. MaxUsers : UserAlone(id)'
    BY <2>16, <2>17 DEF UserAlone
  <2> QED BY <2>13, <2>14, <2>18 DEF AccountsInv
<1> QED BY <1>5, <1>6


LEMMA RemoveUserKeeps ==
  ASSUME AccountsInv, WatchesAccounts, NEW c \in Callers, NEW u \in users, RemoveUser(c, u)
  PROVE  AccountsInv'
<1>1. /\ users' = users \ {u} /\ addresses' = addresses \ AddressesOf(u.id)
      /\ otps' = otps /\ last' = last /\ call' = call
  BY DEF RemoveUser
<1>2. call' \in [Callers -> Requests]
  BY <1>1 DEF AccountsInv, AccountsTyped
<1>3. accepted' = accepted /\ given' = given
  BY <1>1, NothingAccepted, NothingGiven
<1>4. AccountsTyped'
  BY <1>1, <1>3 DEF AccountsInv, AccountsTyped, AccountsTypeOK
<1>5. \A p \in Phones : PhoneAlone(p)'
  BY <1>1, <1>2, <1>3, CodesLeft
<1>6. ASSUME NEW id \in 1 .. MaxUsers, id # u.id PROVE UserAlone(id)'
  <2>1. PrimariesOf(id)' = PrimariesOf(id)
    BY <1>1, <1>6 DEF PrimariesOf, AddressesOf
  <2>2. \A v \in users' : v.id = id => v \in users
    BY <1>1
  <2>3. \A v \in users : v.id = id => v \in users'
    BY <1>1, <1>6
  <2> QED BY <1>1, <1>2, <1>3, <2>1, <2>2, <2>3, UserLeft
<1>7. ASSUME NEW id \in 1 .. MaxUsers, id = u.id, << "user", id >> \notin crossed'
      PROVE  UserAlone(id)'
  <2>1. \A v \in users' : v.id # id
    BY <1>1, <1>7 DEF AccountsInv, AccountsTyped
  <2>2. \A d \in Callers : ~OnUser(call'[d], id)
    BY <1>1, <1>2, <1>7, <2>1, CrossingsRemembered
  <2>3. PrimariesOf(id)' = {}
    BY <1>1, <1>7 DEF PrimariesOf, AddressesOf
  <2> QED BY <2>1, <2>2, <2>3 DEF UserAlone
<1>8. \A id \in 1 .. MaxUsers : UserAlone(id)'
  BY <1>6, <1>7 DEF UserAlone
<1> QED BY <1>4, <1>5, <1>8 DEF AccountsInv

LEMMA AddressRow ==
  ASSUME AccountsInv, NEW c \in Callers, call[c].step \in AddressSteps
  PROVE  /\ call[c] \in [step : AddressSteps, row : AddressRows]
         /\ call[c].row \in AddressRows /\ call[c].row.user \in 1 .. MaxUsers
         /\ call[c].row.id <= last.address /\ call[c].row.id \in Nat
         /\ \A a \in addresses : a.id = call[c].row.id => a.user = call[c].row.user
<1>1. call[c] \in [step : AddressSteps, row : AddressRows]
  BY DEF AccountsInv, AccountsTyped, Requests, NoCall, AddressSteps
<1>2. call[c].row \in AddressRows
  BY <1>1
<1>3. call[c].row.user \in 1 .. MaxUsers /\ call[c].row.id \in Nat
  BY <1>2, AccountsAssumption DEF AddressRows
<1> QED BY <1>1, <1>2, <1>3 DEF AccountsInv, AccountsTyped

AddressIds == \A a \in addresses : a.id \in 1 .. MaxAddresses /\ a.id <= last.address /\ a \in Addresses

LEMMA AddressIdsHold == AccountsInv => AddressIds
BY DEF AddressIds, AccountsInv, AccountsTyped, AccountsTypeOK, Addresses

\* A request reads an address, or the new one it is sent.
LEMMA ReadAddressKeeps ==
  ASSUME AccountsInv, WatchesAccounts, NEW c \in Callers, NEW step \in AddressSteps, NEW row \in AddressRows,
         call[c].step # "accept", call' = [call EXCEPT ![c] = [step |-> step, row |-> row]],
         UNCHANGED << otps, users, addresses, last >>,
         row.id = 0 \/ \E a \in addresses : a.id = row.id /\ a.user = row.user,
         step \in {"keep", "strike"} /\ row.primary =>
           \E a \in addresses : a.id = row.id /\ a.user = row.user /\ a.primary,
         step \in {"heir", "promote"} /\ << "user", row.user >> \notin crossed => PrimariesOf(row.user) = {}
  PROVE  AccountsInv'
<1> DEFINE job == [step |-> step, row |-> row]
<1>1. job \in Requests /\ job.step = step /\ job.row = row
  BY DEF Requests
<1>2. call' = [call EXCEPT ![c] = job]
  OBVIOUS
<1> HIDE DEF job
<1>3. row.id <= last.address /\ \A a \in addresses : a.id = row.id => a.user = row.user
  <2>1. CASE row.id = 0
    BY <2>1, AddressIdsHold, AccountsAssumption DEF AddressIds, AccountsInv, AccountsTyped, AccountsTypeOK
  <2>2. CASE \E a \in addresses : a.id = row.id /\ a.user = row.user
    BY <2>2 DEF AccountsInv, AccountsTyped
  <2> QED BY <2>1, <2>2
<1>4. ASSUME NEW id \in 1 .. MaxUsers, OnUser(job, id), << "user", id >> \notin crossed
      PROVE  /\ step \in {"keep", "strike"} /\ row.primary => \A a \in PrimariesOf(id) : a.id = row.id
             /\ step \in {"heir", "promote"} => PrimariesOf(id) = {}
  <2>1. row.user = id
    BY <1>1, <1>4 DEF OnUser, AddressSteps
  <2>2. \A a, b \in PrimariesOf(id) : a = b
    BY <1>4 DEF AccountsInv, UserAlone
  <2>3. ASSUME step \in {"keep", "strike"}, row.primary PROVE \A a \in PrimariesOf(id) : a.id = row.id
    <3>1. PICK b \in addresses : b.id = row.id /\ b.user = row.user /\ b.primary
      BY <2>3
    <3>2. b \in PrimariesOf(id)
      BY <2>1, <3>1 DEF PrimariesOf
    <3> QED BY <2>2, <3>1, <3>2
  <2> QED BY <1>4, <2>1, <2>3
<1>5. job.step \notin {"issue", "retire", "accept", "save"}
  BY <1>1 DEF AddressSteps
<1>6. \A id \in 1 .. MaxUsers : OnUser(job, id) /\ << "user", id >> \notin crossed =>
        /\ job.step \in {"keep", "strike"} /\ job.row.primary => \A a \in PrimariesOf(id) : a.id = job.row.id
        /\ job.step \in {"heir", "promote"} => PrimariesOf(id) = {}
  BY <1>1, <1>4
<1>7. job.row.id <= last.address /\ \A a \in addresses : a.id = job.row.id => a.user = job.row.user
  BY <1>1, <1>3
<1> QED BY <1>1, <1>2, <1>5, <1>6, <1>7, ReadPersonKeeps

LEMMA AddAddressKeeps ==
  ASSUME AccountsInv, WatchesAccounts, NEW c \in Callers, NEW u \in users, NEW primary \in BOOLEAN,
         AddAddress(c, u, primary)
  PROVE  AccountsInv'
<1> DEFINE row == [id |-> 0, user |-> u.id, primary |-> primary, active |-> TRUE]
<1>1. u.id \in 1 .. MaxUsers
  BY DEF AccountsInv, AccountsTyped, AccountsTypeOK, Users
<1>2. row \in AddressRows /\ row.id = 0
  BY <1>1, AccountsAssumption DEF AddressRows
<1>3. /\ call[c] = NoCall /\ call' = [call EXCEPT ![c] = [step |-> "demote", row |-> row]]
      /\ UNCHANGED << otps, users, addresses, last >>
  BY DEF AddAddress, Reads
<1>4. call[c].step # "accept" /\ "demote" \in AddressSteps
  BY <1>3 DEF NoCall, AddressSteps
<1> HIDE DEF row
<1> QED BY <1>2, <1>3, <1>4, ReadAddressKeeps

LEMMA RowOf ==
  ASSUME AccountsInv, NEW a \in addresses
  PROVE  a \in AddressRows /\ a \in Addresses
BY AccountsAssumption DEF AccountsInv, AccountsTyped, AccountsTypeOK, Addresses, AddressRows

LEMMA EditAddressKeeps ==
  ASSUME AccountsInv, WatchesAccounts, NEW c \in Callers, NEW a \in addresses,
         NEW sent \in {{}, {TRUE}, {FALSE}}, EditAddress(c, a, sent)
  PROVE  AccountsInv'
<1> DEFINE row == [a EXCEPT !.primary = IF sent = {} THEN @ ELSE TRUE \in sent]
           step == IF TRUE \in sent THEN "demote" ELSE "keep"
<1>1. /\ row \in AddressRows /\ row.id = a.id /\ row.user = a.user
      /\ row.primary = IF sent = {} THEN a.primary ELSE TRUE \in sent
  <2>1. CASE sent = {}
    BY <2>1, RowOf DEF AddressRows
  <2>2. CASE sent = {TRUE}
    BY <2>2, RowOf DEF AddressRows
  <2>3. CASE sent = {FALSE}
    <3>1. TRUE \notin sent /\ sent # {}
      BY <2>3
    <3>2. (TRUE \in sent) \in BOOLEAN
      BY SMT
    <3>3. (TRUE \in sent) = FALSE
      BY <3>1, <3>2, Zenon
    <3>4. (IF sent = {} THEN a.primary ELSE TRUE \in sent) = FALSE
      BY <3>1, <3>3, Zenon
    <3>5. row = [a EXCEPT !.primary = FALSE]
      BY <3>4, Zenon
    <3> HIDE DEF row
    <3>6. row \in AddressRows /\ row.id = a.id /\ row.user = a.user /\ row.primary = FALSE
      BY <3>5, RowOf DEF AddressRows
    <3> QED BY <3>4, <3>6, Zenon
  <2> QED BY <2>1, <2>2, <2>3
<1>2. /\ call[c] = NoCall /\ call' = [call EXCEPT ![c] = [step |-> step, row |-> row]]
      /\ UNCHANGED << otps, users, addresses, last >>
  BY DEF EditAddress, Reads
<1>3. call[c].step # "accept" /\ step \in AddressSteps /\ step \in {"demote", "keep"}
  BY <1>2 DEF NoCall, AddressSteps
<1>4. step \in {"keep", "strike"} /\ row.primary => a.primary
  <2>1. step \in {"keep", "strike"} => TRUE \notin sent
    OBVIOUS
  <2> QED BY <2>1, <1>1
<1> HIDE DEF row, step
<1>5. step \notin {"heir", "promote"}
  BY <1>3
<1> QED BY <1>1, <1>2, <1>3, <1>4, <1>5, ReadAddressKeeps

LEMMA RemoveAddressKeeps ==
  ASSUME AccountsInv, WatchesAccounts, NEW c \in Callers, NEW a \in addresses, RemoveAddress(c, a)
  PROVE  AccountsInv'
<1>1. /\ call[c] = NoCall /\ call' = [call EXCEPT ![c] = [step |-> "strike", row |-> a]]
      /\ UNCHANGED << otps, users, addresses, last >>
  BY DEF RemoveAddress, Reads
<1>2. call[c].step # "accept" /\ "strike" \in AddressSteps
  BY <1>1 DEF NoCall, AddressSteps
<1> QED BY <1>1, <1>2, RowOf, ReadAddressKeeps

LEMMA FindHeirKeeps ==
  ASSUME AccountsInv, WatchesAccounts, NEW c \in Callers, FindHeir(c)
  PROVE  AccountsInv'
<1> DEFINE row == call[c].row
           others == { a \in AddressesOf(row.user) : a.active /\ a.id # row.id }
<1>1. /\ call[c].step = "heir" /\ UNCHANGED << otps, users, addresses, last >>
      /\ others = {} => Returns(c)
      /\ others # {} => call' = [call EXCEPT ![c] = [step |-> "promote", row |-> Newest(others)]]
  BY DEF FindHeir, At, Goes
<1>2. call[c].step # "accept" /\ call[c].step \in AddressSteps /\ "promote" \in AddressSteps
  BY <1>1 DEF AddressSteps
<1>3. CASE others = {}
  BY <1>1, <1>2, <1>3, ReturnsKeeps
<1>4. CASE others # {}
  <2>1. \A a \in others : a \in addresses /\ a.user = row.user /\ a.id \in 0 .. MaxAddresses
    BY AddressIdsHold, AccountsAssumption DEF AddressIds, AddressesOf
  <2>2. Newest(others) \in others
    <3> HIDE DEF others
    <3> QED BY <1>4, <2>1, NewestIsOne, AccountsAssumption
  <2>3. PICK a \in others : a = Newest(others)
    BY <2>2
  <2>4. a \in addresses /\ a.user = row.user /\ a \in AddressRows
    BY <2>1, RowOf
  <2>5. << "user", row.user >> \notin crossed => PrimariesOf(row.user) = {}
    <3>1. row.user \in 1 .. MaxUsers /\ OnUser(call[c], row.user)
      BY <1>2, AddressRow DEF OnUser
    <3> QED BY <3>1, <1>1 DEF AccountsInv, UserAlone
  <2>6. call' = [call EXCEPT ![c] = [step |-> "promote", row |-> a]]
    BY <1>1, <1>4, <2>3
  <2> HIDE DEF others, row
  <2> QED BY <1>1, <1>2, <2>4, <2>5, <2>6, ReadAddressKeeps
<1> QED BY <1>3, <1>4

LEMMA RetireOtpKeeps ==
  ASSUME AccountsInv, WatchesAccounts, NEW c \in Callers, RetireOtp(c)
  PROVE  AccountsInv'
<1>1. /\ call[c].step = "retire" /\ Verified(call[c].otp) /\ UNCHANGED << users, addresses, last >>
      /\ call' = [call EXCEPT ![c] = [step |-> "issue", to |-> call[c].to]]
  BY DEF RetireOtp, At, Goes
<1> QED BY <1>1, VerifiedKeeps

LEMMA AcceptCodeKeeps ==
  ASSUME AccountsInv, WatchesAccounts, NEW c \in Callers, AcceptCode(c)
  PROVE  AccountsInv'
<1>1. /\ call[c].step = "accept" /\ Verified(call[c].otp) /\ UNCHANGED << users, addresses, last >>
      /\ call' = [call EXCEPT ![c] = [step |-> "look", to |-> call[c].to]]
  BY DEF AcceptCode, At, Goes
<1> QED BY <1>1, VerifiedKeeps

-----------------------------------------------------------------------------
(* Writing addresses. *)

AddressesTyped ==
  /\ users' = users /\ otps' = otps /\ last'.code = last.code /\ last'.user = last.user
  /\ last' \in [code : 0 .. MaxCodes, user : 0 .. MaxUsers, address : 0 .. MaxAddresses]
  /\ last.address <= last'.address
  /\ addresses' \subseteq Addresses /\ \A a \in addresses' : a.id <= last'.address
  /\ \A a, b \in addresses' : a.id = b.id => a = b
  /\ \A a \in addresses', d \in Callers :
       call[d].step \in AddressSteps /\ a.id = call[d].row.id => a.user = call[d].row.user

OthersKeepPrimaries(user) == \A id \in 1 .. MaxUsers : id # user => PrimariesOf(id)' = PrimariesOf(id)

PrimariesFit(user, job) ==
  << "user", user >> \notin crossed =>
    /\ \A a, b \in PrimariesOf(user)' : a = b
    /\ job.step \in {"keep", "strike"} /\ job.row.primary => \A a \in PrimariesOf(user)' : a.id = job.row.id
    /\ job.step \in {"heir", "promote"} => PrimariesOf(user)' = {}

\* A request writes addresses of one user, and goes on with the same address.
LEMMA AddressesChange ==
  ASSUME AccountsInv, WatchesAccounts, NEW c \in Callers, NEW job \in Requests, NEW row \in AddressRows,
         call[c].step \in AddressSteps, call[c].row = row, call' = [call EXCEPT ![c] = job],
         job # NoCall => job.step \in AddressSteps /\ job.row.user = row.user /\ job.row.id = row.id,
         AddressesTyped, OthersKeepPrimaries(row.user), PrimariesFit(row.user, job)
  PROVE  AccountsInv'
<1> USE DEF AddressesTyped, OthersKeepPrimaries, PrimariesFit
<1>1. /\ call' \in [Callers -> Requests]
      /\ \A d \in Callers : call'[d] = IF d = c THEN job ELSE call[d]
  BY NextRequest DEF AccountsInv
<1>2. call[c].step \notin {"accept", "save", "none"} /\ NoCall.step = "none"
  BY DEF AddressSteps, NoCall
<1>3. job.step \notin {"issue", "retire", "accept", "save"}
  BY <1>2 DEF AddressSteps
<1>4. accepted' = accepted /\ given' = given
  BY <1>1, <1>2, NothingAccepted, NothingGiven DEF At
<1>5. row.user \in 1 .. MaxUsers /\ row.id <= last.address /\ row.id \in Nat
  BY AddressRow
<1>6. last.address \in Nat /\ last'.address \in Nat
  BY AccountsAssumption DEF AccountsInv, AccountsTyped, AccountsTypeOK
<1>7. AccountsTyped'
  <2>1. ASSUME NEW d \in Callers
        PROVE  /\ call'[d].step \in {"retire", "accept"} =>
                    call'[d].otp <= last.code /\ \A o \in otps : o.id = call'[d].otp => o.to = call'[d].to
               /\ call'[d].step = "save" => call'[d].user.id <= last.user
    BY <1>1, <1>3 DEF AccountsInv, AccountsTyped
  <2>2. ASSUME NEW d \in Callers, call'[d].step \in AddressSteps
        PROVE  /\ call'[d].row.id <= last'.address
               /\ \A a \in addresses' : a.id = call'[d].row.id => a.user = call'[d].row.user
    <3>1. CASE d = c
      <4>1. call'[d] = job /\ job # NoCall
        BY <1>1, <1>2, <2>2, <3>1 DEF AddressSteps
      <4> QED BY <1>5, <1>6, <4>1
    <3>2. CASE d # c
      <4>1. call'[d] = call[d]
        BY <1>1, <3>2
      <4>2. call[d].row.id <= last.address /\ call[d].row.id \in Nat
        BY <2>2, <4>1, AddressRow
      <4> QED BY <1>6, <2>2, <4>1, <4>2
    <3> QED BY <3>1, <3>2
  <2> QED BY <1>1, <1>4, <2>1, <2>2 DEF AccountsInv, AccountsTyped, AccountsTypeOK
<1>8. \A p \in Phones : PhoneAlone(p)'
  BY <1>1, <1>3, <1>4, CodesLeft
<1>9. ASSUME NEW id \in 1 .. MaxUsers, id # row.user PROVE UserAlone(id)'
  <2>1. ~OnUser(job, id)
    BY <1>2, <1>3, <1>9 DEF OnUser, AddressSteps
  <2>2. \A d \in Callers : OnUser(call'[d], id) => call'[d] = call[d]
    BY <1>1, <2>1
  <2> QED BY <1>1, <1>4, <1>9, <2>2, UserLeft
<1>10. ASSUME NEW id \in 1 .. MaxUsers, id = row.user, << "user", id >> \notin crossed'
       PROVE  UserAlone(id)'
  <2>1. /\ << "user", id >> \notin crossed
        /\ \A d, e \in Callers : OnUser(call'[d], id) /\ OnUser(call'[e], id) => d = e
    BY <1>1, <1>10, CrossingsRemembered
  <2>2. UserAlone(id) /\ OnUser(call[c], id)
    BY <1>10 DEF AccountsInv, OnUser
  <2>3. \A d \in Callers : OnUser(call'[d], id) => d = c
    BY <1>1, <2>1, <2>2 DEF UserAlone
  <2>4. \A d \in Callers : OnUser(call'[d], id) => call'[d] = job
    BY <1>1, <2>3
  <2>5. \A u \in users' : u.id = id => u.phone = given'[id]
    BY <1>4, <2>1, <2>2 DEF UserAlone
  <2>6. /\ \A a, b \in PrimariesOf(id)' : a = b
        /\ job.step \in {"keep", "strike"} /\ job.row.primary => \A a \in PrimariesOf(id)' : a.id = job.row.id
        /\ job.step \in {"heir", "promote"} => PrimariesOf(id)' = {}
    BY <1>10, <2>1
  <2> QED BY <1>3, <2>1, <2>4, <2>5, <2>6 DEF UserAlone
<1>11. \A id \in 1 .. MaxUsers : UserAlone(id)'
  BY <1>9, <1>10 DEF UserAlone
<1> QED BY <1>7, <1>8, <1>11 DEF AccountsInv

\* The addresses after a step that changes flags of some.
LEMMA FlagsChange ==
  ASSUME AccountsInv, NEW f, addresses' = { f[a] : a \in addresses },
         \A a \in addresses : f[a] \in Addresses /\ f[a].id = a.id /\ f[a].user = a.user
  PROVE  /\ addresses' \subseteq Addresses /\ \A a \in addresses' : a.id <= last.address
         /\ \A a, b \in addresses' : a.id = b.id => a = b
         /\ \A a \in addresses', d \in Callers :
              call[d].step \in AddressSteps /\ a.id = call[d].row.id => a.user = call[d].row.user
<1>1. ASSUME NEW a \in addresses' PROVE \E b \in addresses : a = f[b]
  OBVIOUS
<1>2. ASSUME NEW a \in addresses', NEW b \in addresses', a.id = b.id PROVE a = b
  <2>1. PICK x \in addresses : a = f[x]
    BY <1>1
  <2>2. PICK y \in addresses : b = f[y]
    BY <1>1
  <2>3. x = y
    BY <1>2, <2>1, <2>2 DEF AccountsInv, AccountsTyped
  <2> QED BY <2>1, <2>2, <2>3
<1>3. ASSUME NEW a \in addresses'
      PROVE  /\ a \in Addresses /\ a.id <= last.address
             /\ \A d \in Callers :
                  call[d].step \in AddressSteps /\ a.id = call[d].row.id => a.user = call[d].row.user
  <2>1. PICK x \in addresses : a = f[x]
    BY <1>1
  <2>2. a \in Addresses /\ a.id = x.id /\ a.user = x.user
    BY <2>1
  <2> QED BY <2>2 DEF AccountsInv, AccountsTyped
<1> QED BY <1>2, <1>3

LEMMA LastTyped ==
  ASSUME AccountsInv
  PROVE  /\ last \in [code : 0 .. MaxCodes, user : 0 .. MaxUsers, address : 0 .. MaxAddresses]
         /\ last.address \in Nat
BY AccountsAssumption DEF AccountsInv, AccountsTyped, AccountsTypeOK

LEMMA DemoteAddressesKeeps ==
  ASSUME AccountsInv, WatchesAccounts, NEW c \in Callers, DemoteAddresses(c)
  PROVE  AccountsInv'
<1>1. /\ call[c].step = "demote" /\ call[c].step \in AddressSteps
      /\ users' = users /\ otps' = otps /\ last' = last
      /\ call' = [call EXCEPT ![c] = [call[c] EXCEPT !.step = "keep"]]
      /\ addresses' = { IF a.user = call[c].row.user THEN [a EXCEPT !.primary = FALSE] ELSE a : a \in addresses }
  BY DEF DemoteAddresses, At, Goes, AddressSteps
<1>2. /\ call[c] \in [step : AddressSteps, row : AddressRows] /\ call[c].row \in AddressRows
  BY <1>1, AddressRow
<1>3. PICK row \in AddressRows : row = call[c].row
  BY <1>2
<1>4. PICK job \in Requests : job = [call[c] EXCEPT !.step = "keep"]
  <2>1. [call[c] EXCEPT !.step = "keep"] \in [step : AddressSteps, row : AddressRows]
    BY <1>2 DEF AddressSteps
  <2> QED BY <2>1 DEF Requests
<1>5. job.step = "keep" /\ job.row = row
  BY <1>2, <1>3, <1>4
<1> DEFINE f == [a \in addresses |-> IF a.user = row.user THEN [a EXCEPT !.primary = FALSE] ELSE a]
<1>6. addresses' = { f[a] : a \in addresses }
  BY <1>1, <1>3
<1>7. \A a \in addresses :
        /\ f[a] \in Addresses /\ f[a].id = a.id /\ f[a].user = a.user
        /\ a.user = row.user => ~f[a].primary
        /\ a.user # row.user => f[a] = a
  BY DEF AccountsInv, AccountsTyped, AccountsTypeOK, Addresses
<1> HIDE DEF f
<1>8. PrimariesOf(row.user)' = {}
  BY <1>6, <1>7 DEF PrimariesOf
<1>9. ASSUME NEW id \in 1 .. MaxUsers, id # row.user PROVE PrimariesOf(id)' = PrimariesOf(id)
  <2>1. \A a \in PrimariesOf(id)' : a \in PrimariesOf(id)
    BY <1>6, <1>7, <1>9 DEF PrimariesOf
  <2>2. \A a \in PrimariesOf(id) : a \in PrimariesOf(id)'
    BY <1>6, <1>7, <1>9 DEF PrimariesOf
  <2> QED BY <2>1, <2>2
<1>10. /\ addresses' \subseteq Addresses /\ \A a \in addresses' : a.id <= last.address
       /\ \A a, b \in addresses' : a.id = b.id => a = b
       /\ \A a \in addresses', d \in Callers :
            call[d].step \in AddressSteps /\ a.id = call[d].row.id => a.user = call[d].row.user
  BY <1>6, <1>7, FlagsChange
<1>11. /\ job.step \in AddressSteps /\ job.row.user = row.user /\ job.row.id = row.id
       /\ \A a, b \in PrimariesOf(row.user)' : a = b
       /\ \A a \in PrimariesOf(row.user)' : a.id = job.row.id
       /\ job.step \notin {"heir", "promote"}
  BY <1>5, <1>8 DEF AddressSteps
<1>12. call[c].row = row /\ call' = [call EXCEPT ![c] = job]
  BY <1>1, <1>3, <1>4
<1>13. /\ last'.code = last.code /\ last'.user = last.user /\ last.address <= last'.address
       /\ last' \in [code : 0 .. MaxCodes, user : 0 .. MaxUsers, address : 0 .. MaxAddresses]
       /\ \A a \in addresses' : a.id <= last'.address
  BY <1>1, <1>10, LastTyped
<1>14. AddressesTyped /\ OthersKeepPrimaries(row.user) /\ PrimariesFit(row.user, job)
  BY <1>1, <1>9, <1>10, <1>11, <1>13 DEF AddressesTyped, OthersKeepPrimaries, PrimariesFit
<1> QED BY <1>1, <1>11, <1>12, <1>14, AddressesChange

LEMMA StrikeAddressKeeps ==
  ASSUME AccountsInv, WatchesAccounts, NEW c \in Callers, StrikeAddress(c)
  PROVE  AccountsInv'
<1>1. /\ call[c].step = "strike" /\ call[c].step \in AddressSteps
      /\ users' = users /\ otps' = otps /\ last' = last
      /\ call' = [call EXCEPT ![c] = IF call[c].row.primary THEN [call[c] EXCEPT !.step = "heir"] ELSE NoCall]
      /\ addresses' = { IF a.id = call[c].row.id THEN [a EXCEPT !.active = FALSE, !.primary = FALSE]
                        ELSE a : a \in addresses }
  BY DEF StrikeAddress, At, Goes, Returns, AddressSteps
<1>2. /\ call[c] \in [step : AddressSteps, row : AddressRows] /\ call[c].row \in AddressRows
      /\ call[c].row.user \in 1 .. MaxUsers /\ \A a \in addresses : a.id = call[c].row.id => a.user = call[c].row.user
  BY <1>1, AddressRow
<1>3. PICK row \in AddressRows : row = call[c].row
  BY <1>2
<1>4. PICK job \in Requests : job = IF call[c].row.primary THEN [call[c] EXCEPT !.step = "heir"] ELSE NoCall
  <2>1. [call[c] EXCEPT !.step = "heir"] \in [step : AddressSteps, row : AddressRows]
    BY <1>2 DEF AddressSteps
  <2>2. NoCall \in Requests /\ [call[c] EXCEPT !.step = "heir"] \in Requests
    BY <2>1 DEF Requests
  <2> QED BY <2>2
<1>5. IF row.primary THEN job.step = "heir" /\ job.row = row ELSE job = NoCall /\ job.step = "none"
  BY <1>2, <1>3, <1>4 DEF NoCall
<1> DEFINE f == [a \in addresses |-> IF a.id = row.id THEN [a EXCEPT !.active = FALSE, !.primary = FALSE] ELSE a]
<1>6. addresses' = { f[a] : a \in addresses }
  BY <1>1, <1>3
<1>7. \A a \in addresses :
        /\ f[a] \in Addresses /\ f[a].id = a.id /\ f[a].user = a.user
        /\ a.id = row.id => ~f[a].primary
        /\ a.id # row.id => f[a] = a
  BY DEF AccountsInv, AccountsTyped, AccountsTypeOK, Addresses
<1> HIDE DEF f
<1>8. \A id, a : a \in PrimariesOf(id)' => a \in PrimariesOf(id) /\ a.id # row.id
  BY <1>6, <1>7 DEF PrimariesOf
<1>9. ASSUME NEW id \in 1 .. MaxUsers, id # row.user PROVE PrimariesOf(id)' = PrimariesOf(id)
  <2>1. \A a \in PrimariesOf(id)' : a \in PrimariesOf(id)
    BY <1>8
  <2>2. \A a \in PrimariesOf(id) : a \in PrimariesOf(id)'
    BY <1>2, <1>3, <1>6, <1>7, <1>9 DEF PrimariesOf
  <2> QED BY <2>1, <2>2
<1>10. /\ addresses' \subseteq Addresses /\ \A a \in addresses' : a.id <= last.address
       /\ \A a, b \in addresses' : a.id = b.id => a = b
       /\ \A a \in addresses', d \in Callers :
            call[d].step \in AddressSteps /\ a.id = call[d].row.id => a.user = call[d].row.user
  BY <1>6, <1>7, FlagsChange
<1>11. ASSUME << "user", row.user >> \notin crossed
       PROVE  /\ \A a, b \in PrimariesOf(row.user)' : a = b
              /\ job.step \in {"heir", "promote"} => PrimariesOf(row.user)' = {}
  <2>1. UserAlone(row.user) /\ OnUser(call[c], row.user)
    BY <1>1, <1>2, <1>3 DEF AccountsInv, OnUser
  <2>2. /\ \A a, b \in PrimariesOf(row.user) : a = b
        /\ row.primary => \A a \in PrimariesOf(row.user) : a.id = row.id
    BY <1>1, <1>3, <1>11, <2>1 DEF UserAlone
  <2>3. \A a, b \in PrimariesOf(row.user)' : a = b
    BY <1>8, <2>2
  <2>4. row.primary => PrimariesOf(row.user)' = {}
    BY <1>8, <2>2
  <2> QED BY <1>5, <2>3, <2>4
<1>12. call[c].row = row /\ call' = [call EXCEPT ![c] = job]
  BY <1>1, <1>3, <1>4
<1>13. /\ last'.code = last.code /\ last'.user = last.user /\ last.address <= last'.address
       /\ last' \in [code : 0 .. MaxCodes, user : 0 .. MaxUsers, address : 0 .. MaxAddresses]
       /\ \A a \in addresses' : a.id <= last'.address
  <2>1. last' = last
    BY <1>1, Zenon
  <2> QED BY <2>1, <1>10, LastTyped
<1>14. /\ job # NoCall => job.step \in AddressSteps /\ job.row.user = row.user /\ job.row.id = row.id
       /\ job.step \notin {"keep", "strike"}
  BY <1>5 DEF AddressSteps
<1>15. AddressesTyped /\ OthersKeepPrimaries(row.user) /\ PrimariesFit(row.user, job)
  BY <1>1, <1>9, <1>10, <1>11, <1>13, <1>14 DEF AddressesTyped, OthersKeepPrimaries, PrimariesFit
<1> QED BY <1>1, <1>12, <1>14, <1>15, AddressesChange

LEMMA PromoteAddressKeeps ==
  ASSUME AccountsInv, WatchesAccounts, NEW c \in Callers, PromoteAddress(c)
  PROVE  AccountsInv'
<1>1. /\ call[c].step = "promote" /\ call[c].step \in AddressSteps
      /\ users' = users /\ otps' = otps /\ last' = last /\ call' = [call EXCEPT ![c] = NoCall]
      /\ addresses' = { IF a.id = call[c].row.id THEN [a EXCEPT !.primary = TRUE] ELSE a : a \in addresses }
  BY DEF PromoteAddress, At, Goes, Returns, AddressSteps
<1>2. /\ call[c].row \in AddressRows
      /\ call[c].row.user \in 1 .. MaxUsers /\ \A a \in addresses : a.id = call[c].row.id => a.user = call[c].row.user
  BY <1>1, AddressRow
<1>3. PICK row \in AddressRows : row = call[c].row
  BY <1>2
<1>4. NoCall \in Requests /\ NoCall.step = "none"
  BY DEF Requests, NoCall
<1> DEFINE f == [a \in addresses |-> IF a.id = row.id THEN [a EXCEPT !.primary = TRUE] ELSE a]
<1>5. addresses' = { f[a] : a \in addresses }
  BY <1>1, <1>3
<1>6. \A a \in addresses :
        /\ f[a] \in Addresses /\ f[a].id = a.id /\ f[a].user = a.user
        /\ a.id # row.id => f[a] = a
  BY DEF AccountsInv, AccountsTyped, AccountsTypeOK, Addresses
<1> HIDE DEF f
<1>7. \A id, a : a \in PrimariesOf(id)' => a \in PrimariesOf(id) \/ a.id = row.id
  BY <1>5, <1>6 DEF PrimariesOf
<1>8. ASSUME NEW id \in 1 .. MaxUsers, id # row.user PROVE PrimariesOf(id)' = PrimariesOf(id)
  <2>1. ASSUME NEW a \in PrimariesOf(id)' PROVE a \in PrimariesOf(id)
    <3>1. PICK b \in addresses : a = f[b]
      BY <1>5 DEF PrimariesOf
    <3>2. a.user = id
      BY DEF PrimariesOf
    <3>3. b.id # row.id
      BY <1>2, <1>3, <1>6, <1>8, <3>1, <3>2
    <3>4. a = b /\ a.primary
      BY <1>6, <3>1, <3>3 DEF PrimariesOf
    <3> QED BY <3>2, <3>4 DEF PrimariesOf
  <2>2. \A a \in PrimariesOf(id) : a \in PrimariesOf(id)'
    BY <1>2, <1>3, <1>5, <1>6, <1>8 DEF PrimariesOf
  <2> QED BY <2>1, <2>2
<1>9. /\ addresses' \subseteq Addresses /\ (\A a \in addresses' : a.id <= last.address)
      /\ \A a, b \in addresses' : a.id = b.id => a = b
      /\ \A a \in addresses', d \in Callers :
           call[d].step \in AddressSteps /\ a.id = call[d].row.id => a.user = call[d].row.user
  BY <1>5, <1>6, FlagsChange
<1>10. ASSUME << "user", row.user >> \notin crossed
       PROVE  \A a, b \in PrimariesOf(row.user)' : a = b
  <2>1. UserAlone(row.user) /\ OnUser(call[c], row.user)
    BY <1>1, <1>2, <1>3 DEF AccountsInv, OnUser
  <2>2. PrimariesOf(row.user) = {}
    BY <1>1, <1>10, <2>1 DEF UserAlone
  <2>3. \A a \in PrimariesOf(row.user)' : a \in addresses' /\ a.id = row.id
    BY <1>7, <2>2 DEF PrimariesOf
  <2> QED BY <1>9, <2>3
<1>11. call[c].row = row
  BY <1>3
<1>12. /\ last'.code = last.code /\ last'.user = last.user /\ last.address <= last'.address
       /\ last' \in [code : 0 .. MaxCodes, user : 0 .. MaxUsers, address : 0 .. MaxAddresses]
       /\ \A a \in addresses' : a.id <= last'.address
  BY <1>1, <1>9, LastTyped
<1>13. NoCall.step \notin {"keep", "strike", "heir", "promote"}
  BY <1>4
<1>14. AddressesTyped /\ OthersKeepPrimaries(row.user) /\ PrimariesFit(row.user, NoCall)
  BY <1>1, <1>8, <1>9, <1>10, <1>12, <1>13 DEF AddressesTyped, OthersKeepPrimaries, PrimariesFit
<1> QED BY <1>1, <1>4, <1>11, <1>14, AddressesChange

LEMMA KeepAddressKeeps ==
  ASSUME AccountsInv, WatchesAccounts, RowsAgree, NEW c \in Callers, KeepAddress(c)
  PROVE  AccountsInv'
<1>1. /\ call[c].step = "keep" /\ call[c].step \in AddressSteps
      /\ users' = users /\ otps' = otps /\ call' = [call EXCEPT ![c] = NoCall]
  BY DEF KeepAddress, At, Goes, Returns, AddressSteps
<1>2. /\ call[c].row \in AddressRows /\ call[c].row.id \in Nat /\ call[c].row.id <= last.address
      /\ call[c].row.user \in 1 .. MaxUsers
      /\ \A a \in addresses : a.id = call[c].row.id => a.user = call[c].row.user
  BY <1>1, AddressRow
<1>3. PICK row \in AddressRows : row = call[c].row
  BY <1>2
<1>4. NoCall \in Requests /\ NoCall.step = "none"
  BY DEF Requests, NoCall
<1>5. CASE addresses' = addresses /\ last' = last
  <2>1. call[c].step # "accept" /\ Returns(c) /\ UNCHANGED << otps, users, addresses, last >>
    BY <1>1, <1>5 DEF Returns, Goes
  <2> QED BY <2>1, ReturnsKeeps
<1>6. ASSUME NEW new \in Addresses, NEW m \in Nat, new.user = row.user, new.primary = row.primary, new.id <= m,
             last' = [last EXCEPT !.address = m], last.address <= m, m <= MaxAddresses,
             addresses' = { a \in addresses : a.id # new.id } \cup {new},
             row.id # 0 => new.id = row.id, row.id = 0 => new.id = last.address + 1
      PROVE  AccountsInv'
  <2>1. /\ last'.code = last.code /\ last'.user = last.user /\ last'.address = m
        /\ last' \in [code : 0 .. MaxCodes, user : 0 .. MaxUsers, address : 0 .. MaxAddresses]
    BY <1>6, LastTyped, AccountsAssumption
  <2>2. \A a \in addresses' : a = new \/ (a \in addresses /\ a.id # new.id)
    BY <1>6
  <2>3. addresses' \subseteq Addresses /\ (\A a \in addresses' : a.id <= last'.address)
    <3>1. ASSUME NEW a \in addresses' PROVE a \in Addresses /\ a.id <= m
      <4>1. CASE a = new
        BY <4>1, <1>6
      <4>2. CASE a \in addresses
        <5>1. a \in Addresses /\ a.id <= last.address /\ a.id \in Nat
          BY <4>2, AddressIdsHold, AccountsAssumption DEF AddressIds
        <5> QED BY <5>1, <1>6, LastTyped
      <4> QED BY <2>2, <4>1, <4>2
    <3> QED BY <3>1, <2>1
  <2>4. \A a, b \in addresses' : a.id = b.id => a = b
    BY <2>2 DEF AccountsInv, AccountsTyped
  <2>5. ASSUME NEW a \in addresses', NEW d \in Callers, call[d].step \in AddressSteps, a.id = call[d].row.id
        PROVE  a.user = call[d].row.user
    <3>1. CASE a # new
      BY <2>2, <2>5, <3>1 DEF AccountsInv, AccountsTyped
    <3>2. CASE a = new /\ row.id = 0
      <4>1. call[d].row.id <= last.address /\ call[d].row.id \in Nat
        BY <2>5, AddressRow
      <4> QED BY <1>6, <2>5, <3>2, <4>1, LastTyped
    <3>3. CASE a = new /\ row.id # 0
      BY <1>1, <1>3, <1>6, <2>5, <3>3 DEF RowsAgree
    <3> QED BY <3>1, <3>2, <3>3
  <2>6. AddressesTyped
    BY <1>1, <1>6, <2>1, <2>3, <2>4, <2>5 DEF AddressesTyped
  <2>7. \A a \in addresses : a.id = new.id => a.user = new.user
    <3> SUFFICES ASSUME NEW a \in addresses, a.id = new.id PROVE a.user = new.user
      OBVIOUS
    <3>1. CASE row.id # 0
      BY <1>2, <1>3, <1>6, <3>1
    <3>2. CASE row.id = 0
      <4>1. a.id <= last.address /\ a.id \in Nat
        BY AddressIdsHold, AccountsAssumption DEF AddressIds
      <4> QED BY <1>6, <3>2, <4>1, LastTyped
    <3> QED BY <3>1, <3>2
  <2>8. ASSUME NEW id \in 1 .. MaxUsers, id # row.user PROVE PrimariesOf(id)' = PrimariesOf(id)
    <3>1. \A a \in PrimariesOf(id)' : a \in PrimariesOf(id)
      BY <1>6, <2>2, <2>8 DEF PrimariesOf
    <3>2. \A a \in PrimariesOf(id) : a \in PrimariesOf(id)'
      BY <1>6, <2>7, <2>8 DEF PrimariesOf
    <3> QED BY <3>1, <3>2
  <2>9. ASSUME << "user", row.user >> \notin crossed
        PROVE  \A a, b \in PrimariesOf(row.user)' : a = b
    <3>1. UserAlone(row.user) /\ OnUser(call[c], row.user)
      BY <1>1, <1>2, <1>3 DEF AccountsInv, OnUser
    <3>2. /\ \A a, b \in PrimariesOf(row.user) : a = b
          /\ row.primary => \A a \in PrimariesOf(row.user) : a.id = row.id
      BY <1>1, <1>3, <2>9, <3>1 DEF UserAlone
    <3>3. \A a \in PrimariesOf(row.user)' :
            (a = new /\ row.primary) \/ (a \in PrimariesOf(row.user) /\ a.id # new.id)
      BY <1>6, <2>2 DEF PrimariesOf
    <3>4. row.primary => \A a \in PrimariesOf(row.user)' : a = new
      <4> SUFFICES ASSUME row.primary, NEW a \in PrimariesOf(row.user)', a # new PROVE FALSE
        OBVIOUS
      <4>1. a \in PrimariesOf(row.user) /\ a.id # new.id /\ a.id = row.id
        BY <3>2, <3>3
      <4>2. a \in addresses
        BY <4>1 DEF PrimariesOf
      <4>3. a.id \in 1 .. MaxAddresses
        BY <4>2, AddressIdsHold DEF AddressIds
      <4> QED BY <1>6, <4>1, <4>3, AccountsAssumption
    <3> QED BY <3>2, <3>3, <3>4
  <2>10. OthersKeepPrimaries(row.user) /\ PrimariesFit(row.user, NoCall)
    BY <1>4, <2>8, <2>9 DEF OthersKeepPrimaries, PrimariesFit
  <2> QED BY <1>1, <1>3, <1>4, <2>6, <2>10, AddressesChange
<1>7. row.user \in 1 .. MaxUsers /\ row.primary \in BOOLEAN /\ row.active \in BOOLEAN /\ row.id \in 0 .. MaxAddresses
  BY DEF AddressRows
<1>8. CASE /\ row.id = 0 /\ last.address < MaxAddresses
           /\ addresses' = addresses \cup {[row EXCEPT !.id = last.address + 1]}
           /\ last' = [last EXCEPT !.address = @ + 1]
  <2>1. PICK new : new = [row EXCEPT !.id = last.address + 1]
    OBVIOUS
  <2>2. /\ new \in Addresses /\ new.user = row.user /\ new.primary = row.primary /\ new.id = last.address + 1
        /\ last.address + 1 \in Nat
    BY <1>7, <1>8, <2>1, LastTyped, AccountsAssumption DEF Addresses, AddressRows
  <2>3. PICK m \in Nat : m = last.address + 1
    BY <2>2
  <2>4. { a \in addresses : a.id # new.id } = addresses
    BY <2>2, LastTyped, AddressIdsHold, AccountsAssumption DEF AddressIds
  <2>5. /\ new.id <= m /\ last' = [last EXCEPT !.address = m] /\ last.address <= m /\ m <= MaxAddresses
        /\ addresses' = { a \in addresses : a.id # new.id } \cup {new}
    BY <1>8, <2>1, <2>2, <2>3, <2>4, LastTyped, AccountsAssumption
  <2> QED BY <1>6, <1>8, <2>2, <2>5
<1>9. CASE /\ row.id # 0 /\ last' = last
           /\ addresses' = { a \in addresses : a.id # row.id } \cup {row}
  <2>1. row \in Addresses
    BY <1>7, <1>9, AccountsAssumption DEF Addresses, AddressRows
  <2>2. PICK m \in Nat : m = last.address
    BY LastTyped
  <2>3. last' = [last EXCEPT !.address = m] /\ m <= MaxAddresses /\ last.address <= m /\ row.id <= m
    BY <1>2, <1>3, <1>9, <2>2, LastTyped, AccountsAssumption
  <2> QED BY <1>6, <1>9, <2>1, <2>3
<1>10. \/ addresses' = addresses /\ last' = last
       \/ /\ row.id = 0 /\ last.address < MaxAddresses
          /\ addresses' = addresses \cup {[row EXCEPT !.id = last.address + 1]}
          /\ last' = [last EXCEPT !.address = @ + 1]
       \/ /\ row.id # 0 /\ last' = last
          /\ addresses' = { a \in addresses : a.id # row.id } \cup {row}
  BY <1>3 DEF KeepAddress
<1> QED BY <1>5, <1>8, <1>9, <1>10

-----------------------------------------------------------------------------
(* The requests that hold one address agree on its user. *)

LEMMA RowsStillAgree ==
  ASSUME AccountsInv, RowsAgree, NEW c \in Callers, NEW job, call' = [call EXCEPT ![c] = job],
         job.step \in AddressSteps =>
           \/ job.row.id = 0
           \/ \E a \in addresses : a.id = job.row.id /\ a.user = job.row.user
           \/ call[c].step \in AddressSteps /\ call[c].row.id = job.row.id /\ call[c].row.user = job.row.user
  PROVE  RowsAgree'
<1>1. \A d \in Callers : call'[d] = IF d = c THEN job ELSE call[d]
  BY DEF AccountsInv, AccountsTyped
<1>2. ASSUME NEW d \in Callers, d # c, call[d].step \in AddressSteps, job.step \in AddressSteps,
             call[d].row.id = job.row.id, job.row.id # 0
      PROVE  call[d].row.user = job.row.user
  <2>1. CASE \E a \in addresses : a.id = job.row.id /\ a.user = job.row.user
    <3>1. PICK a \in addresses : a.id = job.row.id /\ a.user = job.row.user
      BY <2>1
    <3> QED BY <3>1, <1>2, AddressRow
  <2>2. CASE call[c].step \in AddressSteps /\ call[c].row.id = job.row.id /\ call[c].row.user = job.row.user
    BY <1>2, <2>2 DEF RowsAgree
  <2> QED BY <1>2, <2>1, <2>2
<1>3. ASSUME NEW d \in Callers, NEW e \in Callers, call'[d].step \in AddressSteps, call'[e].step \in AddressSteps,
             call'[d].row.id = call'[e].row.id, call'[d].row.id # 0
      PROVE  call'[d].row.user = call'[e].row.user
  BY <1>1, <1>2, <1>3 DEF RowsAgree
<1> QED BY <1>3 DEF RowsAgree

LEMMA OthersAgree ==
  ASSUME AccountsInv, RowsAgree, NEW c \in Callers, NEW job, call' = [call EXCEPT ![c] = job],
         job.step \notin AddressSteps
  PROVE  RowsAgree'
BY RowsStillAgree

LEMMA CallsAgree == ASSUME AccountsInv, RowsAgree, NEW c \in Callers, Calls(c) PROVE RowsAgree'
<1>1. ASSUME NEW a \in addresses, NEW sent \in {{}, {TRUE}, {FALSE}}, EditAddress(c, a, sent) PROVE RowsAgree'
  <2> DEFINE row == [a EXCEPT !.primary = IF sent = {} THEN @ ELSE TRUE \in sent]
             job == [step |-> IF TRUE \in sent THEN "demote" ELSE "keep", row |-> row]
  <2>1. row.id = a.id /\ row.user = a.user
    BY RowOf DEF AddressRows
  <2>2. job.row = row /\ call' = [call EXCEPT ![c] = job]
    BY <1>1 DEF EditAddress, Reads
  <2> HIDE DEF row, job
  <2> QED BY <2>1, <2>2, RowsStillAgree
<1>2. ASSUME NEW u \in users, NEW primary \in BOOLEAN, AddAddress(c, u, primary) PROVE RowsAgree'
  <2> DEFINE job == [step |-> "demote",
                     row |-> [id |-> 0, user |-> u.id, primary |-> primary, active |-> TRUE]]
  <2>1. job.row.id = 0 /\ call' = [call EXCEPT ![c] = job]
    BY <1>2 DEF AddAddress, Reads
  <2> HIDE DEF job
  <2> QED BY <2>1, RowsStillAgree
<1>3. ASSUME NEW a \in addresses, RemoveAddress(c, a) PROVE RowsAgree'
  <2> DEFINE job == [step |-> "strike", row |-> a]
  <2>1. job.row = a /\ call' = [call EXCEPT ![c] = job]
    BY <1>3 DEF RemoveAddress, Reads
  <2> HIDE DEF job
  <2> QED BY <2>1, RowsStillAgree
<1>4. ASSUME NEW u \in users, RemoveUser(c, u) PROVE RowsAgree'
  BY <1>4 DEF RemoveUser, RowsAgree
<1>5. ASSUME ManagesUsers(c), \A u \in users : ~RemoveUser(c, u) PROVE RowsAgree'
  <2>1. PICK u, p : call' = [call EXCEPT ![c] = [step |-> "save", user |-> u, to |-> p]]
    BY <1>5 DEF ManagesUsers, UpdateUser, CreateUser, CreateUserWithRole, Reads
  <2> DEFINE job == [step |-> "save", user |-> u, to |-> p]
  <2>2. job.step \notin AddressSteps /\ call' = [call EXCEPT ![c] = job]
    BY <2>1 DEF AddressSteps
  <2> HIDE DEF job
  <2> QED BY <2>2, OthersAgree
<1>6. ASSUME NEW step \in PhoneSteps, NEW p, NEW id,
             \/ call' = [call EXCEPT ![c] = [step |-> step, to |-> p]]
             \/ call' = [call EXCEPT ![c] = [step |-> step, to |-> p, otp |-> id]]
      PROVE  RowsAgree'
  <2> DEFINE short == [step |-> step, to |-> p]
             long == [step |-> step, to |-> p, otp |-> id]
  <2>1. short.step = step /\ long.step = step /\ step \notin AddressSteps
    BY DEF PhoneSteps, AddressSteps
  <2>2. call' = [call EXCEPT ![c] = short] \/ call' = [call EXCEPT ![c] = long]
    BY <1>6
  <2> HIDE DEF short, long
  <2> QED BY <2>1, <2>2, OthersAgree
<1>7. ASSUME NEW p \in Phones, RequestOtp(c, p) PROVE RowsAgree'
  <2>1. \/ call' = [call EXCEPT ![c] = [step |-> "issue", to |-> p]]
        \/ call' = [call EXCEPT ![c] = [step |-> "retire", to |-> p, otp |-> Newest(CodesFor(p)).id]]
    BY <1>7 DEF RequestOtp, Reads
  <2>2. "issue" \in PhoneSteps /\ "retire" \in PhoneSteps
    BY DEF PhoneSteps
  <2> QED BY <1>6, <2>1, <2>2
<1>8. ASSUME NEW p \in Phones, NEW digits \in Digits, SubmitCode(c, p, digits) PROVE RowsAgree'
  <2>1. PICK live : call' = [call EXCEPT ![c] = [step |-> "accept", to |-> p, otp |-> Newest(live).id]]
    BY <1>8 DEF SubmitCode, Reads
  <2>2. "accept" \in PhoneSteps
    BY DEF PhoneSteps
  <2> QED BY <1>6, <2>1, <2>2
<1> QED BY <1>1, <1>2, <1>3, <1>4, <1>5, <1>7, <1>8 DEF Calls, ManagesAddresses, SignsIn

LEMMA ContinuesAgree == ASSUME AccountsInv, RowsAgree, NEW c \in Callers, Continues(c) PROVE RowsAgree'
<1>1. ASSUME Returns(c) PROVE RowsAgree'
  <2>1. NoCall.step \notin AddressSteps /\ call' = [call EXCEPT ![c] = NoCall]
    BY <1>1 DEF Returns, Goes, NoCall, AddressSteps
  <2> QED BY <2>1, OthersAgree
<1>2. ASSUME NEW job, job.step \in PhoneSteps, call' = [call EXCEPT ![c] = job] PROVE RowsAgree'
  <2>1. job.step \notin AddressSteps
    BY <1>2 DEF PhoneSteps, AddressSteps
  <2> QED BY <1>2, <2>1, OthersAgree
<1>8. ASSUME RetireOtp(c) \/ AcceptCode(c) \/ LookForUser(c) PROVE RowsAgree'
  <2> DEFINE issue == [step |-> "issue", to |-> call[c].to]
             look == [step |-> "look", to |-> call[c].to]
             save == [step |-> "save", user |-> IF With(call[c].to) = {} THEN NoUser
                                                 ELSE Newest(With(call[c].to)), to |-> call[c].to]
  <2>1. issue.step \in PhoneSteps /\ look.step \in PhoneSteps /\ save.step \in PhoneSteps
    BY DEF PhoneSteps
  <2>2. \/ call' = [call EXCEPT ![c] = issue] \/ call' = [call EXCEPT ![c] = look]
        \/ call' = [call EXCEPT ![c] = save]
    BY <1>8 DEF RetireOtp, AcceptCode, LookForUser, Goes
  <2> HIDE DEF issue, look, save
  <2> QED BY <1>2, <2>1, <2>2
<1>3. ASSUME call[c].step \in AddressSteps, NEW next \in AddressSteps,
             call' = [call EXCEPT ![c] = [call[c] EXCEPT !.step = next]]
      PROVE  RowsAgree'
  <2>1. [call[c] EXCEPT !.step = next].row = call[c].row
    BY <1>3, AddressRow
  <2> QED BY <1>3, <2>1, RowsStillAgree
<1>4. ASSUME DemoteAddresses(c) PROVE RowsAgree'
  BY <1>3, <1>4 DEF DemoteAddresses, At, Goes, AddressSteps
<1>5. ASSUME StrikeAddress(c) PROVE RowsAgree'
  <2>1. Returns(c) \/ (call[c].step = "strike" /\ call' = [call EXCEPT ![c] = [call[c] EXCEPT !.step = "heir"]])
    BY <1>5 DEF StrikeAddress, At, Goes
  <2>2. "strike" \in AddressSteps /\ "heir" \in AddressSteps
    BY DEF AddressSteps
  <2> QED BY <1>1, <1>3, <2>1, <2>2
<1>6. ASSUME FindHeir(c) PROVE RowsAgree'
  <2> DEFINE others == { a \in AddressesOf(call[c].row.user) : a.active /\ a.id # call[c].row.id }
  <2>1. CASE others = {}
    BY <1>1, <1>6, <2>1 DEF FindHeir
  <2>2. CASE others # {}
    <3>1. \A a \in others : a \in addresses /\ a.id \in 0 .. MaxAddresses
      BY AddressIdsHold, AccountsAssumption DEF AddressIds, AddressesOf
    <3>2. call' = [call EXCEPT ![c] = [step |-> "promote", row |-> Newest(others)]]
      BY <1>6, <2>2 DEF FindHeir, Goes
    <3> HIDE DEF others
    <3>3. Newest(others) \in addresses
      BY <2>2, <3>1, NewestIsOne, AccountsAssumption
    <3>4. PICK a \in addresses : a = Newest(others)
      BY <3>3
    <3> DEFINE job == [step |-> "promote", row |-> a]
    <3>5. job.row = a /\ call' = [call EXCEPT ![c] = job]
      BY <3>2, <3>4
    <3> HIDE DEF job
    <3> QED BY <3>5, RowsStillAgree
  <2> QED BY <2>1, <2>2
<1>7. ASSUME PromoteAddress(c) \/ KeepAddress(c) \/ SaveUser(c) \/ \E digits \in Digits : IssueOtp(c, digits)
      PROVE  RowsAgree'
  BY <1>1, <1>7 DEF PromoteAddress, KeepAddress, SaveUser, IssueOtp
<1> QED BY <1>4, <1>5, <1>6, <1>7, <1>8 DEF Continues

-----------------------------------------------------------------------------

LEMMA AccountsStart == WatchedAccountsInit => AccountsInv /\ RowsAgree
<1> SUFFICES ASSUME WatchedAccountsInit PROVE AccountsInv /\ RowsAgree
  OBVIOUS
<1>1. /\ otps = {} /\ users = {} /\ addresses = {} /\ crossed = {}
      /\ last = [code |-> 0, user |-> 0, address |-> 0] /\ call = [c \in Callers |-> NoCall]
      /\ accepted = [id \in 1 .. MaxCodes |-> 0] /\ given = [id \in 1 .. MaxUsers |-> "nobody"]
  BY DEF WatchedAccountsInit, AccountsInit
<1>2. /\ \A c \in Callers : call[c] = NoCall /\ call[c].step = "none"
      /\ NoCall \in Requests
  BY <1>1 DEF NoCall, Requests
<1>3. last \in [code : 0 .. MaxCodes, user : 0 .. MaxUsers, address : 0 .. MaxAddresses]
  <2>1. 0 \in 0 .. MaxCodes /\ 0 \in 0 .. MaxUsers /\ 0 \in 0 .. MaxAddresses
    BY AccountsAssumption
  <2> QED BY <1>1, <2>1
<1>4. call \in [Callers -> Requests]
  BY <1>1, <1>2
<1>5. accepted \in [1 .. MaxCodes -> Nat] /\ given \in [1 .. MaxUsers -> Phones \cup {"nobody"}]
  BY <1>1
<1>6. AccountsTyped
  BY <1>1, <1>2, <1>3, <1>4, <1>5 DEF AccountsTyped, AccountsTypeOK, AddressSteps
<1>7. \A p \in Phones : PhoneAlone(p)
  BY <1>1, <1>2 DEF PhoneAlone, OnPhone, PhoneSteps, CodesFor
<1>8. \A id \in 1 .. MaxUsers : UserAlone(id)
  BY <1>1, <1>2 DEF UserAlone, OnUser, AddressSteps, PrimariesOf
<1>9. RowsAgree
  BY <1>2 DEF RowsAgree, AddressSteps
<1> QED BY <1>6, <1>7, <1>8, <1>9 DEF AccountsInv

LEMMA CallsKeep == ASSUME AccountsInv, WatchesAccounts, NEW c \in Callers, Calls(c) PROVE AccountsInv'
<1>1. ASSUME SignsIn(c) PROVE AccountsInv'
  BY <1>1, RequestOtpKeeps, SubmitCodeKeeps DEF SignsIn
<1>2. ASSUME ManagesUsers(c) PROVE AccountsInv'
  BY <1>2, RemoveUserKeeps, UpdateUserKeeps, CreateUserKeeps DEF ManagesUsers, CreateUserWithRole
<1>3. ASSUME ManagesAddresses(c) PROVE AccountsInv'
  BY <1>3, AddAddressKeeps, RemoveAddressKeeps, EditAddressKeeps DEF ManagesAddresses
<1> QED BY <1>1, <1>2, <1>3 DEF Calls

LEMMA ContinuesKeep ==
  ASSUME AccountsInv, RowsAgree, WatchesAccounts, NEW c \in Callers, Continues(c) PROVE AccountsInv'
BY RetireOtpKeeps, IssueOtpKeeps, AcceptCodeKeeps, LookForUserKeeps, SaveUserKeeps, DemoteAddressesKeeps,
   KeepAddressKeeps, StrikeAddressKeeps, FindHeirKeeps, PromoteAddressKeeps DEF Continues

LEMMA AccountsStep ==
  ASSUME AccountsInv, RowsAgree, [WatchedAccountsNext]_<< accountsVars, accountsWatch >>
  PROVE  AccountsInv' /\ RowsAgree'
<1>1. CASE UNCHANGED << accountsVars, accountsWatch >>
  <2>1. /\ otps' = otps /\ users' = users /\ addresses' = addresses /\ last' = last /\ call' = call
        /\ crossed' = crossed /\ accepted' = accepted /\ given' = given
    BY <1>1 DEF accountsVars, accountsWatch
  <2>2. AccountsTyped' /\ RowsAgree'
    BY <2>1 DEF AccountsInv, AccountsTyped, AccountsTypeOK, RowsAgree
  <2>3. \A p \in Phones : CodesFor(p)' = CodesFor(p)
    BY <2>1 DEF CodesFor
  <2>4. \A p \in Phones : PhoneAlone(p)'
    BY <2>1, <2>3 DEF AccountsInv, PhoneAlone
  <2>5. \A id \in 1 .. MaxUsers : PrimariesOf(id)' = PrimariesOf(id)
    BY <2>1 DEF PrimariesOf
  <2>6. \A id \in 1 .. MaxUsers : UserAlone(id)'
    BY <2>1, <2>5 DEF AccountsInv, UserAlone
  <2> QED BY <2>2, <2>4, <2>6 DEF AccountsInv
<1>2. CASE WatchedAccountsNext
  <2>1. WatchesAccounts
    BY <1>2 DEF WatchedAccountsNext
  <2>2. ASSUME NEW c \in Callers, Calls(c) PROVE AccountsInv' /\ RowsAgree'
    BY <2>1, <2>2, CallsKeep, CallsAgree
  <2>3. ASSUME NEW c \in Callers, Continues(c) PROVE AccountsInv' /\ RowsAgree'
    BY <2>1, <2>3, ContinuesKeep, ContinuesAgree
  <2>4. ASSUME TimePasses PROVE AccountsInv' /\ RowsAgree'
    <3>1. AccountsInv'
      BY <2>1, <2>4, CleanupOtpsKeeps, AgeOtpKeeps DEF TimePasses
    <3>2. call' = call
      BY <2>4 DEF TimePasses, CleanupOtps, AgeOtp
    <3>3. RowsAgree'
      BY <3>2 DEF RowsAgree
    <3> QED BY <3>1, <3>3
  <2> QED BY <1>2, <2>2, <2>3, <2>4 DEF WatchedAccountsNext
<1> QED BY <1>1, <1>2

LEMMA AccountsInvHolds == WatchedAccountsSpec => [](AccountsInv /\ RowsAgree)
BY AccountsStart, AccountsStep, PTL DEF WatchedAccountsSpec

\* Every row of the accounts' tables has its columns' values and an id that
\* was given, whatever the requests in progress (otps.service.ts,
\* user.service.ts, address.service.ts).
THEOREM AccountsTyping == WatchedAccountsSpec => []AccountsTypeOK
<1>1. AccountsInv => AccountsTypeOK
  BY DEF AccountsInv, AccountsTyped
<1> QED BY <1>1, AccountsInvHolds, PTL

LEMMA AtMostOne == ASSUME NEW S, \A x, y \in S : x = y PROVE Cardinality(S) <= 1
<1>1. CASE S = {}
  BY <1>1, FS_EmptySet
<1>2. CASE S # {}
  <2>1. PICK x \in S : TRUE
    BY <1>2
  <2>2. S = {x}
    OBVIOUS
  <2> QED BY <2>2, FS_Singleton
<1> QED BY <1>1, <1>2

\* Codes are single and accepted once, users keep the number they were last
\* given and have one primary address at most, unless requests overlapped on
\* the number or the user (otps.service.ts, user.service.ts, address.service.ts).
THEOREM AccountsKept == WatchedAccountsSpec => []AccountsSound
<1>1. ASSUME AccountsInv PROVE AccountsSound
  <2>1. ASSUME NEW p \in Phones, << "phone", p >> \notin crossed
        PROVE  Cardinality(CodesFor(p)) <= 1 /\ \A o \in otps : o.to = p => accepted[o.id] <= 1
    BY <1>1, <2>1, AtMostOne DEF AccountsInv, PhoneAlone
  <2>2. ASSUME NEW u \in users, << "user", u.id >> \notin crossed
        PROVE  u.phone = given[u.id] /\ Cardinality({ a \in AddressesOf(u.id) : a.primary }) <= 1
    <3>1. PICK id \in 1 .. MaxUsers : id = u.id
      BY <1>1 DEF AccountsInv, AccountsTyped, AccountsTypeOK, Users
    <3>2. UserAlone(id)
      BY <1>1 DEF AccountsInv
    <3>3. { a \in AddressesOf(u.id) : a.primary } = PrimariesOf(id)
      BY <3>1 DEF AddressesOf, PrimariesOf
    <3> QED BY <2>2, <3>1, <3>2, <3>3, AtMostOne DEF UserAlone
  <2> QED BY <2>1, <2>2 DEF AccountsSound
<1> QED BY <1>1, AccountsInvHolds, PTL

-----------------------------------------------------------------------------
\* The small tables.

Rows == [id : 0 .. MaxRows, key : Keys, order : Nat, active : BOOLEAN]
Writes == {NoEntry} \cup [step : {"save"}, row : Rows] \cup [step : {"count"}, product : Keys]
                    \cup [step : {"clean"}]
Cleaners == { e \in Keepers : entry[e].step = "clean" }

\* Which requests a table has, whose ids are single and given.
RegistersTyped ==
  /\ RegistersTypeOK /\ IsFiniteSet(entered) /\ entry \in [Keepers -> Writes]
  /\ clashed \in BOOLEAN /\ arranged \in BOOLEAN /\ uncleaned \in Nat
  /\ \A r \in entered : r.id <= lastId
  /\ \A r, s \in entered : r.id = s.id => r = s
  /\ \A e \in Keepers :
       /\ entry[e].step = "save" => table # "views" /\ entry[e].row.id <= lastId
       /\ entry[e].step = "count" => table = "compare"
       /\ entry[e].step = "clean" => table = "views"

\* Requests that do not clash are one after the other.
OneWrites == ~clashed => \A e, f \in Keepers : Writing(e) /\ Writing(f) => e = f

KeysSingle ==
  (table \in Indexed \/ ~clashed) /\ table # "giftWrappings" =>
    /\ \A r, s \in entered : r.key = s.key => r = s
    /\ table \notin Indexed => \A e \in Keepers : entry[e].step = "save" =>
         \A r \in entered : r.key = entry[e].row.key => r.id = entry[e].row.id

PlacesSingle ==
  ~clashed /\ ~arranged /\ table \in Arrangeable =>
    /\ \A r, s \in entered : r.order = s.order => r = s
    /\ \A e \in Keepers : entry[e].step = "save" =>
         \A r \in entered : r.order = entry[e].row.order => r.id = entry[e].row.id

CompareBounded ==
  ~clashed /\ table = "compare" =>
    /\ Cardinality(entered) <= CompareLimit
    /\ \A e \in Keepers : entry[e].step = "save" =>
         entry[e].row.id = 0 /\ Cardinality(entered) < CompareLimit

ViewsBounded ==
  table = "views" =>
    /\ \A r, s \in entered : r.order = s.order => r = s
    /\ Cardinality(entered) <= MaxViews + uncleaned + Cardinality(Cleaners)

RegistersInv ==
  RegistersTyped /\ OneWrites /\ KeysSingle /\ PlacesSingle /\ CompareBounded /\ ViewsBounded

-----------------------------------------------------------------------------

LEMMA SmallestSubset ==
  ASSUME NEW S, IsFiniteSet(S), NEW W, W \subseteq SUBSET S, W # {}
  PROVE \E A \in W : \A B \in W : B \subseteq A => B = A
<1>1. PICK x \in W : \A y \in W : ~ (<<y, x>> \in StrictSubsetOrdering(S))
  <2>1. W \subseteq FiniteSubsetsOf(S)
    BY FS_Subset DEF FiniteSubsetsOf
  <2> QED BY <2>1, FS_StrictSubsetOrderingWellFounded, WFMin
<1> QED BY <1>1 DEF StrictSubsetOrdering

\* Of finitely many numbered things one has the highest number.
LEMMA Highest ==
  ASSUME NEW S, IsFiniteSet(S), S # {}, NEW f, \A a \in S : f[a] \in Nat
  PROVE  \E a \in S : \A b \in S : f[b] <= f[a]
<1> SUFFICES ASSUME \A a \in S : \E b \in S : f[b] > f[a] PROVE FALSE
  OBVIOUS
<1> DEFINE W == { A \in SUBSET S : A # {} /\ \A a \in A : \E b \in A : f[b] > f[a] }
<1>1. W \subseteq SUBSET S /\ W # {}
  <2>1. S \in W
    OBVIOUS
  <2> QED BY <2>1
<1>2. PICK A \in W : \A B \in W : B \subseteq A => B = A
  <2> HIDE DEF W
  <2> QED BY <1>1, SmallestSubset
<1>3. PICK a \in A : TRUE
  OBVIOUS
<1>4. A \ {a} \in W
  <2>1. PICK z \in A : f[z] > f[a]
    OBVIOUS
  <2>2. z # a
    BY <2>1
  <2>3. ASSUME NEW x \in A \ {a} PROVE \E y \in A \ {a} : f[y] > f[x]
    <3>1. PICK y \in A : f[y] > f[x]
      OBVIOUS
    <3>2. CASE y # a
      BY <3>1, <3>2
    <3>3. CASE y = a
      BY <3>1, <3>3, <2>1, <2>2
    <3> QED BY <3>2, <3>3
  <2> QED BY <2>2, <2>3
<1> QED BY <1>2, <1>3, <1>4

LEMMA Replaced ==
  ASSUME NEW S, IsFiniteSet(S), NEW x \in S, NEW y
  PROVE  /\ IsFiniteSet((S \ {x}) \cup {y}) /\ Cardinality(S) \in Nat
         /\ Cardinality((S \ {x}) \cup {y}) \in Nat
         /\ Cardinality((S \ {x}) \cup {y}) <= Cardinality(S)
<1>1. /\ IsFiniteSet(S \ {x}) /\ Cardinality(S \ {x}) = Cardinality(S) - 1
      /\ Cardinality(S) \in Nat
  BY FS_RemoveElement, FS_CardinalityType
<1>2. /\ IsFiniteSet((S \ {x}) \cup {y})
      /\ Cardinality((S \ {x}) \cup {y}) \in {Cardinality(S \ {x}), Cardinality(S \ {x}) + 1}
  BY <1>1, FS_AddElement
<1>3. Cardinality((S \ {x}) \cup {y}) \in Nat
  BY <1>2, FS_CardinalityType
<1> QED BY <1>1, <1>2, <1>3

\* A new row comes after every other.
LEMMA NextIsLast ==
  ASSUME RegistersTyped
  PROVE  NextPlace \in Nat /\ \A r \in entered : r.order < NextPlace
<1> DEFINE places == {0} \cup { r.order : r \in entered }
<1>1. \A r \in entered : r.order \in Nat
  BY DEF RegistersTyped, RegistersTypeOK, Entries
<1>2. \E n \in places : \A r \in entered : r.order <= n
  <2>1. CASE entered = {}
    BY <2>1
  <2>2. CASE entered # {}
    <3> DEFINE f == [r \in entered |-> r.order]
    <3>1. \A r \in entered : f[r] = r.order
      OBVIOUS
    <3> HIDE DEF f
    <3>2. PICK a \in entered : \A b \in entered : f[b] <= f[a]
      BY <1>1, <2>2, <3>1, Highest DEF RegistersTyped
    <3> QED BY <3>1, <3>2
  <2> QED BY <2>1, <2>2
<1>3. LastPlace \in places /\ \A r \in entered : r.order <= LastPlace
  BY <1>2 DEF LastPlace
<1>4. LastPlace \in Nat
  BY <1>1, <1>3
<1> QED BY <1>1, <1>3, <1>4 DEF NextPlace

LEMMA ClashesRemembered ==
  ASSUME RegistersInv, WatchesRegisters
  PROVE  /\ clashed' \in BOOLEAN /\ arranged' \in BOOLEAN
         /\ (clashed => clashed') /\ (arranged => arranged') /\ OneWrites'
         /\ ~clashed' /\ entered' # entered => \A e \in Keepers : ~(Writing(e) /\ Writing(e)')
         /\ ~arranged' => ~Reordered
BY DEF WatchesRegisters, RegistersInv, RegistersTyped, OneWrites, KeepersMeet

LEMMA NextEntry ==
  ASSUME RegistersTyped, NEW e \in Keepers, NEW job \in Writes, entry' = [entry EXCEPT ![e] = job]
  PROVE  /\ entry' \in [Keepers -> Writes]
         /\ \A f \in Keepers : entry'[f] = IF f = e THEN job ELSE entry[f]
  BY DEF RegistersTyped

LEMMA TablesApart ==
  /\ "views" \in Indexed /\ "compare" \notin Indexed /\ "views" # "compare"
  /\ "views" \notin Arrangeable /\ "compare" \notin Arrangeable
  BY DEF Indexed, Arrangeable

-----------------------------------------------------------------------------
\* A request has read what it needs and will save a row.
LEMMA PostKeeps ==
  ASSUME RegistersInv, WatchesRegisters, NEW e \in Keepers, NEW row \in Rows,
         entry[e].step \in {"none", "count"}, entry' = [entry EXCEPT ![e] = Stores(row)],
         UNCHANGED << table, entered, lastId, uncleaned >>,
         table # "views", row.id <= lastId,
         row.id = 0 \/ \E r \in entered : r.id = row.id,
         ~clashed /\ table \notin Indexed /\ table # "giftWrappings" =>
           \A r \in entered : r.key = row.key => r.id = row.id,
         ~clashed /\ table = "compare" => row.id = 0 /\ Cardinality(entered) < CompareLimit
  PROVE  RegistersInv'
<1> DEFINE job == Stores(row)
<1>1. job \in Writes /\ job.step = "save" /\ job.row = row
  BY DEF Stores, Writes
<1> HIDE DEF job
<1>2. /\ entry' \in [Keepers -> Writes]
      /\ \A f \in Keepers : entry'[f] = IF f = e THEN job ELSE entry[f]
  BY <1>1, NextEntry DEF RegistersInv, job
<1>3. table' = table /\ entered' = entered /\ lastId' = lastId /\ uncleaned' = uncleaned
  OBVIOUS
<1>4. /\ clashed' \in BOOLEAN /\ arranged' \in BOOLEAN
      /\ (clashed => clashed') /\ (arranged => arranged') /\ OneWrites'
      /\ ~arranged' => ~Reordered
  BY ClashesRemembered
<1>5. RegistersTyped'
  BY <1>1, <1>2, <1>3, <1>4 DEF RegistersInv, RegistersTyped, RegistersTypeOK
<1>6. KeysSingle'
  BY <1>1, <1>2, <1>3, <1>4 DEF RegistersInv, KeysSingle
<1>7. PlacesSingle'
  <2> SUFFICES ASSUME ~clashed', ~arranged', table \in Arrangeable
               PROVE  /\ \A r, s \in entered : r.order = s.order => r = s
                      /\ \A f \in Keepers : entry'[f].step = "save" =>
                           \A r \in entered : r.order = entry'[f].row.order => r.id = entry'[f].row.id
    BY <1>3 DEF PlacesSingle
  <2>1. IF row.id = 0 THEN row.order = NextPlace
        ELSE \A r \in entered : r.id = row.id => r.order = row.order
    <3>1. entry'[e] # entry[e] /\ entry'[e].step = "save" /\ entry'[e].row = row
      BY <1>1, <1>2
    <3> QED BY <1>4, <3>1 DEF Reordered
  <2>2. \A r, s \in entered : r.order = s.order => r = s
    BY <1>4 DEF RegistersInv, PlacesSingle
  <2>3. \A r \in entered : r.order = row.order => r.id = row.id
    <3>1. CASE row.id = 0
      BY <2>1, <3>1, NextIsLast DEF RegistersInv, RegistersTyped, RegistersTypeOK, Entries
    <3>2. CASE row.id # 0
      BY <2>1, <2>2, <3>2
    <3> QED BY <3>1, <3>2
  <2> QED BY <2>2, <2>3, <1>1, <1>2, <1>4 DEF RegistersInv, PlacesSingle
<1>8. CompareBounded'
  BY <1>1, <1>2, <1>3, <1>4 DEF RegistersInv, CompareBounded
<1>9. ViewsBounded'
  BY <1>3 DEF ViewsBounded
<1> QED BY <1>4, <1>5, <1>6, <1>7, <1>8, <1>9 DEF RegistersInv

\* A request ends or goes on without a row to save, and rows have left the
\* table or changed nothing but whether they are active.
LEMMA LeaveKeeps ==
  ASSUME RegistersInv, WatchesRegisters, NEW e \in Keepers, NEW job \in Writes,
         entry' = [entry EXCEPT ![e] = job], job.step # "save", job.step = "count" => table = "compare",
         table # "views", job.step # "clean",
         UNCHANGED << table, lastId, uncleaned >>, entered' \subseteq entered
  PROVE  RegistersInv'
<1>1. /\ entry' \in [Keepers -> Writes]
      /\ \A f \in Keepers : entry'[f] = IF f = e THEN job ELSE entry[f]
  BY NextEntry DEF RegistersInv
<1>2. table' = table /\ lastId' = lastId /\ uncleaned' = uncleaned
  OBVIOUS
<1>3. /\ clashed' \in BOOLEAN /\ arranged' \in BOOLEAN
      /\ (clashed => clashed') /\ (arranged => arranged') /\ OneWrites'
  BY ClashesRemembered
<1>4. IsFiniteSet(entered') /\ Cardinality(entered') <= Cardinality(entered)
      /\ Cardinality(entered) \in Nat /\ Cardinality(entered') \in Nat
  BY FS_Subset, FS_CardinalityType DEF RegistersInv, RegistersTyped
<1>5. RegistersTyped'
  BY <1>1, <1>2, <1>3, <1>4 DEF RegistersInv, RegistersTyped, RegistersTypeOK
<1>6. KeysSingle'
  BY <1>1, <1>2, <1>3 DEF RegistersInv, KeysSingle
<1>7. PlacesSingle'
  BY <1>1, <1>2, <1>3 DEF RegistersInv, PlacesSingle
<1>8. CompareBounded'
  BY <1>1, <1>2, <1>3, <1>4, RegistersAssumption DEF RegistersInv, CompareBounded
<1>9. ViewsBounded'
  BY <1>2 DEF ViewsBounded
<1> QED BY <1>3, <1>5, <1>6, <1>7, <1>8, <1>9 DEF RegistersInv


LEMMA SaveRowKeeps ==
  ASSUME RegistersInv, WatchesRegisters, UNCHANGED uncleaned, NEW e \in Keepers, SaveRow(e)
  PROVE  RegistersInv'
<1> DEFINE row == entry[e].row
           rest == { r \in entered : r.id # row.id }
           new == IF row.id = 0 THEN [row EXCEPT !.id = lastId + 1] ELSE row
<1>1. /\ entry[e].step = "save" /\ table' = table /\ uncleaned' = uncleaned
      /\ entry' = [entry EXCEPT ![e] = NoEntry]
  BY DEF SaveRow, Ends
<1>2. row \in Rows /\ row.id <= lastId /\ table # "views" /\ lastId \in 0 .. MaxRows
  BY <1>1 DEF RegistersInv, RegistersTyped, RegistersTypeOK, Writes, NoEntry
<1>3. NoEntry \in Writes /\ NoEntry.step = "none"
  BY DEF Writes, NoEntry
<1>4. CASE UNCHANGED << entered, lastId >>
  BY <1>1, <1>2, <1>3, <1>4, LeaveKeeps
<1>5. CASE ~UNCHANGED << entered, lastId >>
  <2>1. /\ entered' = rest \cup {new}
        /\ lastId' = IF row.id = 0 THEN lastId + 1 ELSE lastId
        /\ lastId' <= MaxRows
        /\ table \in Indexed => \A r \in rest : r.key # row.key
    <3>1. \A r \in entered : r.id # 0
      BY RegistersAssumption DEF RegistersInv, RegistersTyped, RegistersTypeOK, Entries
    <3>2. CASE row.id = 0
      BY <1>5, <3>1, <3>2, <1>2, RegistersAssumption DEF SaveRow
    <3>3. CASE row.id # 0
      BY <1>5, <3>3, <1>2, RegistersAssumption DEF SaveRow
    <3> QED BY <3>2, <3>3
  <2>2. /\ new \in Entries /\ new.key = row.key /\ new.order = row.order
        /\ new.id = IF row.id = 0 THEN lastId + 1 ELSE row.id
    <3>1. CASE row.id = 0
      <4>1. lastId + 1 \in 1 .. MaxRows
        BY <2>1, <1>2, <3>1, RegistersAssumption
      <4> QED BY <4>1, <1>2, <3>1 DEF Rows, Entries
    <3>2. CASE row.id # 0
      <4>1. row.id \in 1 .. MaxRows
        BY <1>2, <3>2, RegistersAssumption DEF Rows
      <4> QED BY <4>1, <1>2, <3>2 DEF Rows, Entries
    <3> QED BY <3>1, <3>2
  <2>3. \A r \in rest : r \in entered /\ r.id # new.id /\ r.id # row.id
    BY <2>2, <1>2, RegistersAssumption DEF RegistersInv, RegistersTyped, RegistersTypeOK, Entries
  <2>4. /\ IsFiniteSet(rest) /\ IsFiniteSet(entered')
        /\ Cardinality(rest) \in Nat /\ Cardinality(rest) <= Cardinality(entered)
        /\ Cardinality(entered') <= Cardinality(rest) + 1
        /\ Cardinality(entered) \in Nat
    <3>1. rest \in SUBSET entered /\ IsFiniteSet(entered)
      BY DEF RegistersInv, RegistersTyped
    <3> HIDE DEF rest, new
    <3> QED BY <3>1, <2>1, FS_Subset, FS_AddElement, FS_CardinalityType
  <2> HIDE DEF rest, new
  <2>5. \A r \in entered' : r \in rest \/ r = new
    BY <2>1
  <2>6. /\ entry' \in [Keepers -> Writes]
        /\ \A f \in Keepers : entry'[f] = IF f = e THEN NoEntry ELSE entry[f]
    BY <1>1, <1>3, NextEntry DEF RegistersInv
  <2>7. /\ clashed' \in BOOLEAN /\ arranged' \in BOOLEAN
        /\ (clashed => clashed') /\ (arranged => arranged') /\ OneWrites'
    BY ClashesRemembered
  <2>8. \A f \in Keepers : ~clashed' => entry'[f].step # "save"
    BY <1>1, <1>3, <2>6, <2>7 DEF RegistersInv, OneWrites, Writing
  <2>9. lastId <= lastId' /\ lastId' \in 0 .. MaxRows
    BY <2>1, <1>2, RegistersAssumption
  <2>10. RegistersTyped'
    <3>1. entered' \subseteq Entries
      BY <2>1, <2>2, <2>3 DEF RegistersInv, RegistersTyped, RegistersTypeOK
    <3>2. \A r \in entered' : r.id <= lastId'
      <4>1. \A r \in rest : r.id <= lastId
        BY <2>3 DEF RegistersInv, RegistersTyped
      <4>2. \A r \in rest : r.id \in Nat
        BY <2>3, RegistersAssumption DEF RegistersInv, RegistersTyped, RegistersTypeOK, Entries
      <4>3. new.id <= lastId'
        BY <2>1, <2>2, <1>2
      <4> QED BY <4>1, <4>2, <4>3, <2>5, <2>9, <1>2
    <3>3. \A r, s \in entered' : r.id = s.id => r = s
      BY <2>3, <2>5 DEF RegistersInv, RegistersTyped
    <3>4. \A f \in Keepers :
            /\ entry'[f].step = "save" => table' # "views" /\ entry'[f].row.id <= lastId'
            /\ entry'[f].step = "count" => table' = "compare"
            /\ entry'[f].step = "clean" => table' = "views"
      <4>1. SUFFICES ASSUME NEW f \in Keepers, f # e
            PROVE /\ entry[f].step = "save" => table # "views" /\ entry[f].row.id <= lastId'
                  /\ entry[f].step = "count" => table = "compare"
                  /\ entry[f].step = "clean" => table = "views"
        BY <1>1, <1>3, <2>6
      <4>2. entry[f].step = "save" => entry[f].row.id \in Nat
        BY RegistersAssumption DEF RegistersInv, RegistersTyped, Writes, NoEntry, Rows
      <4> QED BY <4>2, <2>9, <1>2 DEF RegistersInv, RegistersTyped
    <3>5. table' \in Tables /\ uncleaned' \in Nat
      BY <1>1 DEF RegistersInv, RegistersTyped, RegistersTypeOK
    <3> QED BY <3>1, <3>2, <3>3, <3>4, <3>5, <2>4, <2>6, <2>7, <2>9 DEF RegistersTyped, RegistersTypeOK
  <2>11. KeysSingle'
    <3> SUFFICES ASSUME table \in Indexed \/ ~clashed', table # "giftWrappings"
                 PROVE  \A r, s \in entered' : r.key = s.key => r = s
      BY <1>1, <2>8 DEF KeysSingle
    <3>1. \A r \in rest : r.key # row.key
      <4>1. CASE table \in Indexed
        BY <2>1, <4>1
      <4>2. CASE table \notin Indexed
        BY <2>3, <2>7, <4>2, <1>1 DEF RegistersInv, KeysSingle
      <4> QED BY <4>1, <4>2
    <3>2. \A r, s \in rest : r.key = s.key => r = s
      BY <2>3, <2>7 DEF RegistersInv, KeysSingle
    <3> QED BY <3>1, <3>2, <2>2, <2>5
  <2>12. PlacesSingle'
    <3> SUFFICES ASSUME ~clashed', ~arranged', table \in Arrangeable
                 PROVE  \A r, s \in entered' : r.order = s.order => r = s
      BY <1>1, <2>8 DEF PlacesSingle
    <3>1. \A r \in rest : r.order # row.order
      BY <2>3, <2>7, <1>1 DEF RegistersInv, PlacesSingle
    <3>2. \A r, s \in rest : r.order = s.order => r = s
      BY <2>3, <2>7 DEF RegistersInv, PlacesSingle
    <3> QED BY <3>1, <3>2, <2>2, <2>5
  <2>13. CompareBounded'
    <3> SUFFICES ASSUME ~clashed', table = "compare"
                 PROVE  Cardinality(entered') <= CompareLimit
      BY <1>1, <2>8 DEF CompareBounded
    <3>1. Cardinality(entered) < CompareLimit
      BY <1>1, <2>7 DEF RegistersInv, CompareBounded
    <3>2. Cardinality(entered') \in Nat
      BY <2>4, FS_CardinalityType
    <3> QED BY <3>1, <3>2, <2>4, RegistersAssumption
  <2>14. ViewsBounded'
    BY <1>1, <1>2 DEF ViewsBounded
  <2> QED BY <2>7, <2>10, <2>11, <2>12, <2>13, <2>14 DEF RegistersInv
<1> QED BY <1>4, <1>5

LEMMA AddCompareKeeps ==
  ASSUME RegistersInv, WatchesRegisters, UNCHANGED uncleaned, NEW e \in Keepers, AddCompare(e)
  PROVE  RegistersInv'
<1> DEFINE product == entry[e].product
           row == New(product, 0)
<1>1. /\ entry[e].step = "count" /\ table = "compare"
      /\ UNCHANGED << table, entered, lastId >>
      /\ entry' = [entry EXCEPT ![e] = IF Cardinality(entered) >= CompareLimit \/ Known(product)
                                       THEN NoEntry ELSE Stores(row)]
  BY DEF AddCompare, RegistersInv, RegistersTyped
<1>2. NoEntry \in Writes /\ NoEntry.step = "none"
  BY DEF Writes, NoEntry
<1>3. CASE Cardinality(entered) >= CompareLimit \/ Known(product)
  <2>1. entry' = [entry EXCEPT ![e] = NoEntry]
    BY <1>1, <1>3
  <2> QED BY <1>1, <1>2, <2>1, LeaveKeeps, TablesApart
<1>4. CASE ~(Cardinality(entered) >= CompareLimit \/ Known(product))
  <2>1. entry' = [entry EXCEPT ![e] = Stores(row)]
    BY <1>1, <1>4
  <2>2. product \in Keys /\ lastId \in Nat
    BY <1>1 DEF RegistersInv, RegistersTyped, RegistersTypeOK, Writes, NoEntry
  <2>3. row \in Rows /\ row.id = 0 /\ row.key = product
    BY <2>2, RegistersAssumption DEF New, Rows
  <2>4. \A r \in entered : r.key # product
    BY <1>4 DEF Known
  <2>5. Cardinality(entered) < CompareLimit
    <3>1. Cardinality(entered) \in Nat
      BY FS_CardinalityType DEF RegistersInv, RegistersTyped
    <3> QED BY <3>1, <1>4, RegistersAssumption
  <2>6. table # "views" /\ row.id <= lastId /\ entry[e].step \in {"none", "count"}
    BY <1>1, <2>2, <2>3
  <2>7. \A r \in entered : r.key = row.key => r.id = row.id
    BY <2>3, <2>4
  <2>8. UNCHANGED << table, entered, lastId, uncleaned >>
    BY <1>1
  <2> HIDE DEF row, product
  <2> QED BY <2>1, <2>3, <2>5, <2>6, <2>7, <2>8, PostKeeps
<1> QED BY <1>3, <1>4

LEMMA DropStaleKeeps ==
  ASSUME RegistersInv, WatchesRegisters, UNCHANGED uncleaned, NEW e \in Keepers,
         NEW product \in Keys, DropStale(e, product)
  PROVE  RegistersInv'
<1>1. [step |-> "count", product |-> product] \in Writes
  BY DEF Writes
<1> QED BY <1>1, LeaveKeeps, TablesApart DEF DropStale

LEMMA RemoveRowKeeps ==
  ASSUME RegistersInv, WatchesRegisters, UNCHANGED uncleaned, NEW e \in Keepers,
         NEW r \in entered, RemoveRow(e, r)
  PROVE  RegistersInv'
<1>1. NoEntry \in Writes /\ NoEntry.step = "none"
  BY DEF Writes, NoEntry
<1>2. entry' = [entry EXCEPT ![e] = NoEntry]
  BY DEF RemoveRow, RegistersInv, RegistersTyped
<1>3. UNCHANGED << table, lastId >> /\ table # "views" /\ entered' \subseteq entered
  BY DEF RemoveRow
<1> QED BY <1>1, <1>2, <1>3, LeaveKeeps


LEMMA GrowsStaleKeeps ==
  ASSUME RegistersInv, WatchesRegisters, UNCHANGED uncleaned, NEW r \in entered, GrowsStale(r)
  PROVE  RegistersInv'
<1> DEFINE new == [r EXCEPT !.active = FALSE]
<1>1. /\ table = "compare" /\ entered' = (entered \ {r}) \cup {new}
      /\ table' = table /\ lastId' = lastId /\ entry' = entry /\ uncleaned' = uncleaned
      /\ r.active
  BY DEF GrowsStale
<1>2. new \in Entries /\ new.id = r.id /\ new.key = r.key /\ new.order = r.order /\ ~new.active
  BY DEF RegistersInv, RegistersTyped, RegistersTypeOK, Entries
<1> HIDE DEF new
<1>3. /\ IsFiniteSet(entered') /\ Cardinality(entered) \in Nat /\ Cardinality(entered') \in Nat
      /\ Cardinality(entered') <= Cardinality(entered)
  <2>1. IsFiniteSet(entered)
    BY DEF RegistersInv, RegistersTyped
  <2> QED BY <2>1, <1>1, Replaced
<1>4. \A s \in entered' : (s \in entered /\ s # r) \/ s = new
  BY <1>1
<1>5. /\ clashed' \in BOOLEAN /\ arranged' \in BOOLEAN
      /\ (clashed => clashed') /\ (arranged => arranged') /\ OneWrites'
      /\ ~clashed' /\ entered' # entered => \A e \in Keepers : ~(Writing(e) /\ Writing(e)')
  BY ClashesRemembered
<1>6. entered' # entered
  BY <1>1, <1>2
<1>7. ~clashed' => \A e \in Keepers : entry[e].step # "save"
  BY <1>1, <1>5, <1>6 DEF Writing
<1>8. RegistersTyped'
  <2>1. entered' \subseteq Entries
    BY <1>2, <1>4 DEF RegistersInv, RegistersTyped, RegistersTypeOK
  <2>2. \A s \in entered' : s.id <= lastId'
    BY <1>1, <1>2, <1>4 DEF RegistersInv, RegistersTyped
  <2>3. \A s, t \in entered' : s.id = t.id => s = t
    BY <1>2, <1>4 DEF RegistersInv, RegistersTyped
  <2> QED BY <1>1, <1>3, <1>5, <2>1, <2>2, <2>3 DEF RegistersInv, RegistersTyped, RegistersTypeOK
<1>9. KeysSingle'
  <2> SUFFICES ASSUME ~clashed' PROVE \A s, t \in entered' : s.key = t.key => s = t
    BY <1>1, <1>7, TablesApart DEF KeysSingle
  <2>1. \A s, t \in entered : s.key = t.key => s = t
    BY <1>1, <1>5, TablesApart DEF RegistersInv, KeysSingle
  <2> QED BY <2>1, <1>2, <1>4
<1>10. CompareBounded'
  BY <1>1, <1>3, <1>5, <1>7, RegistersAssumption DEF RegistersInv, CompareBounded
<1>11. PlacesSingle' /\ ViewsBounded'
  BY <1>1, TablesApart DEF PlacesSingle, ViewsBounded
<1> QED BY <1>5, <1>8, <1>9, <1>10, <1>11 DEF RegistersInv

-----------------------------------------------------------------------------
(* Recent views. *)

\* In the table of views all that can be wrong is what RegistersTyped,
\* KeysSingle and ViewsBounded say.
LEMMA ViewsOnly ==
  ASSUME RegistersInv, WatchesRegisters, table' = "views",
         RegistersTyped', KeysSingle', ViewsBounded'
  PROVE  RegistersInv'
BY ClashesRemembered, TablesApart DEF RegistersInv, PlacesSingle, CompareBounded

LEMMA CleanersCounted ==
  ASSUME RegistersInv, NEW e \in Keepers, NEW job \in Writes, entry' = [entry EXCEPT ![e] = job]
  PROVE  /\ Cardinality(Cleaners) \in Nat /\ Cardinality(Cleaners') \in Nat
         /\ job.step = "clean" /\ entry[e].step # "clean" =>
              Cardinality(Cleaners') = Cardinality(Cleaners) + 1
         /\ job.step # "clean" /\ entry[e].step = "clean" =>
              Cardinality(Cleaners') = Cardinality(Cleaners) - 1
<1>1. /\ entry' \in [Keepers -> Writes]
      /\ \A f \in Keepers : entry'[f] = IF f = e THEN job ELSE entry[f]
  BY NextEntry DEF RegistersInv
<1>2. IsFiniteSet(Cleaners) /\ IsFiniteSet(Cleaners')
  <2>1. Cleaners \in SUBSET Keepers /\ Cleaners' \in SUBSET Keepers
    BY DEF Cleaners
  <2> QED BY <2>1, FS_Subset, RegistersAssumption
<1>3. Cardinality(Cleaners) \in Nat /\ Cardinality(Cleaners') \in Nat
  BY <1>2, FS_CardinalityType
<1>4. ASSUME job.step = "clean", entry[e].step # "clean"
      PROVE  Cardinality(Cleaners') = Cardinality(Cleaners) + 1
  <2>1. Cleaners' = Cleaners \cup {e} /\ e \notin Cleaners
    BY <1>1, <1>4 DEF Cleaners
  <2> QED BY <1>2, <2>1, FS_AddElement
<1>5. ASSUME job.step # "clean", entry[e].step = "clean"
      PROVE  Cardinality(Cleaners') = Cardinality(Cleaners) - 1
  <2>1. Cleaners' = Cleaners \ {e} /\ e \in Cleaners
    BY <1>1, <1>5 DEF Cleaners
  <2> QED BY <1>2, <2>1, FS_RemoveElement
<1> QED BY <1>3, <1>4, <1>5

LEMMA AddViewKeeps ==
  ASSUME RegistersInv, WatchesRegisters, UNCHANGED uncleaned, NEW e \in Keepers,
         NEW product \in Keys, AddView(e, product)
  PROVE  RegistersInv'
<1> DEFINE old == { r \in entered : r.key = product }
           job == [step |-> "clean"]
<1>1. /\ table = "views" /\ entry[e] = NoEntry /\ entry' = [entry EXCEPT ![e] = job]
      /\ table' = table /\ uncleaned' = uncleaned
  BY DEF AddView
<1>2. job \in Writes /\ job.step = "clean" /\ NoEntry.step = "none"
  BY DEF Writes, NoEntry
<1>3. PICK new \in Entries :
        /\ entered' = (entered \ old) \cup {new} /\ new.key = product /\ new.order = NextPlace
        /\ new.id <= lastId' /\ lastId <= lastId' /\ lastId' \in 0 .. MaxRows
        /\ \A s \in entered \ old : s.id # new.id
        /\ Cardinality(entered') <= Cardinality(entered) + IF old = {} THEN 1 ELSE 0
  <2>1. lastId \in 0 .. MaxRows /\ IsFiniteSet(entered) /\ entered \subseteq Entries
    BY DEF RegistersInv, RegistersTyped, RegistersTypeOK
  <2>2. NextPlace \in Nat
    BY NextIsLast DEF RegistersInv
  <2>3. CASE old = {}
    <3> DEFINE new == [New(product, NextPlace) EXCEPT !.id = lastId + 1]
    <3>1. /\ entered' = entered \cup {new} /\ lastId' = lastId + 1 /\ lastId < MaxRows
      BY <2>3 DEF AddView
    <3>2. lastId + 1 \in 1 .. MaxRows
      BY <2>1, <3>1, RegistersAssumption
    <3>3. new \in Entries /\ new.key = product /\ new.order = NextPlace /\ new.id = lastId + 1
      BY <2>2, <3>2 DEF New, Entries
    <3> HIDE DEF new
    <3>4. Cardinality(entered') <= Cardinality(entered) + 1
      BY <2>1, <3>1, FS_AddElement, FS_CardinalityType
    <3>5. \A s \in entered : s.id # new.id
      BY <3>3, <2>1, RegistersAssumption DEF RegistersInv, RegistersTyped, Entries
    <3>6. lastId' \in 0 .. MaxRows /\ lastId <= lastId'
      BY <2>1, <3>1, RegistersAssumption
    <3> HIDE DEF old
    <3>7. entered' = (entered \ old) \cup {new} /\ \A s \in entered \ old : s.id # new.id
      BY <2>3, <3>1, <3>5
    <3>8. new.id <= lastId'
      BY <3>1, <3>3, <3>6
    <3> QED BY <2>3, <3>3, <3>4, <3>6, <3>7, <3>8
  <2>4. CASE old # {}
    <3>1. PICK r \in entered : r.key = product
      BY <2>4
    <3>2. old = {r}
      BY <3>1, <1>1, TablesApart DEF RegistersInv, KeysSingle
    <3> DEFINE new == [r EXCEPT !.order = NextPlace]
    <3>3. entered' = (entered \ old) \cup {new} /\ lastId' = lastId
      BY <2>4, <3>2 DEF AddView
    <3>4. new \in Entries /\ new.key = product /\ new.order = NextPlace /\ new.id = r.id
      BY <2>1, <2>2, <3>1 DEF Entries
    <3> HIDE DEF new
    <3>5. Cardinality(entered') <= Cardinality(entered)
      <4>1. entered' = (entered \ {r}) \cup {new}
        BY <3>2, <3>3
      <4> QED BY <4>1, <2>1, Replaced
    <3>6. \A s \in entered \ old : s.id # new.id
      BY <3>1, <3>2, <3>4 DEF RegistersInv, RegistersTyped
    <3>7. new.id <= lastId' /\ lastId <= lastId' /\ lastId' \in 0 .. MaxRows
      BY <2>1, <3>1, <3>3, <3>4 DEF RegistersInv, RegistersTyped
    <3>8. Cardinality(entered') <= Cardinality(entered) + IF old = {} THEN 1 ELSE 0
      BY <3>5, <2>4, <2>1, FS_CardinalityType
    <3> QED BY <3>3, <3>4, <3>6, <3>7, <3>8
  <2> QED BY <2>3, <2>4
<1>4. /\ entry' \in [Keepers -> Writes]
      /\ \A f \in Keepers : entry'[f] = IF f = e THEN job ELSE entry[f]
  BY <1>1, <1>2, NextEntry DEF RegistersInv
<1>5. \A s \in entered' : s \in entered \ old \/ s = new
  BY <1>3
<1>6. IsFiniteSet(entered') /\ Cardinality(entered') \in Nat /\ Cardinality(entered) \in Nat
  <2>1. entered \ old \in SUBSET entered /\ IsFiniteSet(entered)
    BY DEF RegistersInv, RegistersTyped
  <2> HIDE DEF old
  <2> QED BY <2>1, <1>3, FS_Subset, FS_AddElement, FS_CardinalityType
<1>7. clashed' \in BOOLEAN /\ arranged' \in BOOLEAN
  BY ClashesRemembered
<1>8. RegistersTyped'
  <2>1. entered' \subseteq Entries
    BY <1>5 DEF RegistersInv, RegistersTyped, RegistersTypeOK
  <2>2. \A s \in entered' : s.id <= lastId'
    BY <1>3, <1>5, RegistersAssumption DEF RegistersInv, RegistersTyped, RegistersTypeOK, Entries
  <2>3. \A s, t \in entered' : s.id = t.id => s = t
    BY <1>3, <1>5 DEF RegistersInv, RegistersTyped
  <2>4. \A f \in Keepers : entry'[f].step \notin {"save", "count"}
    BY <1>1, <1>2, <1>4, TablesApart DEF RegistersInv, RegistersTyped
  <2> HIDE DEF old, job
  <2> QED BY <1>1, <1>3, <1>4, <1>6, <1>7, <2>1, <2>2, <2>3, <2>4
          DEF RegistersInv, RegistersTyped, RegistersTypeOK
<1>9. KeysSingle'
  <2>1. \A s, t \in entered : s.key = t.key => s = t
    BY <1>1, TablesApart DEF RegistersInv, KeysSingle
  <2>2. \A s, t \in entered' : s.key = t.key => s = t
    BY <2>1, <1>3, <1>5
  <2> QED BY <2>2, <1>1, TablesApart DEF KeysSingle
<1>10. ViewsBounded'
  <2>1. \A s, t \in entered' : s.order = t.order => s = t
    <3>1. \A s \in entered : s.order \in Nat /\ s.order < NextPlace
      BY NextIsLast DEF RegistersInv, RegistersTyped, RegistersTypeOK, Entries
    <3> QED BY <3>1, <1>1, <1>3, <1>5 DEF RegistersInv, ViewsBounded
  <2>2. Cardinality(Cleaners) \in Nat /\ Cardinality(Cleaners') = Cardinality(Cleaners) + 1
    BY <1>1, <1>2, CleanersCounted
  <2>3. Cardinality(entered) <= MaxViews + uncleaned + Cardinality(Cleaners) /\ uncleaned \in Nat
    BY <1>1 DEF RegistersInv, ViewsBounded, RegistersTyped
  <2>4. Cardinality(entered') <= Cardinality(entered) + 1
    BY <1>3, <1>6
  <2>5. Cardinality(entered') <= MaxViews + uncleaned' + Cardinality(Cleaners')
    BY <1>1, <1>6, <2>2, <2>3, <2>4, RegistersAssumption
  <2> QED BY <2>1, <2>5 DEF ViewsBounded
<1> QED BY <1>1, <1>8, <1>9, <1>10, ViewsOnly

\* Rows in distinct places with few newer ones are few.
LEMMA FewNewer ==
  ASSUME RegistersInv, \A r, s \in entered : r.order = s.order => r = s,
         NEW T, T = { r \in entered : Cardinality(Newer(r)) < MaxViews }
  PROVE  Cardinality(T) <= MaxViews
<1>1. T \in SUBSET entered /\ IsFiniteSet(entered) /\ \A r \in entered : r.order \in Nat
  BY DEF RegistersInv, RegistersTyped, RegistersTypeOK, Entries
<1>2. IsFiniteSet(T) /\ Cardinality(T) \in Nat
  BY <1>1, FS_Subset, FS_CardinalityType
<1>3. CASE T = {}
  BY <1>3, FS_EmptySet, RegistersAssumption
<1>4. CASE T # {}
  <2> DEFINE places == { r.order : r \in T }
  <2>1. places \subseteq Nat /\ places # {}
    BY <1>1, <1>4
  <2>2. PICK n \in places : \A m \in places : n <= m
    <3> HIDE DEF places
    <3> QED BY <2>1, Least
  <2>3. PICK r \in T : r.order = n
    BY <2>2
  <2>4. \A s \in T \ {r} : s.order > r.order
    <3> SUFFICES ASSUME NEW s \in T, s # r PROVE s.order > r.order
      OBVIOUS
    <3>1. s.order \in places
      OBVIOUS
    <3>2. r.order <= s.order /\ r.order # s.order
      BY <3>1, <2>2, <2>3, <1>1
    <3> QED BY <3>2, <1>1
  <2>5. T \ {r} \in SUBSET Newer(r)
    BY <2>4, <1>1 DEF Newer
  <2>6. Newer(r) \in SUBSET entered /\ IsFiniteSet(Newer(r)) /\ Cardinality(Newer(r)) < MaxViews
    <3>1. Newer(r) \in SUBSET entered
      BY DEF Newer
    <3> QED BY <3>1, <1>1, FS_Subset
  <2>7. Cardinality(T \ {r}) <= Cardinality(Newer(r)) /\ Cardinality(Newer(r)) \in Nat
    BY <2>5, <2>6, FS_Subset, FS_CardinalityType
  <2>8. Cardinality(T \ {r}) = Cardinality(T) - 1
    BY <1>2, FS_RemoveElement
  <2> QED BY <1>2, <2>6, <2>7, <2>8, RegistersAssumption
<1> QED BY <1>3, <1>4

\* A clean-up ends, and leaves rows out or not.
LEMMA CleanKeeps ==
  ASSUME RegistersInv, WatchesRegisters, NEW e \in Keepers, entry[e].step = "clean",
         entered' \subseteq entered, Ends(e), UNCHANGED lastId, uncleaned' \in Nat,
         \/ Cardinality(entered') <= MaxViews
         \/ entered' = entered /\ uncleaned' = uncleaned + 1
  PROVE  RegistersInv'
<1>1. /\ table = "views" /\ table' = table /\ lastId' = lastId
      /\ entry' = [entry EXCEPT ![e] = NoEntry]
  BY DEF Ends, RegistersInv, RegistersTyped
<1>2. NoEntry \in Writes /\ NoEntry.step = "none"
  BY DEF Writes, NoEntry
<1>3. /\ entry' \in [Keepers -> Writes]
      /\ \A f \in Keepers : entry'[f] = IF f = e THEN NoEntry ELSE entry[f]
  BY <1>1, <1>2, NextEntry DEF RegistersInv
<1>4. IsFiniteSet(entered') /\ Cardinality(entered') \in Nat /\ Cardinality(entered) \in Nat
  BY FS_Subset, FS_CardinalityType DEF RegistersInv, RegistersTyped
<1>5. clashed' \in BOOLEAN /\ arranged' \in BOOLEAN
  BY ClashesRemembered
<1>6. RegistersTyped'
  BY <1>1, <1>2, <1>3, <1>4, <1>5 DEF RegistersInv, RegistersTyped, RegistersTypeOK
<1>7. KeysSingle'
  BY <1>1, TablesApart DEF RegistersInv, KeysSingle
<1>8. ViewsBounded'
  <2>1. /\ Cardinality(Cleaners) \in Nat /\ Cardinality(Cleaners') = Cardinality(Cleaners) - 1
        /\ Cardinality(Cleaners') \in Nat
    BY <1>1, <1>2, CleanersCounted
  <2>2. Cardinality(entered) <= MaxViews + uncleaned + Cardinality(Cleaners) /\ uncleaned \in Nat
    BY <1>1 DEF RegistersInv, ViewsBounded, RegistersTyped
  <2>3. Cardinality(entered') <= MaxViews + uncleaned' + Cardinality(Cleaners')
    BY <1>4, <2>1, <2>2, RegistersAssumption
  <2> QED BY <2>3, <1>1 DEF RegistersInv, ViewsBounded
<1> QED BY <1>1, <1>6, <1>7, <1>8, ViewsOnly

LEMMA CleanupOldViewsKeeps ==
  ASSUME RegistersInv, WatchesRegisters, NEW e \in Keepers, CleanupOldViews(e), uncleaned' = 0
  PROVE  RegistersInv'
<1>1. table = "views" /\ entry[e].step = "clean" /\ Ends(e) /\ UNCHANGED lastId
  BY DEF CleanupOldViews, RegistersInv, RegistersTyped
<1>2. \A r, s \in entered : r.order = s.order => r = s
  BY <1>1 DEF RegistersInv, ViewsBounded
<1>3. Cardinality(entered') <= MaxViews
  BY <1>2, FewNewer DEF CleanupOldViews
<1>4. entered' \subseteq entered
  BY DEF CleanupOldViews
<1> QED BY <1>1, <1>3, <1>4, CleanKeeps

LEMMA CleanupFailsKeeps ==
  ASSUME RegistersInv, WatchesRegisters, NEW e \in Keepers, CleanupFails(e), uncleaned' = uncleaned + 1
  PROVE  RegistersInv'
<1>1. uncleaned' \in Nat
  BY DEF RegistersInv, RegistersTyped
<1> QED BY <1>1, CleanKeeps DEF CleanupFails


-----------------------------------------------------------------------------
\* A row is entered: none has its key where no index refuses a second.
LEMMA EnterKeeps ==
  ASSUME RegistersInv, WatchesRegisters, UNCHANGED uncleaned, NEW e \in Keepers,
         NEW key \in Keys, NEW order \in Nat, NEW t, t \subseteq Tables \ {"views", "compare"},
         t \subseteq Indexed \cup {"giftWrappings"} \/ ~Known(key), Posts(e, t, Stores(New(key, order)))
  PROVE  RegistersInv'
<1> DEFINE row == New(key, order)
<1>1. row \in Rows /\ row.id = 0 /\ row.key = key
  BY RegistersAssumption DEF New, Rows
<1>2. /\ table \in t /\ entry[e] = NoEntry /\ entry' = [entry EXCEPT ![e] = Stores(row)]
      /\ UNCHANGED << table, entered, lastId, uncleaned >>
  BY DEF Posts
<1> HIDE DEF row
<1>3. table # "views" /\ table # "compare" /\ entry[e].step \in {"none", "count"}
  BY <1>2 DEF NoEntry
<1>4. lastId \in Nat
  BY DEF RegistersInv, RegistersTyped, RegistersTypeOK
<1>5. row.id <= lastId
  BY <1>1, <1>4
<1>6. table \notin Indexed /\ table # "giftWrappings" => \A r \in entered : r.key = row.key => r.id = row.id
  BY <1>1, <1>2 DEF Known
<1> QED BY <1>1, <1>2, <1>3, <1>5, <1>6, PostKeeps

\* A row is written again, with a key that no other has where no index refuses.
LEMMA RewriteKeeps ==
  ASSUME RegistersInv, WatchesRegisters, UNCHANGED uncleaned, NEW e \in Keepers,
         NEW r \in entered, NEW row, row \in Entries, row.id = r.id,
         NEW t, t \subseteq Tables \ {"views", "compare"},
         ~clashed /\ table \notin Indexed /\ table # "giftWrappings" =>
           \A s \in entered : s.key = row.key => s.id = row.id,
         Posts(e, t, Stores(row))
  PROVE  RegistersInv'
<1>1. row \in Rows
  BY RegistersAssumption DEF Rows, Entries
<1>2. /\ table \in t /\ entry[e] = NoEntry /\ entry' = [entry EXCEPT ![e] = Stores(row)]
      /\ UNCHANGED << table, entered, lastId, uncleaned >>
  BY DEF Posts
<1>3. table # "views" /\ table # "compare" /\ entry[e].step \in {"none", "count"}
  BY <1>2 DEF NoEntry
<1>4. row.id <= lastId
  BY DEF RegistersInv, RegistersTyped
<1> QED BY <1>1, <1>2, <1>3, <1>4, PostKeeps

LEMMA TheTables ==
  /\ {"brands"} \subseteq Indexed /\ {"attributes"} \subseteq Indexed /\ {"groups"} \subseteq Indexed
  /\ {"storeInfo"} \subseteq Indexed /\ {"faqCategories"} \subseteq Indexed /\ {"places"} \subseteq Indexed
  /\ {"wishlist"} \subseteq Indexed
  /\ \A x \in {"brands", "attributes", "groups", "storeInfo", "faqCategories", "places", "wishlist",
               "attributeValues", "giftWrappings", "shortLinks"} : x \in Tables \ {"views", "compare"}
  BY DEF Indexed, Tables

LEMMA CreatesKeep ==
  ASSUME RegistersInv, WatchesRegisters, UNCHANGED uncleaned, NEW e \in Keepers, NEW key \in Keys,
         \/ CreateBrand(e, key) \/ CreateAttribute(e, key) \/ CreateGroup(e, key) \/ CreateValue(e, key)
         \/ CreateGiftWrapping(e, key) \/ CreateStoreInfo(e, key) \/ Shorten(e, key) \/ AddWish(e, key)
         \/ \E sent \in {{}, {1}} : CreateFaqCategory(e, key, sent)
  PROVE  RegistersInv'
<1>1. NextPlace \in Nat
  BY NextIsLast DEF RegistersInv
<1>2. CASE CreateBrand(e, key)
  BY <1>2, EnterKeeps, TheTables DEF CreateBrand
<1>3. CASE CreateAttribute(e, key)
  BY <1>1, <1>3, EnterKeeps, TheTables DEF CreateAttribute
<1>4. CASE CreateGroup(e, key)
  BY <1>1, <1>4, EnterKeeps, TheTables DEF CreateGroup
<1>5. CASE CreateValue(e, key)
  BY <1>1, <1>5, EnterKeeps, TheTables DEF CreateValue
<1>6. CASE CreateGiftWrapping(e, key)
  BY <1>1, <1>6, EnterKeeps, TheTables DEF CreateGiftWrapping
<1>7. CASE CreateStoreInfo(e, key)
  BY <1>7, EnterKeeps, TheTables DEF CreateStoreInfo
<1>8. CASE Shorten(e, key)
  BY <1>8, EnterKeeps, TheTables DEF Shorten
<1>9. CASE AddWish(e, key)
  BY <1>9, EnterKeeps, TheTables DEF AddWish
<1>10. ASSUME NEW sent \in {{}, {1}}, CreateFaqCategory(e, key, sent)
       PROVE  RegistersInv'
  <2>1. (IF sent = {} THEN NextPlace ELSE CHOOSE n \in sent : TRUE) \in Nat
    BY <1>1
  <2> QED BY <1>10, <2>1, EnterKeeps, TheTables DEF CreateFaqCategory
<1> QED BY <1>2, <1>3, <1>4, <1>5, <1>6, <1>7, <1>8, <1>9, <1>10

\* upsertStoreInfo and the synchronisation.
LEMMA UpsertsKeep ==
  ASSUME RegistersInv, WatchesRegisters, UNCHANGED uncleaned, NEW e \in Keepers, NEW key \in Keys,
         UpsertStoreInfo(e, key) \/ SyncPlace(e, key)
  PROVE  RegistersInv'
<1> DEFINE found == CHOOSE r \in entered : r.key = key
<1>1. PICK t : /\ t \subseteq Indexed /\ t \subseteq Tables \ {"views", "compare"}
               /\ Posts(e, t, Stores(IF Known(key) THEN found ELSE New(key, 0)))
  BY TheTables DEF UpsertStoreInfo, SyncPlace
<1>2. CASE Known(key)
  <2>1. found \in entered
    BY <1>2 DEF Known
  <2>2. table \in Indexed
    BY <1>1 DEF Posts
  <2>3. found \in Entries
    BY <2>1 DEF RegistersInv, RegistersTyped, RegistersTypeOK
  <2>4. Posts(e, t, Stores(found))
    BY <1>1, <1>2
  <2> HIDE DEF found
  <2> QED BY <1>1, <2>1, <2>2, <2>3, <2>4, RewriteKeeps
<1>3. CASE ~Known(key)
  <2>1. Posts(e, t, Stores(New(key, 0)))
    BY <1>1, <1>3
  <2> QED BY <1>1, <2>1, EnterKeeps
<1> QED BY <1>2, <1>3

LEMMA UpdatesKeep ==
  ASSUME RegistersInv, WatchesRegisters, UNCHANGED uncleaned, NEW e \in Keepers, NEW r \in entered,
         \/ \E key \in Keys : UpdateName(e, r, key)
         \/ \E order \in 1 .. 2 : UpdateOrder(e, r, order)
         \/ ToggleStatus(e, r)
  PROVE  RegistersInv'
<1> DEFINE named == {"brands", "attributes", "groups", "faqCategories", "attributeValues", "giftWrappings"}
           ordered == {"attributes", "groups", "attributeValues", "faqCategories", "giftWrappings"}
<1>1. r \in Entries
  BY DEF RegistersInv, RegistersTyped, RegistersTypeOK
<1>2. ~clashed /\ table \notin Indexed /\ table # "giftWrappings" => \A s \in entered : s.key = r.key => s = r
  BY DEF RegistersInv, KeysSingle
<1>3. /\ named \subseteq Tables \ {"views", "compare"} /\ ordered \subseteq Tables \ {"views", "compare"}
      /\ {"giftWrappings"} \subseteq Tables \ {"views", "compare"}
  BY TheTables
<1>4. ASSUME NEW key \in Keys, UpdateName(e, r, key) PROVE RegistersInv'
  <2> DEFINE row == [r EXCEPT !.key = key]
  <2>1. row \in Entries /\ row.id = r.id /\ row.key = key
    BY <1>1 DEF Entries
  <2>2. Posts(e, named, Stores(row))
    BY <1>4 DEF UpdateName
  <2>3. table \notin Indexed /\ table # "giftWrappings" => \A s \in entered : s.key = key => s = r
    <3>1. table \in named
      BY <2>2 DEF Posts
    <3>2. table = "attributeValues" => \A s \in entered : s.key = key => s = r
      BY <1>4 DEF UpdateName
    <3> QED BY <3>1, <3>2 DEF Indexed
  <2> HIDE DEF row, named
  <2> QED BY <1>3, <2>1, <2>2, <2>3, RewriteKeeps
<1>5. ASSUME NEW order \in 1 .. 2, UpdateOrder(e, r, order) PROVE RegistersInv'
  <2> DEFINE row == [r EXCEPT !.order = order]
  <2>1. row \in Entries /\ row.id = r.id /\ row.key = r.key
    BY <1>1 DEF Entries
  <2>2. Posts(e, ordered, Stores(row))
    BY <1>5 DEF UpdateOrder
  <2> HIDE DEF row, ordered
  <2> QED BY <1>2, <1>3, <2>1, <2>2, RewriteKeeps
<1>6. ASSUME ToggleStatus(e, r) PROVE RegistersInv'
  <2> DEFINE row == [r EXCEPT !.active = ~@]
  <2>1. row \in Entries /\ row.id = r.id
    BY <1>1 DEF Entries
  <2>2. Posts(e, {"giftWrappings"}, Stores(row))
    BY <1>6 DEF ToggleStatus
  <2>3. table = "giftWrappings"
    BY <2>2 DEF Posts
  <2> HIDE DEF row
  <2> QED BY <1>3, <2>1, <2>2, <2>3, RewriteKeeps
<1> QED BY <1>4, <1>5, <1>6

LEMMA WorksKeep ==
  ASSUME RegistersInv, WatchesRegisters, UNCHANGED uncleaned, NEW e \in Keepers, WorksOnRow(e)
  PROVE  RegistersInv'
<1>1. \A r \in entered : RemoveRow(e, r) => RegistersInv'
  BY RemoveRowKeeps
<1>2. (RenamesRow(e) \/ MovesRow(e) \/ DropsRow(e)) => RegistersInv'
  BY <1>1, UpdatesKeep DEF RenamesRow, MovesRow, DropsRow
<1>3. (Brands(e) \/ AttributeRows(e) \/ Groups(e) \/ AttributeValues(e)) => RegistersInv'
  BY <1>2, CreatesKeep DEF Brands, AttributeRows, Groups, AttributeValues
<1>4. GiftWrappings(e) => RegistersInv'
  BY <1>2, CreatesKeep, UpdatesKeep DEF GiftWrappings
<1>5. (StorePages(e) \/ Places(e)) => RegistersInv'
  BY <1>2, CreatesKeep, UpsertsKeep DEF StorePages, Places
<1>6. (ShortLinks(e) \/ Wishlist(e)) => RegistersInv'
  BY <1>2, CreatesKeep DEF ShortLinks, Wishlist
<1>7. (CompareList(e) \/ RecentViews(e)) => RegistersInv'
  BY <1>2, DropStaleKeeps, AddViewKeeps DEF CompareList, RecentViews
<1> QED BY <1>3, <1>4, <1>5, <1>6, <1>7 DEF WorksOnRow

LEMMA RegistersStart == ASSUME WatchedRegistersInit PROVE RegistersInv
<1>1. /\ table \in Tables /\ entered = {} /\ lastId = 0 /\ entry = [e \in Keepers |-> NoEntry]
      /\ clashed = FALSE /\ arranged = FALSE /\ uncleaned = 0
  BY DEF WatchedRegistersInit, RegistersInit
<1>2. \A e \in Keepers : entry[e].step = "none"
  BY <1>1 DEF NoEntry
<1>3. entry \in [Keepers -> Writes]
  BY <1>1 DEF Writes
<1>4. IsFiniteSet(entered) /\ Cardinality(entered) = 0
  BY <1>1, FS_EmptySet
<1>5. Cleaners = {} /\ Cardinality(Cleaners) = 0
  BY <1>2, FS_EmptySet DEF Cleaners
<1>6. RegistersTyped
  <2>1. lastId \in 0 .. MaxRows /\ uncleaned \in Nat
    BY <1>1, RegistersAssumption
  <2> QED BY <1>1, <1>2, <1>3, <1>4, <2>1 DEF RegistersTyped, RegistersTypeOK
<1>7. OneWrites /\ KeysSingle /\ PlacesSingle
  BY <1>1, <1>2 DEF OneWrites, Writing, KeysSingle, PlacesSingle
<1>8. CompareBounded /\ ViewsBounded
  BY <1>1, <1>2, <1>4, <1>5, RegistersAssumption DEF CompareBounded, ViewsBounded
<1> QED BY <1>6, <1>7, <1>8 DEF RegistersInv

LEMMA RegistersStep ==
  ASSUME RegistersInv, [WatchedRegistersNext]_<< registerVars, registerWatch >> PROVE RegistersInv'
<1>1. CASE UNCHANGED << registerVars, registerWatch >>
  <2>1. /\ table' = table /\ entered' = entered /\ lastId' = lastId /\ entry' = entry
        /\ clashed' = clashed /\ arranged' = arranged /\ uncleaned' = uncleaned
    BY <1>1 DEF registerVars, registerWatch
  <2>2. Cleaners' = Cleaners
    BY <2>1 DEF Cleaners
  <2>3. RegistersTyped' /\ OneWrites'
    BY <2>1 DEF RegistersInv, RegistersTyped, RegistersTypeOK, OneWrites, Writing
  <2>4. KeysSingle' /\ PlacesSingle' /\ CompareBounded' /\ ViewsBounded'
    BY <2>1, <2>2 DEF RegistersInv, KeysSingle, PlacesSingle, CompareBounded, ViewsBounded
  <2> QED BY <2>3, <2>4 DEF RegistersInv
<1>2. CASE WatchedRegistersNext
  <2>1. WatchesRegisters
    BY <1>2 DEF WatchedRegistersNext
  <2>2. CASE UNCHANGED uncleaned /\ \E e \in Keepers : WorksOnRow(e)
    BY <2>1, <2>2, WorksKeep
  <2>3. CASE UNCHANGED uncleaned /\ \E e \in Keepers : FinishesRow(e)
    BY <2>1, <2>3, SaveRowKeeps, AddCompareKeeps DEF FinishesRow
  <2>4. CASE UNCHANGED uncleaned /\ \E r \in entered : GrowsStale(r)
    BY <2>1, <2>4, GrowsStaleKeeps
  <2>5. CASE uncleaned' = 0 /\ \E e \in Keepers : CleanupOldViews(e)
    BY <2>1, <2>5, CleanupOldViewsKeeps
  <2>6. CASE uncleaned' = uncleaned + 1 /\ \E e \in Keepers : CleanupFails(e)
    BY <2>1, <2>6, CleanupFailsKeeps
  <2> QED BY <1>2, <2>2, <2>3, <2>4, <2>5, <2>6 DEF WatchedRegistersNext
<1> QED BY <1>1, <1>2

LEMMA RegistersInvHolds == WatchedRegistersSpec => []RegistersInv
BY RegistersStart, RegistersStep, PTL DEF WatchedRegistersSpec

\* The rows of every small table have ids that were given and at most the bound,
\* whatever the requests in progress look up, save or clean up meanwhile.
THEOREM RegistersTyping == WatchedRegistersSpec => []RegistersTypeOK
<1>1. RegistersInv => RegistersTypeOK
  BY DEF RegistersInv, RegistersTyped
<1> QED BY <1>1, RegistersInvHolds, PTL

\* A key is entered once, rows have places of their own, the compare list keeps
\* its limit and the recent views exceed theirs by the clean-ups to come and
\* those that failed at most, unless requests overlapped where no index stops
\* them or an order was given by hand.
THEOREM RegistersKept == WatchedRegistersSpec => []RegistersSound
<1>1. RegistersInv => RegistersSound
  BY DEF RegistersInv, KeysSingle, PlacesSingle, CompareBounded, ViewsBounded, RegistersSound, Distinct,
         Cleaners
<1> QED BY <1>1, RegistersInvHolds, PTL

=============================================================================
