--------------------------- MODULE CheckoutProofs ---------------------------
(***************************************************************************)
(* Theorems about the checkout, for every number of customers, orders,     *)
(* payments and concurrent sessions, and for every set of handlers called. *)
(***************************************************************************)
EXTENDS Checkout, TLAPS

USE DEF NoRow, Payments, tables, vars

\* What the type invariant needs to be inductive: rows refer to rows.
Typed == TypeOK /\ RowsKnown

LEMMA InitTyped == Init => Typed
  BY CheckoutAssumption
  DEF Init, Typed, TypeOK, RowsKnown, Session, Cart, Idle, Replies, OrderStatus,
      PaymentStatus, CardToCardStatus

SessionTyped(t) ==
  /\ t \in Session
  /\ t.op \notin {"idle", "getMyCard", "expire", "unlockStuck"} => t.order \in Orders
  /\ t.reply # "none" => t.op \in {"verifyPayment", "userCancel"}

\* Sessions stay well typed when one of them changes to a well typed record.
LEMMA SessionsTyped ==
  ASSUME Typed, NEW s \in Sessions, NEW next, SessionTyped(next), tx' = [tx EXCEPT ![s] = next]
  PROVE  /\ tx' \in [Sessions -> Session]
         /\ \A r \in Sessions : SessionTyped(tx'[r])
  BY DEF Typed, TypeOK, RowsKnown, SessionTyped

LEMMA IdleTyped == SessionTyped(Idle)
  BY DEF SessionTyped, Idle, Session, Replies

\* What every handler of an order starts from.
LEMMA CalledTyped ==
  ASSUME NEW op \in Ops, NEW o \in Orders
  PROVE  SessionTyped([Idle EXCEPT !.op = op, !.order = o])
<1>1. [Idle EXCEPT !.op = op, !.order = o].reply = "none"
  BY DEF Idle
<1> QED
  BY <1>1, IdleTyped DEF SessionTyped, Session

\* The end of a session.
LEMMA EndTyped ==
  ASSUME Typed, NEW s \in Sessions, End(s)
  PROVE  /\ tx' \in [Sessions -> Session]
         /\ \A r \in Sessions : SessionTyped(tx'[r])
  BY IdleTyped, SessionsTyped DEF End

\* The beginning of a session changes nothing but the session.
LEMMA BeginTyped ==
  ASSUME Typed, NEW s \in Sessions, NEW session, SessionTyped(session), Begin(s, session)
  PROVE  Typed'
<1>1. /\ tx' \in [Sessions -> Session]
      /\ \A r \in Sessions : SessionTyped(tx'[r])
  BY SessionsTyped DEF Begin
<1> QED
  BY <1>1 DEF Begin, Typed, TypeOK, RowsKnown, SessionTyped

\* In a callback, what the gateway says is the only thing that changes.
LEMMA ReplyTyped ==
  ASSUME Typed, NEW s \in Sessions, NEW reply \in Replies,
         tx[s].op \in {"verifyPayment", "userCancel"}, tx' = [tx EXCEPT ![s].reply = reply]
  PROVE  /\ tx' \in [Sessions -> Session]
         /\ \A r \in Sessions : SessionTyped(tx'[r])
<1> DEFINE next == [tx[s] EXCEPT !.reply = reply]
<1>1. SessionTyped(tx[s])
  BY DEF Typed, TypeOK, RowsKnown, SessionTyped
<1>2. SessionTyped(next)
  BY <1>1 DEF Session, SessionTyped
<1>3. tx' = [tx EXCEPT ![s] = next]
  OBVIOUS
<1> QED
  BY <1>2, <1>3, SessionsTyped

\* What CardStatusService does to the carts of a user leaves numbers of carts.
LEMMA LockTyped == \A c \in Cart : LockCart(c) \in Cart /\ UnlockCart(c) \in Cart
  BY DEF Cart, LockCart, UnlockCart

LEMMA AbandonCartTyped == \A c \in Cart : \A b \in BOOLEAN : AbandonCart(c, b) \in Cart
  BY DEF Cart, AbandonCart

\* abandonCart, whether or not its errors are swallowed.
LEMMA AbandonTyped ==
  ASSUME Typed, NEW u \in Users, NEW b \in BOOLEAN, TriedToAbandonCart(u, b)
  PROVE  cart' \in [Users -> Cart]
<1> USE CheckoutAssumption
<1>1. cart \in [Users -> Cart]
  BY DEF Typed, TypeOK
<1>2. CASE AbandonedCart(u, b)
  BY <1>1, <1>2, AbandonCartTyped DEF AbandonedCart
<1>3. CASE cart' = [cart EXCEPT ![u] = AbandonCart(@, TRUE)]
  BY <1>1, <1>3, AbandonCartTyped
<1>4. CASE UNCHANGED cart
  BY <1>1, <1>4
<1> QED
  BY <1>2, <1>3, <1>4 DEF TriedToAbandonCart

-----------------------------------------------------------------------------
(* Every group of steps preserves the types.                               *)

LEMMA OnlineTyped ==
  ASSUME Typed, NEW s \in Sessions, OnlineStep(s)
  PROVE  Typed'
<1> DEFINE t == tx[s]
<1> USE CheckoutAssumption DEF Typed, TypeOK, RowsKnown, SessionTyped
<1>0. t \in Session /\ SessionTyped(t)
  OBVIOUS
<1>1. ASSUME NEW o \in Orders, BeginCreatePayment(s, o) PROVE Typed'
  BY <1>1, BeginTyped DEF BeginCreatePayment, Session, Idle, Ops, Replies, OrderStatus, Payable
<1>2. ASSUME NEW a \in Authorities, GatewayIssues(s, a) PROVE Typed'
  <2> DEFINE next == [t EXCEPT !.pay = a]
  <2>1. SessionTyped(next)
    BY <1>0 DEF Session
  <2>2. tx' = [tx EXCEPT ![s] = next]
    BY <1>2 DEF GatewayIssues
  <2> QED
    BY <1>2, <2>1, <2>2, SessionsTyped DEF GatewayIssues
<1>3. ASSUME NEW a \in Authorities, NEW op \in {"verifyPayment", "userCancel"},
             BeginCallback(s, a, op)
      PROVE Typed'
  <2> DEFINE o == payOf[a]
             sawOpen == op = "verifyPayment" /\ HasOpenCart(Owner[o])
             session == [Idle EXCEPT !.op = op, !.order = o, !.pay = a, !.status = order[o],
                                     !.payStatus = payStatus[a], !.open = sawOpen]
  <2>1. /\ o \in Orders
        /\ order[o] \in OrderStatus \cup NoRow
        /\ payStatus[a] \in PaymentStatus \cup NoRow
        /\ sawOpen \in BOOLEAN
    BY <1>3 DEF BeginCallback
  <2>2. Begin(s, session)
    BY <1>3 DEF BeginCallback
  <2> HIDE DEF o, sawOpen
  <2>3. SessionTyped(session)
    <3> DEFINE called == [Idle EXCEPT !.op = op, !.order = o, !.pay = a]
               read == [called EXCEPT !.status = order[o], !.payStatus = payStatus[a]]
    <3>1. SessionTyped(called)
      <4> HIDE DEF Typed, TypeOK, RowsKnown
      <4>1. called.op = op /\ called.order = o /\ called.reply = "none"
        BY DEF Idle
      <4>2. op \in Ops
        BY DEF Ops
      <4>3. called \in Session
        BY <2>1, <4>2, IdleTyped DEF Session
      <4> QED
        BY <2>1, <4>1, <4>3
    <3> HIDE DEF called
    <3>2. SessionTyped(read)
      BY <2>1, <3>1 DEF Session
    <3> HIDE DEF read
    <3>3. SessionTyped([read EXCEPT !.open = sawOpen])
      BY <2>1, <3>2 DEF Session
    <3> QED
      BY <3>3 DEF called, read
  <2> QED
    BY <2>2, <2>3, BeginTyped
<1>4. ASSUME NEW reply \in {"100", "101", "other", "error"}, GatewayVerifies(s, reply)
      PROVE Typed'
  BY <1>4, ReplyTyped DEF GatewayVerifies, Replies
<1>5. CASE CommitCreatePayment(s)
  <2>1. t.order \in Orders /\ t.pay \in Payments \cup {NoPayment} /\ t.stock \in Int
    BY <1>0, <1>5 DEF CommitCreatePayment, Session
  <2>2. cart' \in [Users -> Cart]
    BY <1>5, <2>1, LockTyped DEF CommitCreatePayment
  <2>3. stock' \in Int
    BY <1>5, <2>1 DEF CommitCreatePayment, ReserveStock
  <2>4. order' \in [Orders -> OrderStatus \cup NoRow]
    BY <1>5 DEF CommitCreatePayment, SaveOrder, Saved, OrderStatus
  <2>5. /\ payOf' \in [Payments -> Orders \cup {NoOrder}]
        /\ payStatus' \in [Payments -> PaymentStatus \cup NoRow]
        /\ \A p \in Payments : payStatus'[p] # "NONE" => payOf'[p] \in Orders
    BY <1>5, <2>1 DEF CommitCreatePayment, PaymentStatus
  <2> QED
    BY <1>5, <2>2, <2>3, <2>4, <2>5, EndTyped DEF CommitCreatePayment
<1>6. CASE LogCallback(s) \/ CountPromotion(s) \/ LosesDeadlock(s) \/ LosesCartDeadlock(s)
  BY <1>6, ReplyTyped DEF LogCallback, CountPromotion, LosesDeadlock, LosesCartDeadlock, Replies
<1>7. CASE CommitVerified(s)
  <2>1. t.order \in Orders /\ t.open \in BOOLEAN /\ payStatus[t.pay] \notin NoRow
    BY <1>0, <1>7 DEF CommitVerified, PaymentLogged, Session
  <2>2. cart' \in [Users -> Cart]
    BY <1>7, <2>1, AbandonTyped DEF CommitVerified
  <2>3. order' \in [Orders -> OrderStatus \cup NoRow]
    BY <1>7 DEF CommitVerified, SaveOrder, Saved, OrderStatus
  <2>4. /\ payStatus' \in [Payments -> PaymentStatus \cup NoRow]
        /\ \A p \in Payments : payStatus'[p] # "NONE" => payOf[p] \in Orders
        /\ invoices' \in [Orders -> Nat]
    BY <1>7, <2>1 DEF CommitVerified, InvoiceOrVerified, PaymentStatus
  <2> QED
    BY <1>7, <2>2, <2>3, <2>4, EndTyped DEF CommitVerified
<1>8. CASE CommitAlreadyVerified(s) \/ CommitRefused(s) \/ VerifyThrows(s)
  BY <1>8, EndTyped DEF CommitAlreadyVerified, CommitRefused, VerifyThrows, SaveOrder,
     SavePayment, Saved, OrderStatus, PaymentStatus
<1>9. CASE CommitUserCancel(s) \/ RecordsFailed(s)
  BY <1>9, EndTyped DEF CommitUserCancel, RecordsFailed, SavePayment, Saved, PaymentStatus
<1>10. CASE CommitOrphaned(s)
  BY <1>10, EndTyped DEF CommitOrphaned, PaymentLogged, PaymentStatus
<1> QED
  BY <1>1, <1>2, <1>3, <1>4, <1>5, <1>6, <1>7, <1>8, <1>9, <1>10
  DEF OnlineStep, BeginVerify, BeginUserCancel


\* What the handlers of card-to-card payments read.
LEMMA TransferReadTyped ==
  ASSUME Typed, NEW p \in Transfers, payStatus[p] \notin NoRow,
         NEW op \in {"uploadReceipt", "approve", "reject"}
  PROVE  SessionTyped(TransferRead(op, p))
<1> DEFINE o == payOf[p]
           called == [Idle EXCEPT !.op = op, !.order = o, !.pay = p]
           read == [called EXCEPT !.status = order[o], !.payStatus = payStatus[p]]
<1>1. /\ o \in Orders
      /\ order[o] \in OrderStatus \cup NoRow
      /\ payStatus[p] \in PaymentStatus \cup NoRow
      /\ receipt[p] \in CardToCardStatus \cup {"NONE"}
  BY DEF Typed, TypeOK, RowsKnown
<1>2. TransferRead(op, p) = [read EXCEPT !.receipt = receipt[p]]
  BY DEF TransferRead
<1>3. called.op = op /\ called.order = o /\ called.reply = "none"
  BY DEF Idle
<1> HIDE DEF o
<1>4. op \in Ops
  BY DEF Ops
<1>5. called \in Session
  BY <1>1, <1>4, IdleTyped DEF Session, SessionTyped
<1> HIDE DEF called
<1>6. SessionTyped(read)
  BY <1>1, <1>3, <1>5 DEF Session, SessionTyped
<1> HIDE DEF read
<1> QED
  BY <1>1, <1>2, <1>6 DEF Session, SessionTyped

LEMMA SaveReceiptTyped ==
  ASSUME Typed, NEW s \in Sessions, NEW newReceipt \in CardToCardStatus,
         NEW newStatus \in PaymentStatus,
         SaveReceipt(s, newReceipt, newStatus)
  PROVE  /\ receipt' \in [Payments -> CardToCardStatus \cup {"NONE"}]
         /\ payStatus' \in [Payments -> PaymentStatus \cup NoRow]
         /\ \A p \in Payments : payStatus'[p] # "NONE" => payOf[p] \in Orders
  BY DEF Typed, TypeOK, RowsKnown, SaveReceipt, SavePayment, Saved

LEMMA TransferTyped ==
  ASSUME Typed, NEW s \in Sessions, TransferStep(s)
  PROVE  Typed'
<1> DEFINE t == tx[s]
<1> USE CheckoutAssumption DEF Typed, TypeOK, RowsKnown, SessionTyped
<1>0. t \in Session /\ SessionTyped(t)
  OBVIOUS
<1>1. ASSUME NEW o \in Orders, BeginInitiate(s, o) PROVE Typed'
  BY <1>1, CalledTyped, BeginTyped DEF BeginInitiate, Ops
<1>2. ASSUME NEW p \in Transfers, CommitInitiate(s, p) PROVE Typed'
  <2>1. t.order \in Orders
    BY <1>0, <1>2 DEF CommitInitiate
  <2>2. cart' \in [Users -> Cart]
    BY <1>2, <2>1, LockTyped DEF CommitInitiate
  <2>3. /\ payOf' \in [Payments -> Orders \cup {NoOrder}]
        /\ payStatus' \in [Payments -> PaymentStatus \cup NoRow]
        /\ receipt' \in [Payments -> CardToCardStatus \cup {"NONE"}]
        /\ \A q \in Payments : payStatus'[q] # "NONE" => payOf'[q] \in Orders
    BY <1>2, <2>1 DEF CommitInitiate, PaymentStatus, CardToCardStatus
  <2> QED
    BY <1>2, <2>2, <2>3, EndTyped DEF CommitInitiate
<1>3. ASSUME NEW p \in Transfers, BeginUploadReceipt(s, p) \/ BeginReject(s, p) PROVE Typed'
  BY <1>3, TransferReadTyped, BeginTyped DEF BeginUploadReceipt, BeginReject
<1>4. ASSUME NEW p \in Transfers, BeginApprove(s, p) PROVE Typed'
  <2> DEFINE read == TransferRead("approve", p)
             sawOpen == HasOpenCart(Owner[payOf[p]])
  <2>1. SessionTyped(read)
    BY <1>4, TransferReadTyped DEF BeginApprove
  <2>2. sawOpen \in BOOLEAN
    BY DEF HasOpenCart
  <2>3. Begin(s, [read EXCEPT !.stock = stock, !.open = sawOpen])
    BY <1>4 DEF BeginApprove
  <2> HIDE DEF read, sawOpen
  <2>4. SessionTyped([read EXCEPT !.stock = stock, !.open = sawOpen])
    BY <2>1, <2>2 DEF Session
  <2> QED
    BY <2>3, <2>4, BeginTyped
<1>5. CASE CommitUploadReceipt(s)
  <2>1. order' \in [Orders -> OrderStatus \cup NoRow]
    BY <1>5 DEF CommitUploadReceipt, SaveOrder, Saved, OrderStatus
  <2> QED
    BY <1>5, <2>1, SaveReceiptTyped, EndTyped
    DEF CommitUploadReceipt, CardToCardStatus, PaymentStatus
<1>6. CASE CommitApprove(s)
  <2>1. t.order \in Orders /\ t.open \in BOOLEAN /\ t.stock \in Int
    BY <1>0, <1>6 DEF CommitApprove, Session
  <2>2. order' \in [Orders -> OrderStatus \cup NoRow]
    BY <1>6 DEF CommitApprove, SaveOrder, Saved, OrderStatus
  <2>3. stock' \in Int
    BY <1>6, <2>1 DEF CommitApprove, ReserveStock
  <2>4. cart' \in [Users -> Cart]
    BY <1>6, <2>1, AbandonTyped DEF CommitApprove
  <2>5. invoices' \in [Orders -> Nat]
    BY <1>6 DEF CommitApprove
  <2> QED
    BY <1>6, <2>2, <2>3, <2>4, <2>5, SaveReceiptTyped, EndTyped
    DEF CommitApprove, CardToCardStatus, PaymentStatus
<1>7. CASE CommitReject(s)
  <2>1. order' \in [Orders -> OrderStatus \cup NoRow]
    BY <1>7 DEF CommitReject, SaveOrder, Saved, OrderStatus
  <2>2. cart' \in [Users -> Cart]
    BY <1>0, <1>7, LockTyped DEF CommitReject
  <2> QED
    BY <1>7, <2>1, <2>2, SaveReceiptTyped, EndTyped
    DEF CommitReject, CardToCardStatus, PaymentStatus
<1> QED
  BY <1>1, <1>2, <1>3, <1>4, <1>5, <1>6, <1>7 DEF TransferStep

LEMMA OrderTyped ==
  ASSUME Typed, NEW s \in Sessions, OrderStep(s)
  PROVE  Typed'
<1> DEFINE t == tx[s]
<1> USE CheckoutAssumption DEF Typed, TypeOK, RowsKnown, SessionTyped
<1>0. t \in Session /\ SessionTyped(t)
  OBVIOUS
<1>1. ASSUME NEW o \in Orders, BeginCreateFromCard(s, o) PROVE Typed'
  <2>1. PICK found \in SUBSET Orders :
          Begin(s, [Idle EXCEPT !.op = "createFromCard", !.order = o, !.batch = found])
    BY <1>1 DEF BeginCreateFromCard, StartedOrders
  <2> DEFINE called == [Idle EXCEPT !.op = "createFromCard", !.order = o]
  <2>4. SessionTyped(called)
    BY CalledTyped DEF Ops
  <2> HIDE DEF called
  <2>2. SessionTyped([called EXCEPT !.batch = found])
    BY <2>4 DEF Session
  <2>3. SessionTyped([Idle EXCEPT !.op = "createFromCard", !.order = o, !.batch = found])
    BY <2>2 DEF called
  <2> QED
    BY <2>1, <2>3, BeginTyped
<1>2. ASSUME NEW o \in Orders, BeginAwaitingPayment(s, o) \/ BeginCancelOrder(s, o)
      PROVE Typed'
  <2> DEFINE session(op, sawOpen) ==
               [Idle EXCEPT !.op = op, !.order = o, !.status = order[o], !.open = sawOpen]
  <2>1. ASSUME NEW op \in {"awaitingPayment", "cancelOrder"}, NEW sawOpen \in BOOLEAN
        PROVE  SessionTyped(session(op, sawOpen))
    <3> DEFINE called == [Idle EXCEPT !.op = op, !.order = o]
    <3>1. SessionTyped(called)
      BY CalledTyped DEF Ops
    <3> HIDE DEF called
    <3>2. SessionTyped([called EXCEPT !.status = order[o], !.open = sawOpen])
      BY <3>1 DEF Session
    <3> QED
      BY <3>2 DEF called
  <2>2. PICK op \in {"awaitingPayment", "cancelOrder"}, sawOpen \in BOOLEAN :
          Begin(s, session(op, sawOpen))
    <3>1. HasOpenCart(Owner[o]) \in BOOLEAN
      BY DEF HasOpenCart
    <3> QED
      BY <1>2, <3>1 DEF BeginAwaitingPayment, BeginCancelOrder
  <2> QED
    BY <2>1, <2>2, BeginTyped
<1>3. ASSUME NEW u \in Users, BeginGetMyCard(s, u) PROVE Typed'
  <2> DEFINE called == [Idle EXCEPT !.op = "getMyCard"]
  <2>1. called.op = "getMyCard" /\ called.reply = "none"
    BY DEF Idle
  <2>2. called \in Session
    <3> HIDE DEF Typed, TypeOK, RowsKnown
    <3> QED
      BY IdleTyped DEF Session, Ops
  <2> HIDE DEF called
  <2>3. SessionTyped([called EXCEPT !.batch = {u}])
    BY <2>1, <2>2 DEF Session
  <2>4. SessionTyped([Idle EXCEPT !.op = "getMyCard", !.batch = {u}])
    BY <2>3 DEF called
  <2> QED
    BY <1>3, <2>4, BeginTyped DEF BeginGetMyCard
<1>4. CASE CommitCreateFromCard(s)
  <2>1. /\ order' \in [Orders -> OrderStatus \cup NoRow]
        /\ invoices' \in [Orders -> Nat]
    BY <1>4 DEF CommitCreateFromCard, OrderStatus
  <2>2. /\ payStatus' \in [Payments -> PaymentStatus \cup NoRow]
        /\ \A p \in Payments : payStatus'[p] # "NONE" => payOf[p] \in Orders
    BY <1>4 DEF CommitCreateFromCard
  <2> QED
    BY <1>4, <2>1, <2>2, EndTyped DEF CommitCreateFromCard
<1>5. CASE CommitAwaitingPayment(s) \/ CommitCancelOrder(s)
  <2>1. t.order \in Orders /\ t.open \in BOOLEAN
    BY <1>0, <1>5 DEF CommitAwaitingPayment, CommitCancelOrder, Session
  <2>2. order' \in [Orders -> OrderStatus \cup NoRow]
    BY <1>5 DEF CommitAwaitingPayment, CommitCancelOrder, SaveOrder, Saved, OrderStatus
  <2>3. cart' \in [Users -> Cart]
    BY <1>5, <2>1, AbandonTyped
    DEF CommitAwaitingPayment, CommitCancelOrder, TriedToAbandonCart
  <2>4. stock' \in Int
    BY <1>5, <2>1 DEF CommitAwaitingPayment, CommitCancelOrder, ReturnStock
  <2> QED
    BY <1>5, <2>2, <2>3, <2>4, EndTyped DEF CommitAwaitingPayment, CommitCancelOrder
<1>6. CASE CommitGetMyCard(s)
  <2>1. cart' \in [Users -> Cart]
    BY <1>6 DEF CommitGetMyCard, Cart
  <2> QED
    BY <1>6, <2>1, EndTyped DEF CommitGetMyCard
<1>7. CASE Rollback(s)
  BY <1>7, EndTyped DEF Rollback
<1> QED
  BY <1>1, <1>2, <1>3, <1>4, <1>5, <1>6, <1>7 DEF OrderStep

LEMMA JobTyped ==
  ASSUME Typed, NEW s \in Sessions, JobStep(s)
  PROVE  Typed'
<1> DEFINE t == tx[s]
<1> USE CheckoutAssumption DEF Typed, TypeOK, RowsKnown, SessionTyped
<1>0. t \in Session /\ SessionTyped(t)
  OBVIOUS
<1>1. ASSUME NEW op \in {"expire", "unlockStuck"}
      PROVE  /\ SessionTyped([Idle EXCEPT !.op = op])
  <2>1. [Idle EXCEPT !.op = op].op = op /\ [Idle EXCEPT !.op = op].reply = "none"
    BY DEF Idle
  <2> HIDE DEF Typed, TypeOK, RowsKnown
  <2> QED
    BY <2>1, IdleTyped DEF Session, Ops
<1>2. CASE BeginExpire(s)
  <2> DEFINE called == [Idle EXCEPT !.op = "expire"]
             found == { o \in Orders : Expirable(o) }
  <2>1. SessionTyped(called)
    BY <1>1
  <2>2. Begin(s, [Idle EXCEPT !.op = "expire", !.stock = stock, !.batch = found])
    BY <1>2 DEF BeginExpire
  <2> HIDE DEF called
  <2>3. SessionTyped([called EXCEPT !.stock = stock, !.batch = found])
    BY <2>1 DEF Session
  <2>4. SessionTyped([Idle EXCEPT !.op = "expire", !.stock = stock, !.batch = found])
    BY <2>3 DEF called
  <2> QED
    BY <2>2, <2>4, BeginTyped
<1>3. CASE BeginUnlockStuck(s)
  <2> DEFINE called == [Idle EXCEPT !.op = "unlockStuck"]
  <2>1. SessionTyped(called)
    BY <1>1
  <2>2. PICK old \in SUBSET Users : Begin(s, [Idle EXCEPT !.op = "unlockStuck", !.batch = old])
    BY <1>3 DEF BeginUnlockStuck, StuckUsers
  <2> HIDE DEF called
  <2>3. SessionTyped([called EXCEPT !.batch = old])
    BY <2>1 DEF Session
  <2>4. SessionTyped([Idle EXCEPT !.op = "unlockStuck", !.batch = old])
    BY <2>3 DEF called
  <2> QED
    BY <2>2, <2>4, BeginTyped
<1>4. ASSUME NEW o \in Orders, ExpireNext(s, o) PROVE Typed'
  <2> DEFINE sum == t.stock + Qty[o]
             done == t.done \cup {o}
             next == [t EXCEPT !.stock = sum, !.done = done]
  <2>1. sum \in Int /\ done \in SUBSET Orders
    BY <1>0 DEF Session
  <2>2. tx' = [tx EXCEPT ![s] = next]
    BY <1>4 DEF ExpireNext
  <2> HIDE DEF sum, done
  <2>3. SessionTyped(next)
    <3> HIDE DEF Typed, TypeOK, RowsKnown, t
    <3> QED
      BY <1>0, <2>1 DEF Session
  <2> QED
    BY <1>4, <2>2, <2>3, SessionsTyped DEF ExpireNext
<1>5. CASE CommitExpire(s)
  <2>1. order' \in [Orders -> OrderStatus \cup NoRow]
    BY <1>5 DEF CommitExpire, OrderStatus
  <2>2. stock' \in Int
    BY <1>0, <1>5 DEF CommitExpire, Session
  <2>3. cart' \in [Users -> Cart]
    BY <1>5, LockTyped DEF CommitExpire
  <2> QED
    BY <1>5, <2>1, <2>2, <2>3, EndTyped DEF CommitExpire
<1>6. CASE CommitUnlockStuck(s)
  <2>1. cart' \in [Users -> Cart]
    BY <1>6, LockTyped DEF CommitUnlockStuck
  <2> QED
    BY <1>6, <2>1, EndTyped DEF CommitUnlockStuck
<1> QED
  BY <1>2, <1>3, <1>4, <1>5, <1>6 DEF JobStep

\* The steps outside the sessions.
LEMMA EnvironmentTyped ==
  ASSUME Typed,
         \/ \E o \in Orders : Ages(o)
         \/ \E a \in Authorities : UserPays(a)
         \/ \E u \in Users : AddItem(u) \/ LockAnyCart(u) \/ CleanupAbandoned(u)
         \/ UNCHANGED vars
  PROVE  Typed'
<1> USE DEF Typed, TypeOK, RowsKnown
<1>1. ASSUME NEW o \in Orders, Ages(o) PROVE Typed'
  BY <1>1 DEF Ages
<1>2. ASSUME NEW a \in Authorities, UserPays(a) PROVE Typed'
  BY <1>2 DEF UserPays
<1>3. ASSUME NEW u \in Users, AddItem(u) \/ LockAnyCart(u) \/ CleanupAbandoned(u)
      PROVE Typed'
  <2>1. /\ cart[u] \in Cart
        /\ [cart[u] EXCEPT !.open = 1] \in Cart
        /\ cart[u].open > 0 => LockOpen(cart[u]) \in Cart
        /\ cart[u].abandoned > 0 => LockAbandoned(cart[u]) \in Cart
        /\ cart[u].abandoned > 0 => [cart[u] EXCEPT !.abandoned = @ - 1] \in Cart
    BY DEF Cart, LockOpen, LockAbandoned
  <2>2. cart' \in [Users -> Cart]
    BY <1>3, <2>1 DEF AddItem, LockAnyCart, CleanupAbandoned
  <2> QED
    BY <1>3, <2>2 DEF AddItem, LockAnyCart, CleanupAbandoned
<1>4. CASE UNCHANGED vars
  BY <1>4
<1> QED
  BY <1>1, <1>2, <1>3, <1>4

\* Type correctness: whatever the handlers interleave, every row, every cart
\* and every transaction in progress stays what it is meant to be.
THEOREM TypeCorrect == Spec => []TypeOK
<1>1. Init => Typed
  BY InitTyped
<1>2. Typed /\ [Next]_vars => Typed'
  BY OnlineTyped, TransferTyped, OrderTyped, JobTyped, EnvironmentTyped DEF Next
<1>3. Typed => TypeOK
  BY DEF Typed
<1> QED
  BY <1>1, <1>2, <1>3, PTL DEF Spec

-----------------------------------------------------------------------------
(* The stock.  Every write of it is a difference to what the transaction   *)
(* read, checked against what it read, so the invariant also has to bound  *)
(* what the transactions in progress have read, or have counted up.        *)

StockInv ==
  /\ Typed
  /\ StockNonNegative
  /\ \A s \in Sessions : tx[s].stock >= 0

\* A transaction that changes in its session only, to a record that has read
\* no negative stock.
LEMMA ReadsStay ==
  ASSUME StockInv, NEW s \in Sessions, NEW next, next.stock >= 0, tx' = [tx EXCEPT ![s] = next]
  PROVE  \A r \in Sessions : tx'[r].stock >= 0
  BY DEF StockInv, Typed, TypeOK

LEMMA EndReads ==
  ASSUME StockInv, NEW s \in Sessions, End(s)
  PROVE  \A r \in Sessions : tx'[r].stock >= 0
<1>1. Idle.stock >= 0
  BY DEF Idle
<1> QED
  BY <1>1, ReadsStay DEF End

LEMMA BeginReads ==
  ASSUME StockInv, NEW s \in Sessions, NEW session, session.stock >= 0, Begin(s, session)
  PROVE  StockNonNegative' /\ \A r \in Sessions : tx'[r].stock >= 0
  BY ReadsStay DEF Begin, StockInv, StockNonNegative

LEMMA ReplyReads ==
  ASSUME StockInv, NEW s \in Sessions, NEW reply, tx' = [tx EXCEPT ![s].reply = reply]
  PROVE  \A r \in Sessions : tx'[r].stock >= 0
  BY DEF StockInv, Typed, TypeOK, Session

\* decreaseStock never takes more than it has read.
LEMMA ReserveNonNegative ==
  ASSUME StockInv, NEW s \in Sessions, tx[s].order \in Orders, ReserveStock(tx[s])
  PROVE  StockNonNegative'
  BY CheckoutAssumption
  DEF StockInv, Typed, TypeOK, Session, ReserveStock, StockNonNegative

LEMMA ReturnNonNegative ==
  ASSUME StockInv, NEW o \in Orders, ReturnStock(o)
  PROVE  StockNonNegative'
  BY CheckoutAssumption DEF StockInv, Typed, TypeOK, ReturnStock, StockNonNegative

LEMMA OnlineStock ==
  ASSUME StockInv, NEW s \in Sessions, OnlineStep(s)
  PROVE  StockNonNegative' /\ \A r \in Sessions : tx'[r].stock >= 0
<1> DEFINE Good == StockNonNegative' /\ \A r \in Sessions : tx'[r].stock >= 0
<1>0. /\ UNCHANGED stock => StockNonNegative'
      /\ stock >= 0
  BY DEF StockInv, StockNonNegative
<1>1. ASSUME NEW o \in Orders, BeginCreatePayment(s, o) PROVE Good
  BY <1>0, <1>1, BeginReads DEF BeginCreatePayment, Idle
<1>2. ASSUME NEW a \in Authorities, GatewayIssues(s, a) PROVE Good
  BY <1>0, <1>2 DEF GatewayIssues, StockInv, Typed, TypeOK, Session
<1>3. ASSUME NEW a \in Authorities, NEW op \in {"verifyPayment", "userCancel"},
             BeginCallback(s, a, op)
      PROVE Good
  <2> DEFINE o == payOf[a]
             sawOpen == op = "verifyPayment" /\ HasOpenCart(Owner[o])
             session == [Idle EXCEPT !.op = op, !.order = o, !.pay = a, !.status = order[o],
                                     !.payStatus = payStatus[a], !.open = sawOpen]
  <2>1. session.stock >= 0
    BY DEF Idle
  <2>2. Begin(s, session)
    BY <1>3 DEF BeginCallback
  <2> HIDE DEF session
  <2> QED
    BY <2>1, <2>2, BeginReads
<1>4. CASE CommitCreatePayment(s)
  <2>1. tx[s].order \in Orders
    BY <1>4 DEF CommitCreatePayment, StockInv, Typed, RowsKnown
  <2> QED
    BY <1>4, <2>1, ReserveNonNegative, EndReads DEF CommitCreatePayment
<1>5. CASE \/ LogCallback(s) \/ CountPromotion(s) \/ LosesDeadlock(s) \/ LosesCartDeadlock(s)
           \/ \E reply \in {"100", "101", "other", "error"} : GatewayVerifies(s, reply)
  BY <1>0, <1>5, ReplyReads
  DEF LogCallback, CountPromotion, LosesDeadlock, LosesCartDeadlock, GatewayVerifies
<1>6. CASE CommitVerified(s) \/ CommitAlreadyVerified(s) \/ CommitRefused(s) \/ VerifyThrows(s)
  BY <1>0, <1>6, EndReads DEF CommitVerified, CommitAlreadyVerified, CommitRefused, VerifyThrows
<1>7. CASE CommitUserCancel(s) \/ RecordsFailed(s) \/ CommitOrphaned(s)
  BY <1>0, <1>7, EndReads DEF CommitUserCancel, RecordsFailed, CommitOrphaned
<1> QED
  BY <1>1, <1>2, <1>3, <1>4, <1>5, <1>6, <1>7
  DEF OnlineStep, BeginVerify, BeginUserCancel

LEMMA TransferStock ==
  ASSUME StockInv, NEW s \in Sessions, TransferStep(s)
  PROVE  StockNonNegative' /\ \A r \in Sessions : tx'[r].stock >= 0
<1> DEFINE Good == StockNonNegative' /\ \A r \in Sessions : tx'[r].stock >= 0
<1>0. /\ UNCHANGED stock => StockNonNegative'
      /\ stock >= 0
  BY DEF StockInv, StockNonNegative
<1>1. ASSUME NEW o \in Orders, BeginInitiate(s, o) PROVE Good
  <2> DEFINE session == [Idle EXCEPT !.op = "initiate", !.order = o]
  <2>1. session.stock >= 0
    BY DEF Idle
  <2>2. Begin(s, session)
    BY <1>1 DEF BeginInitiate
  <2> HIDE DEF session
  <2> QED
    BY <2>1, <2>2, BeginReads
<1>2. ASSUME NEW p \in Transfers, BeginUploadReceipt(s, p) \/ BeginReject(s, p) PROVE Good
  <2>1. \A op : TransferRead(op, p).stock >= 0
    BY DEF TransferRead, Idle
  <2> QED
    BY <1>2, <2>1, BeginReads DEF BeginUploadReceipt, BeginReject
<1>3. ASSUME NEW p \in Transfers, BeginApprove(s, p) PROVE Good
  <2> DEFINE session == [TransferRead("approve", p) EXCEPT
                           !.stock = stock, !.open = HasOpenCart(Owner[payOf[p]])]
  <2>1. session.stock >= 0
    BY <1>0 DEF TransferRead, Idle
  <2>2. Begin(s, session)
    BY <1>3 DEF BeginApprove
  <2> HIDE DEF session
  <2> QED
    BY <2>1, <2>2, BeginReads
<1>4. ASSUME NEW p \in Transfers, CommitInitiate(s, p) PROVE Good
  BY <1>0, <1>4, EndReads DEF CommitInitiate
<1>5. CASE CommitUploadReceipt(s) \/ CommitReject(s)
  BY <1>0, <1>5, EndReads DEF CommitUploadReceipt, CommitReject
<1>6. CASE CommitApprove(s)
  <2>1. tx[s].order \in Orders
    BY <1>6 DEF CommitApprove, StockInv, Typed, RowsKnown
  <2> QED
    BY <1>6, <2>1, ReserveNonNegative, EndReads DEF CommitApprove
<1> QED
  BY <1>1, <1>2, <1>3, <1>4, <1>5, <1>6 DEF TransferStep

LEMMA OrderStock ==
  ASSUME StockInv, NEW s \in Sessions, OrderStep(s)
  PROVE  StockNonNegative' /\ \A r \in Sessions : tx'[r].stock >= 0
<1> DEFINE Good == StockNonNegative' /\ \A r \in Sessions : tx'[r].stock >= 0
<1>0. UNCHANGED stock => StockNonNegative'
  BY DEF StockInv, StockNonNegative
<1>1. ASSUME NEW o \in Orders, BeginCreateFromCard(s, o) PROVE Good
  <2> DEFINE session(found) ==
               [Idle EXCEPT !.op = "createFromCard", !.order = o, !.batch = found]
  <2>1. \A found : session(found).stock >= 0
    BY DEF Idle
  <2>2. \E found : Begin(s, session(found))
    BY <1>1 DEF BeginCreateFromCard
  <2> HIDE DEF session
  <2> QED
    BY <2>1, <2>2, BeginReads
<1>2. ASSUME NEW o \in Orders, BeginAwaitingPayment(s, o) \/ BeginCancelOrder(s, o) PROVE Good
  <2> DEFINE session(op) == [Idle EXCEPT !.op = op, !.order = o, !.status = order[o],
                                         !.open = HasOpenCart(Owner[o])]
  <2>1. \A op : session(op).stock >= 0
    BY DEF Idle
  <2>2. Begin(s, session("awaitingPayment")) \/ Begin(s, session("cancelOrder"))
    BY <1>2 DEF BeginAwaitingPayment, BeginCancelOrder
  <2> HIDE DEF session
  <2> QED
    BY <2>1, <2>2, BeginReads
<1>3. ASSUME NEW u \in Users, BeginGetMyCard(s, u) PROVE Good
  <2> DEFINE session == [Idle EXCEPT !.op = "getMyCard", !.batch = {u}]
  <2>1. session.stock >= 0
    BY DEF Idle
  <2>2. Begin(s, session)
    BY <1>3 DEF BeginGetMyCard
  <2> HIDE DEF session
  <2> QED
    BY <2>1, <2>2, BeginReads
<1>4. CASE CommitCreateFromCard(s) \/ CommitAwaitingPayment(s) \/ CommitGetMyCard(s) \/ Rollback(s)
  BY <1>0, <1>4, EndReads
  DEF CommitCreateFromCard, CommitAwaitingPayment, CommitGetMyCard, Rollback
<1>5. CASE CommitCancelOrder(s)
  <2>1. tx[s].order \in Orders
    BY <1>5 DEF CommitCancelOrder, StockInv, Typed, RowsKnown
  <2> QED
    BY <1>0, <1>5, <2>1, ReturnNonNegative, EndReads DEF CommitCancelOrder
<1> QED
  BY <1>1, <1>2, <1>3, <1>4, <1>5 DEF OrderStep

LEMMA JobStock ==
  ASSUME StockInv, NEW s \in Sessions, JobStep(s)
  PROVE  StockNonNegative' /\ \A r \in Sessions : tx'[r].stock >= 0
<1> DEFINE Good == StockNonNegative' /\ \A r \in Sessions : tx'[r].stock >= 0
<1>0. /\ UNCHANGED stock => StockNonNegative'
      /\ stock >= 0
  BY DEF StockInv, StockNonNegative
<1>1. CASE BeginExpire(s)
  BY <1>0, <1>1, BeginReads DEF BeginExpire, Idle
<1>2. CASE BeginUnlockStuck(s)
  <2> DEFINE session(old) == [Idle EXCEPT !.op = "unlockStuck", !.batch = old]
  <2>1. \A old : session(old).stock >= 0
    BY DEF Idle
  <2>2. \E old : Begin(s, session(old))
    BY <1>2 DEF BeginUnlockStuck
  <2> HIDE DEF session
  <2> QED
    BY <2>1, <2>2, BeginReads
<1>3. ASSUME NEW o \in Orders, ExpireNext(s, o) PROVE Good
  <2> DEFINE t == tx[s]
             sum == t.stock + Qty[o]
             next == [t EXCEPT !.stock = sum, !.done = t.done \cup {o}]
  <2>1. sum >= 0 /\ t \in Session
    BY CheckoutAssumption DEF StockInv, Typed, TypeOK, Session
  <2>2. tx' = [tx EXCEPT ![s] = next]
    BY <1>3 DEF ExpireNext
  <2> HIDE DEF t, sum
  <2>3. next.stock >= 0
    BY <2>1 DEF Session
  <2> QED
    BY <1>0, <1>3, <2>2, <2>3, ReadsStay DEF ExpireNext
<1>4. CASE CommitExpire(s)
  BY <1>4, EndReads DEF CommitExpire, StockInv, StockNonNegative
<1>5. CASE CommitUnlockStuck(s)
  BY <1>0, <1>5, EndReads DEF CommitUnlockStuck
<1> QED
  BY <1>1, <1>2, <1>3, <1>4, <1>5 DEF JobStep

\* No interleaving of reservations, expiries, cancellations and approvals makes
\* the stock column negative, although each of them writes to the product
\* what it computed from an older reading of it.
THEOREM StockStaysNonNegative == Spec => []StockNonNegative
<1>1. Init => StockInv
  BY InitTyped, CheckoutAssumption DEF Init, StockInv, StockNonNegative, Idle
<1>2. ASSUME StockInv, [Next]_vars PROVE StockInv'
  <2>1. Typed'
    BY <1>2, OnlineTyped, TransferTyped, OrderTyped, JobTyped, EnvironmentTyped
    DEF StockInv, Next
  <2>2. ASSUME \/ \E o \in Orders : Ages(o)
               \/ \E a \in Authorities : UserPays(a)
               \/ \E u \in Users : AddItem(u) \/ LockAnyCart(u) \/ CleanupAbandoned(u)
               \/ UNCHANGED vars
        PROVE  UNCHANGED << stock, tx >>
    BY <2>2 DEF Ages, UserPays, AddItem, LockAnyCart, CleanupAbandoned
  <2>3. StockNonNegative' /\ \A r \in Sessions : tx'[r].stock >= 0
    <3>1. UNCHANGED << stock, tx >> => StockNonNegative' /\ \A r \in Sessions : tx'[r].stock >= 0
      BY <1>2 DEF StockInv, StockNonNegative
    <3> QED
      BY <1>2, <2>2, <3>1, OnlineStock, TransferStock, OrderStock, JobStock DEF Next
  <2> QED
    BY <2>1, <2>3 DEF StockInv
<1>3. StockInv => StockNonNegative
  BY DEF StockInv
<1> QED
  BY <1>1, <1>2, <1>3, PTL DEF Spec

=============================================================================
