---------------------------- MODULE PaymentProofs ----------------------------
(***************************************************************************)
(* The money of the checkout: what the gateway has captured, what the      *)
(* promotions, the invoices and the orders say has been paid, and what     *)
(* stays true of payments, orders and units when requests do not overlap.  *)
(***************************************************************************)
EXTENDS CheckoutProofs, FiniteSetTheorems

USE DEF NoRow, Payments, tables, vars

Callback == {"verifyPayment", "userCancel"}

\* A session that has got an authority and has not inserted its payment.
Waits(t) == t.op = "createPayment" /\ t.pay # NoPayment

\* What a session knows of its authority is true, g being what the gateway says
\* and of being the orders of the payments.
ToldBy(t, g, of) ==
  /\ Waits(t) => t.pay \in Authorities /\ g[t.pay] # "unused" /\ of[t.pay] = NoOrder
  /\ t.op \in Callback => t.pay \in Authorities /\ of[t.pay] = t.order
  /\ t.reply \in {"100", "counted"} => g[t.pay] = "captured"

Told(t) == ToldBy(t, gateway, payOf)

Single == \A r, s \in Sessions : Waits(tx[r]) /\ Waits(tx[s]) /\ tx[r].pay = tx[s].pay => r = s
UnusedIsFree == \A a \in Authorities : gateway[a] = "unused" => payOf[a] = NoOrder

TellsTruth ==
  /\ \A s \in Sessions : Told(tx[s])
  /\ Single /\ UnusedIsFree /\ PreparedIsCaptured

IInv == Typed /\ TellsTruth

\* The gateway issues and captures, and takes neither back.
Advances ==
  \A a \in Authorities : /\ gateway[a] # "unused" => gateway'[a] # "unused"
                         /\ gateway[a] = "captured" => gateway'[a] = "captured"

LEMMA IdleTold == Told(Idle) /\ ~Waits(Idle)
  BY DEF Told, ToldBy, Waits, Idle, Callback

-----------------------------------------------------------------------------
\* A session changes to a record that is true too.
LEMMA SessionStep ==
  ASSUME IInv, NEW s \in Sessions, NEW next, tx' = [tx EXCEPT ![s] = next],
         UNCHANGED << order, payOf >>, Advances,
         \A a \in Authorities : gateway'[a] = "unused" => gateway[a] = "unused",
         ToldBy(next, gateway', payOf'), Waits(next) => Waits(tx[s]) /\ next.pay = tx[s].pay
  PROVE  TellsTruth'
<1>1. \A r \in Sessions : tx'[r] = IF r = s THEN next ELSE tx[r]
  BY DEF IInv, Typed, TypeOK
<1>2. ASSUME NEW r \in Sessions, r # s PROVE Told(tx[r])'
  <2>1. Told(tx[r]) /\ tx'[r] = tx[r]
    BY <1>1, <1>2 DEF IInv, TellsTruth
  <2>2. tx[r].reply \in {"100", "counted"} => tx[r].op \in Callback
    BY DEF IInv, Typed, RowsKnown, Callback
  <2>3. Waits(tx[r])' => Waits(tx[r])
    BY <2>1 DEF Waits
  <2> QED
    BY <2>1, <2>2, <2>3 DEF Told, ToldBy, Advances
<1>3. Told(tx[s])'
  BY <1>1 DEF Told, ToldBy, Waits
<1>4. Single'
  BY <1>1 DEF IInv, TellsTruth, Single, Waits
<1>5. UnusedIsFree'
  BY DEF IInv, TellsTruth, UnusedIsFree
<1>6. PreparedIsCaptured'
  BY DEF IInv, TellsTruth, PreparedIsCaptured, Captured, Advances
<1> QED
  BY <1>2, <1>3, <1>4, <1>5, <1>6 DEF TellsTruth

LEMMA BeginStep ==
  ASSUME IInv, NEW s \in Sessions, NEW session, Begin(s, session),
         session.reply = "none", session.op \notin Callback, ~Waits(session)
  PROVE  TellsTruth'
<1>1. UNCHANGED << order, payOf, gateway >> /\ tx' = [tx EXCEPT ![s] = session]
  BY DEF Begin
<1>2. ToldBy(session, gateway', payOf')
  BY DEF Told, ToldBy, Waits
<1>3. Advances /\ \A a \in Authorities : gateway'[a] = "unused" => gateway[a] = "unused"
  BY <1>1 DEF Advances
<1> QED
  BY <1>1, <1>2, <1>3, SessionStep

\* The end of a session; the orders it leaves in preparation were so, or have
\* been paid.
LEMMA EndStep ==
  ASSUME IInv, NEW s \in Sessions, End(s), UNCHANGED gateway,
         \A a \in Authorities : payOf'[a] = payOf[a],
         \A o \in Orders : order'[o] = "PREPARING" =>
           \/ order[o] = "PREPARING"
           \/ \E a \in Authorities : payOf[a] = o /\ gateway[a] = "captured"
  PROVE  TellsTruth'
<1>1. \A r \in Sessions : tx'[r] = IF r = s THEN Idle ELSE tx[r]
  BY DEF End, IInv, Typed, TypeOK
<1>2. ASSUME NEW r \in Sessions PROVE Told(tx[r])'
  <2>1. CASE r = s
    BY <1>1, <2>1, IdleTold DEF Told, ToldBy, Waits, Idle, Callback
  <2>2. CASE r # s
    <3>1. Told(tx[r]) /\ tx'[r] = tx[r]
      BY <1>1, <2>2 DEF IInv, TellsTruth
    <3> QED
      BY <3>1 DEF Told, ToldBy, Waits
  <2> QED
    BY <2>1, <2>2
<1>3. Single'
  BY <1>1, IdleTold DEF IInv, TellsTruth, Single, Waits, Idle
<1>4. UnusedIsFree'
  BY DEF IInv, TellsTruth, UnusedIsFree
<1>5. PreparedIsCaptured'
  BY DEF IInv, TellsTruth, PreparedIsCaptured, Captured
<1> QED
  BY <1>2, <1>3, <1>4, <1>5 DEF TellsTruth

\* The status an order row gets by save.
LEMMA SavedPrepares ==
  ASSUME IInv, NEW s \in Sessions, NEW new, SaveOrder(s, new), tx[s].order \in Orders
  PROVE  \A o \in Orders : order'[o] = "PREPARING" =>
           order[o] = "PREPARING" \/ (o = tx[s].order /\ new = "PREPARING")
  BY DEF SaveOrder, Saved, IInv, Typed, TypeOK

\* The gateway answers a session, or the session goes on.
LEMMA ReplyStep ==
  ASSUME IInv, NEW s \in Sessions, NEW reply, tx' = [tx EXCEPT ![s].reply = reply],
         tx[s].op \in Callback, UNCHANGED << order, payOf >>, Advances,
         \A a \in Authorities : gateway'[a] = "unused" => gateway[a] = "unused",
         reply \in {"100", "counted"} => gateway'[tx[s].pay] = "captured"
  PROVE  TellsTruth'
<1> DEFINE next == [tx[s] EXCEPT !.reply = reply]
<1>1. tx' = [tx EXCEPT ![s] = next]
  OBVIOUS
<1>2. /\ next.op = tx[s].op /\ next.pay = tx[s].pay /\ next.order = tx[s].order
      /\ next.reply = reply
  BY DEF IInv, Typed, TypeOK, Session
<1> HIDE DEF next
<1>3. Told(tx[s])
  BY DEF IInv, TellsTruth
<1>4. ~Waits(next)
  BY <1>2 DEF Waits, Callback
<1>5. ToldBy(next, gateway', payOf')
  BY <1>2, <1>3, <1>4 DEF Told, ToldBy, Waits, Callback
<1> QED
  BY <1>1, <1>4, <1>5, SessionStep

-----------------------------------------------------------------------------
(* Every group of steps.                                                   *)

LEMMA IssuesTold ==
  ASSUME IInv, NEW s \in Sessions, NEW a \in Authorities, GatewayIssues(s, a)
  PROVE  TellsTruth'
<1> DEFINE next == [tx[s] EXCEPT !.pay = a]
<1>1. /\ tx[s].op = "createPayment" /\ tx[s].pay = NoPayment /\ gateway[a] = "unused"
      /\ gateway' = [gateway EXCEPT ![a] = "issued"]
      /\ UNCHANGED << order, payOf >>
  BY DEF GatewayIssues
<1>2. \A r \in Sessions : tx'[r] = IF r = s THEN next ELSE tx[r]
  BY DEF GatewayIssues, IInv, Typed, TypeOK
<1>3. next.op = "createPayment" /\ next.pay = a /\ next.reply = "none"
  <2>1. tx[s].reply = "none"
    BY <1>1 DEF IInv, Typed, RowsKnown
  <2> QED
    BY <1>1, <2>1 DEF IInv, Typed, TypeOK, Session
<1> HIDE DEF next
<1>4. \A b \in Authorities : gateway'[b] = IF b = a THEN "issued" ELSE gateway[b]
  BY <1>1 DEF IInv, Typed, TypeOK
<1>5. payOf[a] = NoOrder
  BY <1>1 DEF IInv, TellsTruth, UnusedIsFree
<1>6. \A r \in Sessions : Waits(tx[r]) => tx[r].pay # a
  BY <1>1 DEF IInv, TellsTruth, Told, ToldBy
<1>7. ASSUME NEW r \in Sessions PROVE Told(tx[r])'
  <2>1. CASE r = s
    BY <1>1, <1>2, <1>3, <1>4, <1>5, <2>1 DEF Told, ToldBy, Waits, Callback
  <2>2. CASE r # s
    <3>1. Told(tx[r]) /\ tx'[r] = tx[r]
      BY <1>2, <2>2 DEF IInv, TellsTruth
    <3>2. tx[r].reply \in {"100", "counted"} => tx[r].op \in Callback
      BY DEF IInv, Typed, RowsKnown, Callback
    <3>3. Waits(tx[r])' => Waits(tx[r])
      BY <3>1 DEF Waits
    <3> QED
      BY <1>1, <1>4, <3>1, <3>2, <3>3 DEF Told, ToldBy
  <2> QED
    BY <2>1, <2>2
<1>8. Single'
  BY <1>2, <1>3, <1>6 DEF IInv, TellsTruth, Single, Waits
<1>9. UnusedIsFree'
  BY <1>1, <1>4 DEF IInv, TellsTruth, UnusedIsFree
<1>10. PreparedIsCaptured'
  BY <1>1, <1>4 DEF IInv, TellsTruth, PreparedIsCaptured, Captured
<1> QED
  BY <1>7, <1>8, <1>9, <1>10 DEF TellsTruth

LEMMA PaymentInserted ==
  ASSUME IInv, NEW s \in Sessions, CommitCreatePayment(s)
  PROVE  TellsTruth'
<1> DEFINE a == tx[s].pay
<1>1. /\ Waits(tx[s]) /\ End(s) /\ SaveOrder(s, "AWAITING_PAYMENT")
      /\ payOf' = [payOf EXCEPT ![a] = tx[s].order]
      /\ UNCHANGED gateway
  BY DEF CommitCreatePayment, Waits
<1>2. a \in Authorities /\ gateway[a] # "unused" /\ payOf[a] = NoOrder
  BY <1>1 DEF IInv, TellsTruth, Told, ToldBy
<1>3. tx[s].order \in Orders
  BY <1>1 DEF Waits, IInv, Typed, RowsKnown
<1>4. \A b \in Authorities : payOf'[b] = IF b = a THEN tx[s].order ELSE payOf[b]
  BY <1>1, <1>2 DEF IInv, Typed, TypeOK
<1>5. \A r \in Sessions : tx'[r] = IF r = s THEN Idle ELSE tx[r]
  BY <1>1 DEF End, IInv, Typed, TypeOK
<1>6. ASSUME NEW r \in Sessions PROVE Told(tx[r])'
  <2>1. CASE r = s
    BY <1>5, <2>1 DEF Told, ToldBy, Waits, Idle, Callback
  <2>2. CASE r # s
    <3>1. Told(tx[r]) /\ tx'[r] = tx[r]
      BY <1>5, <2>2 DEF IInv, TellsTruth
    <3>2. Waits(tx[r]) => tx[r].pay # a
      BY <1>1, <2>2 DEF IInv, TellsTruth, Single
    <3>3. tx[r].op \in Callback => tx[r].pay # a
      <4>1. tx[r].op \in Callback => tx[r].order \in Orders
        BY DEF IInv, Typed, RowsKnown, Callback
      <4> QED
        BY <1>2, <3>1, <4>1, CheckoutAssumption DEF Told, ToldBy
    <3>4. tx[r].reply \in {"100", "counted"} => gateway'[tx[r].pay] = "captured"
      BY <1>1, <3>1 DEF Told, ToldBy
    <3> QED
      BY <1>1, <1>4, <3>1, <3>2, <3>3, <3>4 DEF Told, ToldBy, Waits
  <2> QED
    BY <2>1, <2>2
<1>7. Single'
  BY <1>5, IdleTold DEF IInv, TellsTruth, Single, Waits, Idle
<1>8. UnusedIsFree'
  BY <1>1, <1>2, <1>4 DEF IInv, TellsTruth, UnusedIsFree
<1>9. PreparedIsCaptured'
  <2>1. \A o \in Orders : order'[o] = "PREPARING" => order[o] = "PREPARING"
    BY <1>1, <1>3, SavedPrepares
  <2>2. \A o \in Orders : Captured(o) \subseteq Captured(o)'
    BY <1>1, <1>2, <1>4, CheckoutAssumption DEF Captured
  <2> QED
    BY <2>1, <2>2 DEF IInv, TellsTruth, PreparedIsCaptured
<1> QED
  BY <1>6, <1>7, <1>8, <1>9 DEF TellsTruth

LEMMA CallbackTold ==
  ASSUME IInv, NEW s \in Sessions, NEW a \in Authorities, NEW op \in Callback,
         BeginCallback(s, a, op)
  PROVE  TellsTruth'
<1> DEFINE o == payOf[a]
           sawOpen == op = "verifyPayment" /\ HasOpenCart(Owner[o])
           session == [Idle EXCEPT !.op = op, !.order = o, !.pay = a, !.status = order[o],
                                   !.payStatus = payStatus[a], !.open = sawOpen]
<1>1. Begin(s, session)
  BY DEF BeginCallback
<1>2. session.op = op /\ session.order = o /\ session.pay = a /\ session.reply = "none"
  BY DEF Idle
<1> HIDE DEF session
<1>3. UNCHANGED << order, payOf, gateway >> /\ tx' = [tx EXCEPT ![s] = session]
  BY <1>1 DEF Begin
<1>4. ~Waits(session)
  BY <1>2 DEF Waits, Callback
<1>5. ToldBy(session, gateway', payOf')
  BY <1>2, <1>3, <1>4 DEF Told, ToldBy, Waits
<1>6. Advances /\ \A b \in Authorities : gateway'[b] = "unused" => gateway[b] = "unused"
  BY <1>3 DEF Advances
<1> QED
  BY <1>3, <1>4, <1>5, <1>6, SessionStep

LEMMA OnlineTold ==
  ASSUME IInv, NEW s \in Sessions, OnlineStep(s)
  PROVE  TellsTruth'
<1>0. tx[s].op \in Callback => /\ tx[s].order \in Orders /\ tx[s].pay \in Authorities
                               /\ payOf[tx[s].pay] = tx[s].order
  BY DEF IInv, Typed, RowsKnown, TellsTruth, Told, ToldBy, Callback
<1>1. ASSUME NEW o \in Orders, BeginCreatePayment(s, o) PROVE TellsTruth'
  <2> DEFINE session == [Idle EXCEPT !.op = "createPayment", !.order = o,
                                     !.status = order[o], !.stock = stock]
  <2>1. session.op = "createPayment" /\ session.pay = NoPayment /\ session.reply = "none"
    BY DEF Idle
  <2>2. Begin(s, session)
    BY <1>1 DEF BeginCreatePayment
  <2> HIDE DEF session
  <2> QED
    BY <2>1, <2>2, BeginStep DEF Waits, Callback
<1>2. ASSUME NEW a \in Authorities, BeginVerify(s, a) \/ BeginUserCancel(s, a) PROVE TellsTruth'
  BY <1>2, CallbackTold DEF BeginVerify, BeginUserCancel, Callback
<1>3. ASSUME NEW a \in Authorities, GatewayIssues(s, a) PROVE TellsTruth'
  BY <1>3, IssuesTold
<1>4. CASE CommitCreatePayment(s)
  BY <1>4, PaymentInserted
<1>5. ASSUME NEW reply \in {"100", "101", "other", "error"}, GatewayVerifies(s, reply)
      PROVE TellsTruth'
  <2> DEFINE a == tx[s].pay
  <2>1. /\ tx[s].op \in Callback /\ a \in Authorities
        /\ reply = "100" => gateway[a] = "paid"
        /\ UNCHANGED << order, payOf >> /\ tx' = [tx EXCEPT ![s].reply = reply]
        /\ \/ gateway[a] = "paid" /\ gateway' = [gateway EXCEPT ![a] = "captured"]
           \/ reply # "100" /\ UNCHANGED gateway
    BY <1>0, <1>5 DEF GatewayVerifies, Callback
  <2>2. gateway \in [Authorities -> {"unused", "issued", "paid", "captured"}]
    BY DEF IInv, Typed, TypeOK
  <2>3. /\ Advances /\ \A b \in Authorities : gateway'[b] = "unused" => gateway[b] = "unused"
        /\ reply = "100" => gateway'[a] = "captured"
    BY <2>1, <2>2 DEF Advances
  <2> QED
    BY <2>1, <2>3, ReplyStep
<1>6. CASE LogCallback(s) \/ CountPromotion(s) \/ LosesDeadlock(s) \/ LosesCartDeadlock(s)
  <2>1. PICK reply \in {"logged", "counted", "lost", "orphaned"} :
          /\ tx' = [tx EXCEPT ![s].reply = reply]
          /\ reply = "counted" => tx[s].reply = "100"
          /\ tx[s].op \in Callback
    BY <1>6 DEF LogCallback, CountPromotion, LosesDeadlock, LosesCartDeadlock, Callback, IInv,
       Typed, RowsKnown
  <2>2. UNCHANGED << order, payOf, gateway >>
    BY <1>6 DEF LogCallback, CountPromotion, LosesDeadlock, LosesCartDeadlock
  <2>3. reply = "counted" => gateway'[tx[s].pay] = "captured"
    BY <2>1, <2>2 DEF IInv, TellsTruth, Told, ToldBy
  <2>4. Advances /\ \A b \in Authorities : gateway'[b] = "unused" => gateway[b] = "unused"
    BY <2>2 DEF Advances
  <2> QED
    BY <2>1, <2>2, <2>3, <2>4, ReplyStep
<1>7. CASE CommitVerified(s)
  <2>1. /\ tx[s].reply \in {"100", "counted"} /\ SaveOrder(s, "PREPARING") /\ End(s)
        /\ UNCHANGED << payOf, gateway >>
    BY <1>7 DEF CommitVerified
  <2>2. tx[s].op \in Callback
    BY <2>1 DEF IInv, Typed, RowsKnown, Callback
  <2>3. gateway[tx[s].pay] = "captured"
    BY <2>1 DEF IInv, TellsTruth, Told, ToldBy
  <2> QED
    BY <1>0, <2>1, <2>2, <2>3, SavedPrepares, EndStep
<1>8. CASE CommitAlreadyVerified(s) \/ CommitRefused(s)
  <2>1. /\ SaveOrder(s, "PAYMENT_CONFIRMATION_PENDING") /\ End(s) /\ UNCHANGED << payOf, gateway >>
        /\ tx[s].op \in Callback
    BY <1>8 DEF CommitAlreadyVerified, CommitRefused, IInv, Typed, RowsKnown, Callback
  <2> QED
    BY <1>0, <2>1, SavedPrepares, EndStep
<1>9. CASE VerifyThrows(s) \/ CommitUserCancel(s) \/ RecordsFailed(s) \/ CommitOrphaned(s)
  <2>1. End(s) /\ UNCHANGED << order, payOf, gateway >>
    BY <1>9 DEF VerifyThrows, CommitUserCancel, RecordsFailed, CommitOrphaned
  <2> QED
    BY <2>1, EndStep
<1> QED
  BY <1>1, <1>2, <1>3, <1>4, <1>5, <1>6, <1>7, <1>8, <1>9 DEF OnlineStep

LEMMA TransferTold ==
  ASSUME IInv, NEW s \in Sessions, TransferStep(s)
  PROVE  TellsTruth'
<1>1. ASSUME NEW o \in Orders, BeginInitiate(s, o) PROVE TellsTruth'
  <2> DEFINE session == [Idle EXCEPT !.op = "initiate", !.order = o]
  <2>1. session.op = "initiate" /\ session.reply = "none"
    BY DEF Idle
  <2>2. Begin(s, session)
    BY <1>1 DEF BeginInitiate
  <2> HIDE DEF session
  <2> QED
    BY <2>1, <2>2, BeginStep DEF Waits, Callback
<1>2. ASSUME NEW p \in Transfers, BeginUploadReceipt(s, p) \/ BeginReject(s, p) PROVE TellsTruth'
  <2>1. \A op : TransferRead(op, p).op = op /\ TransferRead(op, p).reply = "none"
    BY DEF TransferRead, Idle
  <2>2. Begin(s, TransferRead("uploadReceipt", p)) \/ Begin(s, TransferRead("reject", p))
    BY <1>2 DEF BeginUploadReceipt, BeginReject
  <2> QED
    BY <2>1, <2>2, BeginStep DEF Waits, Callback
<1>3. ASSUME NEW p \in Transfers, BeginApprove(s, p) PROVE TellsTruth'
  <2> DEFINE session == [TransferRead("approve", p) EXCEPT
                           !.stock = stock, !.open = HasOpenCart(Owner[payOf[p]])]
  <2>1. session.op = "approve" /\ session.reply = "none"
    BY DEF TransferRead, Idle
  <2>2. Begin(s, session)
    BY <1>3 DEF BeginApprove
  <2> HIDE DEF session
  <2> QED
    BY <2>1, <2>2, BeginStep DEF Waits, Callback
<1>4. ASSUME NEW p \in Transfers, CommitInitiate(s, p) PROVE TellsTruth'
  <2>1. End(s) /\ UNCHANGED << order, gateway >> /\ payOf' = [payOf EXCEPT ![p] = tx[s].order]
    BY <1>4 DEF CommitInitiate
  <2>2. \A a \in Authorities : payOf'[a] = payOf[a]
    BY <2>1, CheckoutAssumption DEF IInv, Typed, TypeOK
  <2> QED
    BY <2>1, <2>2, EndStep
<1>5. CASE CommitUploadReceipt(s) \/ CommitApprove(s) \/ CommitReject(s)
  <2>1. PICK new \in {"PAYMENT_CONFIRMATION_PENDING", "PROCESSING", "AWAITING_PAYMENT"} :
          SaveOrder(s, new)
    BY <1>5 DEF CommitUploadReceipt, CommitApprove, CommitReject
  <2>2. End(s) /\ UNCHANGED << payOf, gateway >>
    BY <1>5 DEF CommitUploadReceipt, CommitApprove, CommitReject
  <2>3. tx[s].order \in Orders
    BY <1>5 DEF CommitUploadReceipt, CommitApprove, CommitReject, IInv, Typed, RowsKnown
  <2> QED
    BY <2>1, <2>2, <2>3, SavedPrepares, EndStep
<1> QED
  BY <1>1, <1>2, <1>3, <1>4, <1>5 DEF TransferStep

LEMMA OrderTold ==
  ASSUME IInv, NEW s \in Sessions, OrderStep(s)
  PROVE  TellsTruth'
<1>1. ASSUME NEW o \in Orders, BeginCreateFromCard(s, o) PROVE TellsTruth'
  <2> DEFINE session(found) ==
               [Idle EXCEPT !.op = "createFromCard", !.order = o, !.batch = found]
  <2>1. \A found : session(found).op = "createFromCard" /\ session(found).reply = "none"
    BY DEF Idle
  <2>2. \E found : Begin(s, session(found))
    BY <1>1 DEF BeginCreateFromCard
  <2> HIDE DEF session
  <2> QED
    BY <2>1, <2>2, BeginStep DEF Waits, Callback
<1>2. ASSUME NEW o \in Orders, BeginAwaitingPayment(s, o) \/ BeginCancelOrder(s, o)
      PROVE TellsTruth'
  <2> DEFINE session(op) == [Idle EXCEPT !.op = op, !.order = o, !.status = order[o],
                                         !.open = HasOpenCart(Owner[o])]
  <2>1. \A op : session(op).op = op /\ session(op).reply = "none"
    BY DEF Idle
  <2>2. Begin(s, session("awaitingPayment")) \/ Begin(s, session("cancelOrder"))
    BY <1>2 DEF BeginAwaitingPayment, BeginCancelOrder
  <2> HIDE DEF session
  <2> QED
    BY <2>1, <2>2, BeginStep DEF Waits, Callback
<1>3. ASSUME NEW u \in Users, BeginGetMyCard(s, u) PROVE TellsTruth'
  <2> DEFINE session == [Idle EXCEPT !.op = "getMyCard", !.batch = {u}]
  <2>1. session.op = "getMyCard" /\ session.reply = "none"
    BY DEF Idle
  <2>2. Begin(s, session)
    BY <1>3 DEF BeginGetMyCard
  <2> HIDE DEF session
  <2> QED
    BY <2>1, <2>2, BeginStep DEF Waits, Callback
<1>4. CASE CommitCreateFromCard(s)
  <2>1. \A o \in Orders : order'[o] = "PREPARING" => order[o] = "PREPARING"
    BY <1>4 DEF CommitCreateFromCard
  <2> QED
    BY <1>4, <2>1, EndStep DEF CommitCreateFromCard
<1>5. CASE CommitAwaitingPayment(s) \/ CommitCancelOrder(s)
  <2>1. PICK new \in {"AWAITING_PAYMENT", "CANCELLED"} : SaveOrder(s, new)
    BY <1>5 DEF CommitAwaitingPayment, CommitCancelOrder
  <2>2. End(s) /\ UNCHANGED << payOf, gateway >>
    BY <1>5 DEF CommitAwaitingPayment, CommitCancelOrder
  <2>3. tx[s].order \in Orders
    BY <1>5 DEF CommitAwaitingPayment, CommitCancelOrder, IInv, Typed, RowsKnown
  <2> QED
    BY <2>1, <2>2, <2>3, SavedPrepares, EndStep
<1>6. CASE CommitGetMyCard(s) \/ Rollback(s)
  <2>1. End(s) /\ UNCHANGED << order, payOf, gateway >>
    BY <1>6 DEF CommitGetMyCard, Rollback
  <2> QED
    BY <2>1, EndStep
<1> QED
  BY <1>1, <1>2, <1>3, <1>4, <1>5, <1>6 DEF OrderStep

LEMMA JobTold ==
  ASSUME IInv, NEW s \in Sessions, JobStep(s)
  PROVE  TellsTruth'
<1>1. CASE BeginExpire(s)
  <2> DEFINE session(found) ==
               [Idle EXCEPT !.op = "expire", !.stock = stock, !.batch = found]
  <2>1. \A found : session(found).op = "expire" /\ session(found).reply = "none"
    BY DEF Idle
  <2>2. \E found : Begin(s, session(found))
    BY <1>1 DEF BeginExpire
  <2> HIDE DEF session
  <2> QED
    BY <2>1, <2>2, BeginStep DEF Waits, Callback
<1>2. CASE BeginUnlockStuck(s)
  <2> DEFINE session(old) == [Idle EXCEPT !.op = "unlockStuck", !.batch = old]
  <2>1. \A old : session(old).op = "unlockStuck" /\ session(old).reply = "none"
    BY DEF Idle
  <2>2. \E old : Begin(s, session(old))
    BY <1>2 DEF BeginUnlockStuck
  <2> HIDE DEF session
  <2> QED
    BY <2>1, <2>2, BeginStep DEF Waits, Callback
<1>3. ASSUME NEW o \in Orders, ExpireNext(s, o) PROVE TellsTruth'
  <2> DEFINE next == [tx[s] EXCEPT !.stock = tx[s].stock + Qty[o], !.done = tx[s].done \cup {o}]
  <2>1. /\ tx[s].op = "expire" /\ tx' = [tx EXCEPT ![s] = next]
        /\ UNCHANGED << order, payOf, gateway >>
    BY <1>3 DEF ExpireNext
  <2>2. next.op = "expire" /\ next.reply = "none"
    <3>1. tx[s].reply = "none"
      BY <2>1 DEF IInv, Typed, RowsKnown
    <3> QED
      BY <2>1, <3>1 DEF IInv, Typed, TypeOK, Session
  <2> HIDE DEF next
  <2>3. ToldBy(next, gateway', payOf') /\ ~Waits(next)
    BY <2>2 DEF ToldBy, Waits, Callback
  <2>4. Advances /\ \A b \in Authorities : gateway'[b] = "unused" => gateway[b] = "unused"
    BY <2>1 DEF Advances
  <2> QED
    BY <2>1, <2>3, <2>4, SessionStep
<1>4. CASE CommitExpire(s)
  <2>1. \A o \in Orders : order'[o] = "PREPARING" => order[o] = "PREPARING"
    BY <1>4 DEF CommitExpire
  <2> QED
    BY <1>4, <2>1, EndStep DEF CommitExpire
<1>5. CASE CommitUnlockStuck(s)
  BY <1>5, EndStep DEF CommitUnlockStuck
<1> QED
  BY <1>1, <1>2, <1>3, <1>4, <1>5 DEF JobStep

\* What happens outside the sessions.
LEMMA EnvironmentTold ==
  ASSUME IInv,
         \/ \E o \in Orders : Ages(o)
         \/ \E a \in Authorities : UserPays(a)
         \/ \E u \in Users : AddItem(u) \/ LockAnyCart(u) \/ CleanupAbandoned(u)
         \/ UNCHANGED vars
  PROVE  TellsTruth'
<1>1. UNCHANGED << order, payOf, tx >>
  BY DEF Ages, UserPays, AddItem, LockAnyCart, CleanupAbandoned
<1>2. Advances /\ \A a \in Authorities : gateway'[a] = "unused" => gateway[a] = "unused"
  <2>1. CASE \E a \in Authorities : UserPays(a)
    BY <2>1 DEF UserPays, Advances, IInv, Typed, TypeOK
  <2>2. CASE UNCHANGED gateway
    BY <2>2 DEF Advances
  <2> QED
    BY <2>1, <2>2 DEF Ages, AddItem, LockAnyCart, CleanupAbandoned
<1>3. ASSUME NEW r \in Sessions PROVE Told(tx[r])'
  <2>1. Told(tx[r]) /\ (tx[r].reply \in {"100", "counted"} => tx[r].op \in Callback)
    BY DEF IInv, TellsTruth, Typed, RowsKnown, Callback
  <2> QED
    BY <1>1, <1>2, <2>1 DEF Told, ToldBy, Waits, Advances
<1>4. Single' /\ UnusedIsFree' /\ PreparedIsCaptured'
  BY <1>1, <1>2 DEF IInv, TellsTruth, Single, Waits, UnusedIsFree, PreparedIsCaptured, Captured,
     Advances
<1> QED
  BY <1>3, <1>4 DEF TellsTruth

-----------------------------------------------------------------------------

LEMMA GatewayInit == Init => IInv
<1> SUFFICES ASSUME Init PROVE IInv
  OBVIOUS
<1>1. \A s \in Sessions : Told(tx[s]) /\ ~Waits(tx[s])
  BY IdleTold DEF Init
<1>2. Single /\ UnusedIsFree /\ PreparedIsCaptured
  BY <1>1 DEF Init, Single, UnusedIsFree, PreparedIsCaptured
<1> QED
  BY <1>1, <1>2, InitTyped DEF IInv, TellsTruth

LEMMA GatewayNext ==
  ASSUME IInv, [Next]_vars
  PROVE  IInv'
<1>1. Typed'
  BY OnlineTyped, TransferTyped, OrderTyped, JobTyped, EnvironmentTyped DEF IInv, Next
<1>2. TellsTruth'
  BY OnlineTold, TransferTold, OrderTold, JobTold, EnvironmentTold DEF Next
<1> QED
  BY <1>1, <1>2 DEF IInv

\* No order is prepared without money: whatever callbacks overlap, time out,
\* lose a deadlock or are called twice, and whatever is done to the order in
\* between, PREPARING is only saved for an authority the gateway has captured.
THEOREM PreparedOnlyIfCaptured == Spec => []PreparedIsCaptured
<1>1. IInv => PreparedIsCaptured
  BY DEF IInv, TellsTruth
<1> QED
  BY <1>1, GatewayInit, GatewayNext, PTL DEF Spec

-----------------------------------------------------------------------------
(***************************************************************************)
(* A payment counts as successful only together with an invoice of its     *)
(* order, for any number of sessions, whatever they save over one another. *)
(***************************************************************************)

\* An approval belongs to a transfer that has been made for its order.
ReviewedBy(t, status, of) ==
  t.op = "approve" => t.pay \in Transfers /\ status[t.pay] # "NONE" /\ of[t.pay] = t.order

Billed ==
  /\ \A s \in Sessions : ReviewedBy(tx[s], payStatus, payOf)
  /\ PaidHasInvoice

BilledInv == IInv /\ Billed

\* A transfer that was made stays the transfer of its order.
TransfersStay ==
  \A p \in Transfers : payStatus[p] # "NONE" => payStatus'[p] # "NONE" /\ payOf'[p] = payOf[p]

\* A payment that is successful was so, and its order has the invoices it had,
\* or its order has got one.
Pays ==
  \A p \in Payments : payStatus'[p] = "SUCCESS" =>
    /\ payOf'[p] = payOf[p]
    /\ \/ payStatus[p] = "SUCCESS" /\ invoices'[payOf[p]] = invoices[payOf[p]]
       \/ invoices'[payOf[p]] > 0

LEMMA BilledStep ==
  ASSUME BilledInv, TransfersStay, Pays,
         \A s \in Sessions : \/ tx'[s] = tx[s]
                             \/ ReviewedBy(tx'[s], payStatus', payOf')
  PROVE  Billed'
<1>1. \A s \in Sessions : ReviewedBy(tx[s], payStatus, payOf)'
  BY DEF BilledInv, Billed, TransfersStay, ReviewedBy
<1>2. PaidHasInvoice'
  BY DEF BilledInv, Billed, PaidHasInvoice, Pays
<1> QED
  BY <1>1, <1>2 DEF Billed

\* A step of a session that is not the start of an approval.
LEMMA SessionBilled ==
  ASSUME BilledInv, TransfersStay, Pays, NEW s \in Sessions, NEW next, next.op # "approve",
         tx' = [tx EXCEPT ![s] = next]
  PROVE  Billed'
<1>1. \A r \in Sessions : tx'[r] = tx[r] \/ tx'[r].op # "approve"
  BY DEF BilledInv, IInv, Typed, TypeOK
<1> QED
  BY <1>1, BilledStep DEF ReviewedBy

LEMMA EndBilled ==
  ASSUME BilledInv, TransfersStay, Pays, NEW s \in Sessions, End(s)
  PROVE  Billed'
  BY SessionBilled DEF End, Idle

\* Nothing is written to payments and invoices.
LEMMA NothingPaid ==
  ASSUME BilledInv, UNCHANGED << payOf, payStatus, invoices >>
  PROVE  TransfersStay /\ Pays
  BY DEF TransfersStay, Pays

LEMMA BeginBilled ==
  ASSUME BilledInv, NEW s \in Sessions, NEW session, session.op # "approve", Begin(s, session)
  PROVE  Billed'
  BY NothingPaid, SessionBilled DEF Begin

LEMMA ReplyBilled ==
  ASSUME BilledInv, NEW s \in Sessions, NEW reply, tx[s].op # "approve",
         tx' = [tx EXCEPT ![s].reply = reply], UNCHANGED << payOf, payStatus, invoices >>
  PROVE  Billed'
<1> DEFINE next == [tx[s] EXCEPT !.reply = reply]
<1>1. tx' = [tx EXCEPT ![s] = next] /\ next.op # "approve"
  BY DEF BilledInv, IInv, Typed, TypeOK, Session
<1> HIDE DEF next
<1> QED
  BY <1>1, NothingPaid, SessionBilled

\* save of the payment a session has read makes nothing successful.
LEMMA SavedBilled ==
  ASSUME BilledInv, NEW s \in Sessions, NEW new \in PaymentStatus \ {"SUCCESS"},
         SavePayment(s, new), UNCHANGED << payOf, invoices >>
  PROVE  TransfersStay /\ Pays
<1>1. \A p \in Payments : \/ payStatus'[p] = payStatus[p]
                          \/ p = tx[s].pay /\ payStatus'[p] = new /\ payStatus[p] # "NONE"
  BY DEF SavePayment, Saved, BilledInv, IInv, Typed, TypeOK
<1> QED
  BY <1>1 DEF TransfersStay, Pays, PaymentStatus

-----------------------------------------------------------------------------
(* Every group of steps.                                                   *)

LEMMA OnlineBilled ==
  ASSUME BilledInv, NEW s \in Sessions, OnlineStep(s)
  PROVE  Billed'
<1> USE DEF BilledInv
<1>0. tx[s].op \in Callback \cup {"createPayment"} => tx[s].order \in Orders
  BY DEF IInv, Typed, RowsKnown, Callback
<1>0a. tx[s].op \in Callback => tx[s].pay \in Authorities /\ payOf[tx[s].pay] = tx[s].order
  BY DEF IInv, TellsTruth, Told, ToldBy
<1>0b. tx[s].reply # "none" => tx[s].op \in Callback
  BY DEF IInv, Typed, RowsKnown, Callback
<1>t. /\ payStatus \in [Payments -> PaymentStatus \cup NoRow] /\ invoices \in [Orders -> Nat]
      /\ payOf \in [Payments -> Orders \cup {NoOrder}]
  BY DEF IInv, Typed, TypeOK
<1>1. ASSUME NEW o \in Orders, BeginCreatePayment(s, o) PROVE Billed'
  <2> DEFINE session == [Idle EXCEPT !.op = "createPayment", !.order = o,
                                     !.status = order[o], !.stock = stock]
  <2>1. session.op # "approve" /\ Begin(s, session)
    BY <1>1 DEF BeginCreatePayment, Idle
  <2> HIDE DEF session
  <2> QED
    BY <2>1, BeginBilled
<1>2. ASSUME NEW a \in Authorities, BeginVerify(s, a) \/ BeginUserCancel(s, a) PROVE Billed'
  <2>1. PICK op \in Callback : BeginCallback(s, a, op)
    BY <1>2 DEF BeginVerify, BeginUserCancel, Callback
  <2> DEFINE session == [Idle EXCEPT !.op = op, !.order = payOf[a], !.pay = a,
                !.status = order[payOf[a]], !.payStatus = payStatus[a],
                !.open = op = "verifyPayment" /\ HasOpenCart(Owner[payOf[a]])]
  <2>2. session.op # "approve" /\ Begin(s, session)
    BY <2>1 DEF BeginCallback, Idle, Callback
  <2> HIDE DEF session
  <2> QED
    BY <2>2, BeginBilled
<1>3. ASSUME NEW a \in Authorities, GatewayIssues(s, a) PROVE Billed'
  <2> DEFINE next == [tx[s] EXCEPT !.pay = a]
  <2>1. tx' = [tx EXCEPT ![s] = next] /\ UNCHANGED << payOf, payStatus, invoices >>
    BY <1>3 DEF GatewayIssues
  <2>2. next.op # "approve"
    BY <1>3 DEF GatewayIssues, IInv, Typed, TypeOK, Session
  <2> HIDE DEF next
  <2> QED
    BY <2>1, <2>2, NothingPaid, SessionBilled
<1>4. CASE CommitCreatePayment(s)
  <2>1. /\ tx[s].op = "createPayment" /\ tx[s].pay \in Authorities /\ End(s) /\ UNCHANGED invoices
        /\ payOf' = [payOf EXCEPT ![tx[s].pay] = tx[s].order]
        /\ payStatus' = [payStatus EXCEPT ![tx[s].pay] = "IN_PROGRESS"]
    BY <1>4 DEF CommitCreatePayment, IInv, TellsTruth, Told, ToldBy, Waits
  <2>2. TransfersStay /\ Pays
    BY <1>t, <2>1, CheckoutAssumption DEF TransfersStay, Pays
  <2> QED
    BY <2>1, <2>2, EndBilled
<1>5. ASSUME \/ \E reply \in {"100", "101", "other", "error"} : GatewayVerifies(s, reply)
             \/ LogCallback(s) \/ CountPromotion(s) \/ LosesDeadlock(s) \/ LosesCartDeadlock(s)
      PROVE Billed'
  <2>1. \E reply : tx' = [tx EXCEPT ![s].reply = reply]
    BY <1>5 DEF GatewayVerifies, LogCallback, CountPromotion, LosesDeadlock, LosesCartDeadlock
  <2>2. UNCHANGED << payOf, payStatus, invoices >>
    BY <1>5 DEF GatewayVerifies, LogCallback, CountPromotion, LosesDeadlock, LosesCartDeadlock
  <2>3. tx[s].op # "approve"
    BY <1>0b, <1>5
    DEF GatewayVerifies, LogCallback, CountPromotion, LosesDeadlock, LosesCartDeadlock, Callback
  <2> QED
    BY <2>1, <2>2, <2>3, ReplyBilled
<1>6. CASE CommitVerified(s)
  <2>1. tx[s].op \in Callback /\ End(s) /\ UNCHANGED payOf /\ InvoiceOrVerified(tx[s])
    BY <1>0b, <1>6 DEF CommitVerified
  <2>2. tx[s].pay \in Authorities /\ payOf[tx[s].pay] = tx[s].order /\ tx[s].order \in Orders
    BY <1>0, <1>0a, <2>1
  <2>3. CASE /\ payStatus' = [payStatus EXCEPT ![tx[s].pay] = "SUCCESS"]
             /\ invoices' = [invoices EXCEPT ![tx[s].order] = @ + 1]
    <3>1. \A o \in Orders : invoices'[o] = invoices[o] \/ (o = tx[s].order /\ invoices'[o] > 0)
      BY <1>t, <2>2, <2>3
    <3>2. \A p \in Payments : payStatus'[p] = IF p = tx[s].pay THEN "SUCCESS" ELSE payStatus[p]
      BY <1>t, <2>2, <2>3
    <3>3. invoices'[tx[s].order] > 0
      BY <1>t, <2>2, <2>3
    <3>4. \A p \in Payments : payStatus[p] = "SUCCESS" => payOf[p] \in Orders
      BY DEF IInv, Typed, RowsKnown
    <3> QED
      BY <2>1, <2>2, <3>1, <3>2, <3>3, <3>4, CheckoutAssumption, EndBilled DEF TransfersStay, Pays
  <2>4. CASE payStatus' = [payStatus EXCEPT ![tx[s].pay] = "VERIFIED"] /\ UNCHANGED invoices
    BY <1>t, <2>1, <2>2, <2>4, CheckoutAssumption, EndBilled DEF TransfersStay, Pays
  <2> QED
    BY <2>1, <2>3, <2>4 DEF InvoiceOrVerified
<1>7. CASE CommitAlreadyVerified(s) \/ VerifyThrows(s)
  <2>1. End(s) /\ UNCHANGED << payOf, payStatus, invoices >>
    BY <1>7 DEF CommitAlreadyVerified, VerifyThrows
  <2> QED
    BY <2>1, NothingPaid, EndBilled
<1>8. CASE CommitRefused(s) \/ CommitUserCancel(s)
  <2>1. /\ SavePayment(s, "FAILED") \/ SavePayment(s, "CANCELLED")
        /\ End(s) /\ UNCHANGED << payOf, invoices >>
    BY <1>8 DEF CommitRefused, CommitUserCancel
  <2> QED
    BY <2>1, SavedBilled, EndBilled DEF PaymentStatus
<1>9. CASE RecordsFailed(s)
  <2>1. /\ End(s) /\ UNCHANGED << payOf, invoices >> /\ tx[s].pay \in Authorities
        /\ payStatus' = [payStatus EXCEPT ![tx[s].pay] = Saved("NONE", "FAILED", @)]
    BY <1>0a, <1>0b, <1>9 DEF RecordsFailed
  <2>2. \A p \in Payments : payStatus'[p] = payStatus[p] \/ payStatus'[p] = "FAILED"
    BY <1>t, <2>1 DEF Saved
  <2>3. TransfersStay /\ Pays
    BY <2>1, <2>2 DEF TransfersStay, Pays
  <2> QED
    BY <2>1, <2>3, EndBilled
<1>10. CASE CommitOrphaned(s)
  <2>1. /\ End(s) /\ UNCHANGED payOf /\ tx[s].pay \in Authorities /\ tx[s].order \in Orders
        /\ \/ invoices' = [invoices EXCEPT ![tx[s].order] = @ + 1] /\ UNCHANGED payStatus
           \/ payStatus' = [payStatus EXCEPT ![tx[s].pay] = "VERIFIED"] /\ UNCHANGED invoices
    BY <1>0, <1>0a, <1>0b, <1>10 DEF CommitOrphaned
  <2>2. \A o \in Orders : invoices'[o] = invoices[o] \/ invoices'[o] > 0
    BY <1>t, <2>1
  <2>3. \A p \in Payments : payStatus'[p] = payStatus[p] \/ payStatus'[p] = "VERIFIED"
    BY <1>t, <2>1
  <2>4. \A p \in Payments : payStatus[p] = "SUCCESS" => payOf[p] \in Orders
    BY DEF IInv, Typed, RowsKnown
  <2>5. TransfersStay /\ Pays
    BY <2>1, <2>2, <2>3, <2>4 DEF TransfersStay, Pays
  <2> QED
    BY <2>1, <2>5, EndBilled
<1> QED
  BY <1>1, <1>2, <1>3, <1>4, <1>5, <1>6, <1>7, <1>8, <1>9, <1>10 DEF OnlineStep

LEMMA TransferBilled ==
  ASSUME BilledInv, NEW s \in Sessions, TransferStep(s)
  PROVE  Billed'
<1> USE DEF BilledInv
<1>t. /\ payStatus \in [Payments -> PaymentStatus \cup NoRow] /\ invoices \in [Orders -> Nat]
      /\ payOf \in [Payments -> Orders \cup {NoOrder}]
  BY DEF IInv, Typed, TypeOK
<1>1. ASSUME NEW o \in Orders, BeginInitiate(s, o) PROVE Billed'
  <2> DEFINE session == [Idle EXCEPT !.op = "initiate", !.order = o]
  <2>1. session.op # "approve" /\ Begin(s, session)
    BY <1>1 DEF BeginInitiate, Idle
  <2> HIDE DEF session
  <2> QED
    BY <2>1, BeginBilled
<1>2. ASSUME NEW p \in Transfers, BeginUploadReceipt(s, p) \/ BeginReject(s, p) PROVE Billed'
  <2>1. \A op : TransferRead(op, p).op = op
    BY DEF TransferRead, Idle
  <2>2. Begin(s, TransferRead("uploadReceipt", p)) \/ Begin(s, TransferRead("reject", p))
    BY <1>2 DEF BeginUploadReceipt, BeginReject
  <2> QED
    BY <2>1, <2>2, BeginBilled
<1>3. ASSUME NEW p \in Transfers, BeginApprove(s, p) PROVE Billed'
  <2> DEFINE session == [TransferRead("approve", p) EXCEPT
                           !.stock = stock, !.open = HasOpenCart(Owner[payOf[p]])]
  <2>1. session.pay = p /\ session.order = payOf[p]
    BY DEF TransferRead, Idle
  <2>2. Begin(s, session) /\ payStatus[p] # "NONE"
    BY <1>3 DEF BeginApprove
  <2> HIDE DEF session
  <2>3. UNCHANGED << payOf, payStatus, invoices >> /\ tx' = [tx EXCEPT ![s] = session]
    BY <2>2 DEF Begin
  <2>4. \A r \in Sessions : tx'[r] = IF r = s THEN session ELSE tx[r]
    BY <2>3 DEF IInv, Typed, TypeOK
  <2>5. ReviewedBy(session, payStatus', payOf')
    BY <2>1, <2>2, <2>3 DEF ReviewedBy
  <2>6. TransfersStay /\ Pays
    BY <2>3, NothingPaid
  <2> QED
    BY <2>4, <2>5, <2>6, BilledStep
<1>4. ASSUME NEW p \in Transfers, CommitInitiate(s, p) PROVE Billed'
  <2>1. /\ End(s) /\ UNCHANGED invoices /\ payStatus[p] = "NONE"
        /\ payOf' = [payOf EXCEPT ![p] = tx[s].order]
        /\ payStatus' = [payStatus EXCEPT ![p] = "PENDING"]
    BY <1>4 DEF CommitInitiate
  <2>2. TransfersStay /\ Pays
    BY <1>t, <2>1 DEF TransfersStay, Pays
  <2> QED
    BY <2>1, <2>2, EndBilled
<1>5. CASE CommitUploadReceipt(s) \/ CommitReject(s)
  <2>1. /\ SavePayment(s, "PENDING") \/ SavePayment(s, "FAILED")
        /\ End(s) /\ UNCHANGED << payOf, invoices >>
    BY <1>5 DEF CommitUploadReceipt, CommitReject, SaveReceipt
  <2> QED
    BY <2>1, SavedBilled, EndBilled DEF PaymentStatus
<1>6. CASE CommitApprove(s)
  <2>1. /\ tx[s].op = "approve" /\ SavePayment(s, "SUCCESS") /\ End(s) /\ UNCHANGED payOf
        /\ invoices' = [invoices EXCEPT ![tx[s].order] = @ + 1]
    BY <1>6 DEF CommitApprove, SaveReceipt
  <2>2. payOf[tx[s].pay] = tx[s].order /\ tx[s].order \in Orders
    BY <2>1 DEF Billed, ReviewedBy, IInv, Typed, RowsKnown
  <2>3. \A p \in Payments : \/ payStatus'[p] = payStatus[p]
                            \/ p = tx[s].pay /\ payStatus'[p] = "SUCCESS" /\ payStatus[p] # "NONE"
    BY <1>t, <2>1 DEF SavePayment, Saved
  <2>4. \A o \in Orders : invoices'[o] = invoices[o] \/ invoices'[o] > 0
    BY <1>t, <2>1
  <2>5. invoices'[tx[s].order] > 0
    BY <1>t, <2>1, <2>2
  <2>6. \A p \in Payments : payStatus[p] = "SUCCESS" => payOf[p] \in Orders
    BY DEF IInv, Typed, RowsKnown
  <2>7. TransfersStay /\ Pays
    BY <2>1, <2>2, <2>3, <2>4, <2>5, <2>6 DEF TransfersStay, Pays
  <2> QED
    BY <2>1, <2>7, EndBilled
<1> QED
  BY <1>1, <1>2, <1>3, <1>4, <1>5, <1>6 DEF TransferStep

LEMMA OrderBilled ==
  ASSUME BilledInv, NEW s \in Sessions, OrderStep(s)
  PROVE  Billed'
<1>1. ASSUME NEW o \in Orders, BeginCreateFromCard(s, o) PROVE Billed'
  <2> DEFINE session(found) ==
               [Idle EXCEPT !.op = "createFromCard", !.order = o, !.batch = found]
  <2>1. \A found : session(found).op # "approve"
    BY DEF Idle
  <2>2. \E found : Begin(s, session(found))
    BY <1>1 DEF BeginCreateFromCard
  <2> HIDE DEF session
  <2> QED
    BY <2>1, <2>2, BeginBilled
<1>2. ASSUME NEW o \in Orders, BeginAwaitingPayment(s, o) \/ BeginCancelOrder(s, o)
      PROVE Billed'
  <2> DEFINE session(op) == [Idle EXCEPT !.op = op, !.order = o, !.status = order[o],
                                         !.open = HasOpenCart(Owner[o])]
  <2>1. \A op : session(op).op = op
    BY DEF Idle
  <2>2. Begin(s, session("awaitingPayment")) \/ Begin(s, session("cancelOrder"))
    BY <1>2 DEF BeginAwaitingPayment, BeginCancelOrder
  <2> HIDE DEF session
  <2> QED
    BY <2>1, <2>2, BeginBilled
<1>3. ASSUME NEW u \in Users, BeginGetMyCard(s, u) PROVE Billed'
  <2> DEFINE session == [Idle EXCEPT !.op = "getMyCard", !.batch = {u}]
  <2>1. session.op # "approve" /\ Begin(s, session)
    BY <1>3 DEF BeginGetMyCard, Idle
  <2> HIDE DEF session
  <2> QED
    BY <2>1, BeginBilled
\* The invoices of a deleted order are gone, and so are its payments.
<1>4. CASE CommitCreateFromCard(s)
  <2> DEFINE batch == tx[s].batch
  <2>1. /\ End(s) /\ UNCHANGED payOf
        /\ payStatus' = [p \in Payments |->
             IF payOf[p] \in batch /\ payStatus[p] \notin NoRow THEN "DELETED" ELSE payStatus[p]]
        /\ invoices' = [o \in Orders |-> IF o \in batch THEN 0 ELSE invoices[o]]
    BY <1>4 DEF CommitCreateFromCard
  <2>2. \A p \in Payments : payStatus[p] = "SUCCESS" => payOf[p] \in Orders
    BY DEF BilledInv, IInv, Typed, RowsKnown
  <2>3. Pays
    BY <2>1, <2>2 DEF Pays
  <2>4. TransfersStay
    BY <2>1 DEF TransfersStay
  <2> QED
    BY <2>1, <2>3, <2>4, EndBilled
<1>5. CASE CommitAwaitingPayment(s) \/ CommitCancelOrder(s) \/ CommitGetMyCard(s) \/ Rollback(s)
  <2>1. End(s) /\ UNCHANGED << payOf, payStatus, invoices >>
    BY <1>5 DEF CommitAwaitingPayment, CommitCancelOrder, CommitGetMyCard, Rollback
  <2> QED
    BY <2>1, NothingPaid, EndBilled
<1> QED
  BY <1>1, <1>2, <1>3, <1>4, <1>5 DEF OrderStep

LEMMA JobBilled ==
  ASSUME BilledInv, NEW s \in Sessions, JobStep(s)
  PROVE  Billed'
<1>1. CASE BeginExpire(s)
  <2> DEFINE session(found) ==
               [Idle EXCEPT !.op = "expire", !.stock = stock, !.batch = found]
  <2>1. \A found : session(found).op # "approve"
    BY DEF Idle
  <2>2. \E found : Begin(s, session(found))
    BY <1>1 DEF BeginExpire
  <2> HIDE DEF session
  <2> QED
    BY <2>1, <2>2, BeginBilled
<1>2. CASE BeginUnlockStuck(s)
  <2> DEFINE session(old) == [Idle EXCEPT !.op = "unlockStuck", !.batch = old]
  <2>1. \A old : session(old).op # "approve"
    BY DEF Idle
  <2>2. \E old : Begin(s, session(old))
    BY <1>2 DEF BeginUnlockStuck
  <2> HIDE DEF session
  <2> QED
    BY <2>1, <2>2, BeginBilled
<1>3. ASSUME NEW o \in Orders, ExpireNext(s, o) PROVE Billed'
  <2> DEFINE next == [tx[s] EXCEPT !.stock = tx[s].stock + Qty[o], !.done = tx[s].done \cup {o}]
  <2>1. tx' = [tx EXCEPT ![s] = next] /\ UNCHANGED << payOf, payStatus, invoices >>
    BY <1>3 DEF ExpireNext
  <2>2. next.op # "approve"
    BY <1>3 DEF ExpireNext, BilledInv, IInv, Typed, TypeOK, Session
  <2> HIDE DEF next
  <2> QED
    BY <2>1, <2>2, NothingPaid, SessionBilled
<1>4. CASE CommitExpire(s) \/ CommitUnlockStuck(s)
  <2>1. End(s) /\ UNCHANGED << payOf, payStatus, invoices >>
    BY <1>4 DEF CommitExpire, CommitUnlockStuck
  <2> QED
    BY <2>1, NothingPaid, EndBilled
<1> QED
  BY <1>1, <1>2, <1>3, <1>4 DEF JobStep

LEMMA EnvironmentBilled ==
  ASSUME BilledInv,
         \/ \E o \in Orders : Ages(o)
         \/ \E a \in Authorities : UserPays(a)
         \/ \E u \in Users : AddItem(u) \/ LockAnyCart(u) \/ CleanupAbandoned(u)
         \/ UNCHANGED vars
  PROVE  Billed'
<1>1. UNCHANGED << payOf, payStatus, invoices, tx >>
  BY DEF Ages, UserPays, AddItem, LockAnyCart, CleanupAbandoned
<1> QED
  BY <1>1, NothingPaid, BilledStep

-----------------------------------------------------------------------------

\* Every successful payment has an invoice: SUCCESS is saved in the transaction
\* that makes the invoice, an invoice is only deleted with the payments of its
\* order, and no save of an older reading makes a payment successful.
THEOREM SuccessIsInvoiced == Spec => []PaidHasInvoice
<1>1. Init => BilledInv
  <2> SUFFICES ASSUME Init PROVE BilledInv
    OBVIOUS
  <2>1. IInv
    BY GatewayInit
  <2>2. Billed
    BY DEF Init, Billed, ReviewedBy, PaidHasInvoice, Idle
  <2> QED
    BY <2>1, <2>2 DEF BilledInv
<1>2. ASSUME BilledInv, [Next]_vars PROVE BilledInv'
  <2>1. IInv'
    BY <1>2, GatewayNext DEF BilledInv
  <2>2. Billed'
    BY <1>2, OnlineBilled, TransferBilled, OrderBilled, JobBilled, EnvironmentBilled DEF Next
  <2> QED
    BY <2>1, <2>2 DEF BilledInv
<1>3. BilledInv => PaidHasInvoice
  BY DEF BilledInv, Billed
<1> QED
  BY <1>1, <1>2, <1>3, PTL DEF Spec

-----------------------------------------------------------------------------
(***************************************************************************)
(* The promotions that are counted as used have money behind them, for any *)
(* number of sessions, whatever is rolled back, lost or called twice.      *)
(***************************************************************************)

\* A verification that heard code 100, and one that has not counted it yet.
Heard == {"100", "counted", "orphaned"}
Owing == {"100", "orphaned"}

CapturedAll == { a \in Authorities : gateway[a] = "captured" }

\* The captured payments some session in R has heard of.
HeardIn(R) == { a \in Authorities : \E s \in Sessions : tx[s].reply \in R /\ tx[s].pay = a }

PromoCaptured == { a \in Authorities : payOf[a] \in Promo /\ gateway[a] = "captured" }

\* Code 100 is heard by one session for each payment: the gateway captures once.
HeardOnce ==
  /\ \A s \in Sessions : tx[s].reply \in Heard => tx[s].pay \in CapturedAll
  /\ \A r, s \in Sessions :
       tx[r].reply \in Heard /\ tx[s].reply \in Heard /\ tx[r].pay = tx[s].pay => r = s

\* Each use that is counted is of a captured payment nobody will count again.
UseCounted == promoUsed <= Cardinality(PromoCaptured \ HeardIn(Owing))

PromotionInv == IInv /\ IsFiniteSet(CapturedAll) /\ HeardOnce /\ UseCounted

\* Session s hears of the capture in this step.
JustHeard(s) == tx'[s].pay \in Authorities \ CapturedAll /\ gateway'[tx'[s].pay] = "captured"

StillIn(s, R) == tx[s].reply \in R /\ tx'[s].pay = tx[s].pay

\* What every step does to the sessions and at the gateway: at most one session
\* moves, at most one payment is captured, and only its session hears of it.
Listens ==
  /\ \A a \in CapturedAll : gateway'[a] = "captured"
  /\ \A a \in Authorities : payOf[a] \in Orders => payOf'[a] = payOf[a]
  /\ \E a : \A b \in Authorities : gateway'[b] = "captured" => b \in CapturedAll \cup {a}
  /\ \A r, s \in Sessions : tx'[r] # tx[r] /\ tx'[s] # tx[s] => r = s
  /\ \A s \in Sessions : tx'[s].reply \in Heard => StillIn(s, Heard) \/ JustHeard(s)

\* What it does to the count of the promotion.
Counts ==
  \/ /\ promoUsed' = promoUsed
     /\ \A s \in Sessions : tx'[s].reply \in Owing => StillIn(s, Owing) \/ JustHeard(s)
  \/ /\ promoUsed' = promoUsed + 1
     /\ UNCHANGED gateway
     /\ \E s \in Sessions : /\ tx[s].reply \in Owing /\ tx'[s].reply \notin Owing
                            /\ payOf[tx[s].pay] \in Promo
                            /\ \A r \in Sessions \ {s} : tx'[r] = tx[r]

LEMMA HeardOnceStep ==
  ASSUME PromotionInv, Listens
  PROVE  IsFiniteSet(CapturedAll)' /\ HeardOnce'
<1>1. CapturedAll \subseteq CapturedAll'
  BY DEF Listens, CapturedAll
<1>2. IsFiniteSet(CapturedAll)'
  <2>1. PICK a : \A b \in Authorities : gateway'[b] = "captured" => b \in CapturedAll \cup {a}
    BY DEF Listens
  <2>2. CapturedAll' \subseteq CapturedAll \cup {a}
    BY <2>1 DEF CapturedAll
  <2>3. IsFiniteSet(CapturedAll \cup {a})
    BY FS_AddElement DEF PromotionInv
  <2> QED
    BY <2>2, <2>3, FS_Subset
<1>3. ASSUME NEW s \in Sessions, tx'[s].reply \in Heard PROVE tx'[s].pay \in CapturedAll'
  <2>1. CASE StillIn(s, Heard)
    BY <1>1, <2>1 DEF StillIn, PromotionInv, HeardOnce
  <2>2. CASE JustHeard(s)
    BY <2>2 DEF JustHeard, CapturedAll
  <2> QED
    BY <1>3, <2>1, <2>2 DEF Listens
<1>4. ASSUME NEW r \in Sessions, NEW s \in Sessions,
             tx'[r].reply \in Heard, tx'[s].reply \in Heard, tx'[r].pay = tx'[s].pay, r # s
      PROVE FALSE
  <2>1. tx'[r] = tx[r] \/ tx'[s] = tx[s]
    BY <1>4 DEF Listens
  <2>2. \A q \in {r, s} : tx'[q] = tx[q] => tx[q].pay \in CapturedAll
    BY <1>4 DEF PromotionInv, HeardOnce
  <2>3. \A q \in {r, s} : tx[q].reply \in Heard /\ tx'[q].pay = tx[q].pay
    <3>1. \A q \in {r, s} : ~JustHeard(q)
      BY <1>4, <2>1, <2>2 DEF JustHeard
    <3> QED
      BY <1>4, <3>1 DEF Listens, StillIn
  <2> QED
    BY <1>4, <2>3 DEF PromotionInv, HeardOnce
<1> QED
  BY <1>2, <1>3, <1>4 DEF HeardOnce

LEMMA OneMore ==
  ASSUME NEW S, NEW T, IsFiniteSet(T), S \subseteq T
  PROVE  /\ Cardinality(S) \in Nat /\ Cardinality(T) \in Nat /\ Cardinality(S) <= Cardinality(T)
         /\ \A x \in T \ S : Cardinality(S) + 1 <= Cardinality(T)
<1>1. IsFiniteSet(S) /\ Cardinality(S) <= Cardinality(T)
  BY FS_Subset
<1>2. Cardinality(S) \in Nat /\ Cardinality(T) \in Nat
  BY <1>1, FS_CardinalityType
<1>3. ASSUME NEW x \in T \ S PROVE Cardinality(S) + 1 <= Cardinality(T)
  <2>1. Cardinality(S \cup {x}) = Cardinality(S) + 1
    BY <1>1, <1>3, FS_AddElement
  <2>2. Cardinality(S \cup {x}) <= Cardinality(T)
    BY <1>3, FS_Subset
  <2> QED
    BY <2>1, <2>2
<1> QED
  BY <1>1, <1>2, <1>3

LEMMA PromotionStep ==
  ASSUME PromotionInv, IInv', Listens, Counts
  PROVE  PromotionInv'
<1>1. IsFiniteSet(CapturedAll)' /\ HeardOnce'
  BY HeardOnceStep
<1>2. PromoCaptured \subseteq PromoCaptured'
  BY CheckoutAssumption DEF PromoCaptured, Listens, CapturedAll
<1>3. IsFiniteSet(PromoCaptured')
  <2>1. PromoCaptured' \subseteq CapturedAll'
    BY DEF PromoCaptured, CapturedAll
  <2> QED
    BY <1>1, <2>1, FS_Subset
<1>4. IsFiniteSet(PromoCaptured' \ HeardIn(Owing)')
  BY <1>3, FS_Subset
<1>5. UseCounted'
  <2> DEFINE S == PromoCaptured \ HeardIn(Owing)
             T == PromoCaptured' \ HeardIn(Owing)'
  <2>0. promoUsed \in Nat /\ promoUsed' \in Nat
    BY DEF PromotionInv, IInv, Typed, TypeOK
  <2>1. CASE /\ promoUsed' = promoUsed
             /\ \A s \in Sessions : tx'[s].reply \in Owing => StillIn(s, Owing) \/ JustHeard(s)
    <3>1. S \subseteq T
      <4>1. PromoCaptured \cap HeardIn(Owing)' \subseteq HeardIn(Owing)
        BY <2>1 DEF PromoCaptured, HeardIn, StillIn, JustHeard, CapturedAll
      <4> QED
        BY <1>2, <4>1
    <3>2. Cardinality(S) \in Nat /\ Cardinality(T) \in Nat /\ Cardinality(S) <= Cardinality(T)
      BY <1>4, <3>1, OneMore
    <3>3. promoUsed <= Cardinality(S)
      BY DEF PromotionInv, UseCounted
    <3>4. promoUsed' <= Cardinality(T)
      <4> HIDE DEF S, T
      <4> QED
        BY <2>0, <2>1, <3>2, <3>3
    <3> QED
      BY <3>4 DEF UseCounted
  <2>2. ASSUME promoUsed' = promoUsed + 1, UNCHANGED gateway,
               NEW s \in Sessions, tx[s].reply \in Owing, tx'[s].reply \notin Owing,
               payOf[tx[s].pay] \in Promo, \A r \in Sessions \ {s} : tx'[r] = tx[r]
        PROVE UseCounted'
    <3> DEFINE a == tx[s].pay
    <3>1. a \in PromoCaptured /\ a \in HeardIn(Owing)
      BY <2>2 DEF PromotionInv, HeardOnce, Heard, Owing, CapturedAll, PromoCaptured, HeardIn
    <3>2. HeardIn(Owing)' \subseteq HeardIn(Owing)
      BY <2>2 DEF HeardIn
    <3>3. a \notin HeardIn(Owing)'
      BY <2>2 DEF HeardIn, PromotionInv, HeardOnce, Heard, Owing
    <3>4. S \subseteq T /\ a \in T \ S
      BY <1>2, <3>1, <3>2, <3>3
    <3>5. Cardinality(S) \in Nat /\ Cardinality(T) \in Nat /\ Cardinality(S) + 1 <= Cardinality(T)
      BY <1>4, <3>4, OneMore
    <3>6. promoUsed <= Cardinality(S)
      BY DEF PromotionInv, UseCounted
    <3>7. promoUsed' <= Cardinality(T)
      <4> HIDE DEF S, T, a
      <4> QED
        BY <2>0, <2>2, <3>5, <3>6
    <3> QED
      BY <3>7 DEF UseCounted
  <2> QED
    BY <2>1, <2>2 DEF Counts
<1> QED
  BY <1>1, <1>5 DEF PromotionInv

-----------------------------------------------------------------------------
(* Every group of steps listens and counts.                                *)

\* Nothing happens at the gateway, and the session that moves hears nothing.
LEMMA DeafStep ==
  ASSUME PromotionInv, NEW s \in Sessions, NEW next, tx' = [tx EXCEPT ![s] = next],
         UNCHANGED << gateway, promoUsed >>,
         \A a \in Authorities : payOf[a] \in Orders => payOf'[a] = payOf[a],
         next.reply \notin Heard
  PROVE  Listens /\ Counts
<1>1. \A r \in Sessions : tx'[r] = IF r = s THEN next ELSE tx[r]
  BY DEF PromotionInv, IInv, Typed, TypeOK
<1>2. Listens
  BY <1>1 DEF Listens, StillIn, CapturedAll
<1>3. Counts
  BY <1>1 DEF Counts, StillIn, Heard, Owing
<1> QED
  BY <1>2, <1>3

LEMMA BeginListens ==
  ASSUME PromotionInv, NEW s \in Sessions, NEW session, Begin(s, session), session.reply = "none"
  PROVE  Listens /\ Counts
  BY DeafStep DEF Begin, Heard

LEMMA EndListens ==
  ASSUME PromotionInv, NEW s \in Sessions, End(s), UNCHANGED << gateway, promoUsed >>,
         \A a \in Authorities : payOf[a] \in Orders => payOf'[a] = payOf[a]
  PROVE  Listens /\ Counts
  BY DeafStep DEF End, Heard, Idle

LEMMA OnlineListens ==
  ASSUME PromotionInv, NEW s \in Sessions, OnlineStep(s)
  PROVE  Listens /\ Counts
<1>0. tx[s].reply # "none" => tx[s].op \in Callback
  BY DEF PromotionInv, IInv, Typed, RowsKnown, Callback
<1>0a. tx[s].op \in Callback => /\ tx[s].order \in Orders /\ tx[s].pay \in Authorities
                                /\ payOf[tx[s].pay] = tx[s].order
  BY DEF PromotionInv, IInv, Typed, RowsKnown, TellsTruth, Told, ToldBy, Callback
<1>t. /\ gateway \in [Authorities -> {"unused", "issued", "paid", "captured"}]
      /\ payOf \in [Payments -> Orders \cup {NoOrder}] /\ tx \in [Sessions -> Session]
  BY DEF PromotionInv, IInv, Typed, TypeOK
<1>1. ASSUME NEW o \in Orders, BeginCreatePayment(s, o) PROVE Listens /\ Counts
  <2> DEFINE session == [Idle EXCEPT !.op = "createPayment", !.order = o,
                                     !.status = order[o], !.stock = stock]
  <2>1. session.reply = "none" /\ Begin(s, session)
    BY <1>1 DEF BeginCreatePayment, Idle
  <2> HIDE DEF session
  <2> QED
    BY <2>1, BeginListens
<1>2. ASSUME NEW a \in Authorities, BeginVerify(s, a) \/ BeginUserCancel(s, a)
      PROVE Listens /\ Counts
  <2>1. PICK op \in Callback : BeginCallback(s, a, op)
    BY <1>2 DEF BeginVerify, BeginUserCancel, Callback
  <2> DEFINE session == [Idle EXCEPT !.op = op, !.order = payOf[a], !.pay = a,
                !.status = order[payOf[a]], !.payStatus = payStatus[a],
                !.open = op = "verifyPayment" /\ HasOpenCart(Owner[payOf[a]])]
  <2>2. session.reply = "none" /\ Begin(s, session)
    BY <2>1 DEF BeginCallback, Idle, Callback
  <2> HIDE DEF session
  <2> QED
    BY <2>2, BeginListens
<1>3. ASSUME NEW a \in Authorities, GatewayIssues(s, a) PROVE Listens /\ Counts
  <2> DEFINE next == [tx[s] EXCEPT !.pay = a]
  <2>1. /\ tx' = [tx EXCEPT ![s] = next] /\ UNCHANGED << payOf, promoUsed >>
        /\ gateway[a] = "unused" /\ gateway' = [gateway EXCEPT ![a] = "issued"]
    BY <1>3 DEF GatewayIssues
  <2>2. next.reply = "none"
    BY <1>0, <1>3, <1>t DEF GatewayIssues, Session, Callback
  <2> HIDE DEF next
  <2>3. \A r \in Sessions : tx'[r] = IF r = s THEN next ELSE tx[r]
    BY <1>t, <2>1
  <2>4. \A b \in Authorities : gateway'[b] = "captured" <=> gateway[b] = "captured"
    BY <1>t, <2>1
  <2>5. Listens
    BY <2>1, <2>2, <2>3, <2>4 DEF Listens, StillIn, CapturedAll, Heard
  <2>6. Counts
    BY <2>1, <2>2, <2>3 DEF Counts, StillIn, Owing
  <2> QED
    BY <2>5, <2>6
<1>4. CASE CommitCreatePayment(s)
  <2>1. /\ Waits(tx[s]) /\ End(s) /\ UNCHANGED << gateway, promoUsed >>
        /\ payOf' = [payOf EXCEPT ![tx[s].pay] = tx[s].order]
    BY <1>4 DEF CommitCreatePayment, Waits
  <2>2. tx[s].pay \in Authorities /\ payOf[tx[s].pay] = NoOrder
    BY <2>1 DEF PromotionInv, IInv, TellsTruth, Told, ToldBy
  <2>3. \A a \in Authorities : payOf[a] \in Orders => payOf'[a] = payOf[a]
    BY <1>t, <2>1, <2>2, CheckoutAssumption
  <2> QED
    BY <2>1, <2>3, EndListens
<1>5. ASSUME NEW reply \in {"100", "101", "other", "error"}, GatewayVerifies(s, reply)
      PROVE Listens /\ Counts
  <2> DEFINE a == tx[s].pay
             next == [tx[s] EXCEPT !.reply = reply]
  <2>1. /\ tx' = [tx EXCEPT ![s] = next] /\ UNCHANGED << payOf, promoUsed >>
        /\ \/ gateway[a] = "paid" /\ gateway' = [gateway EXCEPT ![a] = "captured"]
           \/ reply # "100" /\ UNCHANGED gateway
        /\ tx[s].reply = "logged"
    BY <1>5 DEF GatewayVerifies
  <2>2. next.reply = reply /\ next.pay = a /\ a \in Authorities
    BY <1>0, <1>0a, <1>t, <2>1 DEF Session
  <2> HIDE DEF next
  <2>3. \A r \in Sessions : tx'[r] = IF r = s THEN next ELSE tx[r]
    BY <1>t, <2>1
  <2>4. /\ \A b \in CapturedAll : gateway'[b] = "captured"
        /\ \A b \in Authorities : gateway'[b] = "captured" => b \in CapturedAll \cup {a}
    BY <1>t, <2>1, <2>2 DEF CapturedAll
  <2>5. next.reply \in Heard => JustHeard(s)
    BY <1>t, <2>1, <2>2, <2>3 DEF JustHeard, Heard, CapturedAll
  <2>6. Listens
    BY <2>1, <2>3, <2>4, <2>5 DEF Listens, StillIn
  <2>7. Counts
    BY <2>1, <2>3, <2>5 DEF Counts, StillIn, Owing, Heard
  <2> QED
    BY <2>6, <2>7
<1>6. CASE LogCallback(s) \/ LosesDeadlock(s)
  <2>1. PICK reply \in {"logged", "lost"} : tx' = [tx EXCEPT ![s].reply = reply]
    BY <1>6 DEF LogCallback, LosesDeadlock
  <2> DEFINE next == [tx[s] EXCEPT !.reply = reply]
  <2>2. /\ tx' = [tx EXCEPT ![s] = next] /\ next.reply = reply
        /\ UNCHANGED << payOf, gateway, promoUsed >>
    BY <1>6, <1>t, <2>1 DEF LogCallback, LosesDeadlock, Session
  <2> HIDE DEF next
  <2> QED
    BY <2>2, DeafStep DEF Heard
<1>7. CASE CountPromotion(s)
  <2> DEFINE next == [tx[s] EXCEPT !.reply = "counted"]
  <2>1. /\ tx' = [tx EXCEPT ![s] = next] /\ next.reply = "counted" /\ next.pay = tx[s].pay
        /\ tx[s].reply = "100" /\ tx[s].order \in Promo
        /\ UNCHANGED << payOf, gateway >> /\ promoUsed' = promoUsed + 1
    BY <1>7, <1>t DEF CountPromotion, Session
  <2> HIDE DEF next
  <2>2. \A r \in Sessions : tx'[r] = IF r = s THEN next ELSE tx[r]
    BY <1>t, <2>1
  <2>3. Listens
    BY <2>1, <2>2 DEF Listens, StillIn, CapturedAll, Heard
  <2>4. Counts
    BY <1>0, <1>0a, <2>1, <2>2 DEF Counts, Owing
  <2> QED
    BY <2>3, <2>4
<1>8. CASE LosesCartDeadlock(s)
  <2> DEFINE next == [tx[s] EXCEPT !.reply = "orphaned"]
  <2>1. /\ tx' = [tx EXCEPT ![s] = next] /\ next.reply = "orphaned" /\ next.pay = tx[s].pay
        /\ tx[s].reply = "100" /\ UNCHANGED << payOf, gateway, promoUsed >>
    BY <1>8, <1>t DEF LosesCartDeadlock, Session
  <2> HIDE DEF next
  <2>2. \A r \in Sessions : tx'[r] = IF r = s THEN next ELSE tx[r]
    BY <1>t, <2>1
  <2>3. Listens
    BY <2>1, <2>2 DEF Listens, StillIn, CapturedAll, Heard
  <2>4. Counts
    BY <2>1, <2>2 DEF Counts, StillIn, Owing
  <2> QED
    BY <2>3, <2>4
<1>9. CASE \/ CommitVerified(s) \/ CommitAlreadyVerified(s) \/ CommitRefused(s)
           \/ VerifyThrows(s) \/ CommitUserCancel(s) \/ RecordsFailed(s)
  <2>1. End(s) /\ UNCHANGED << payOf, gateway, promoUsed >>
    BY <1>9 DEF CommitVerified, CommitAlreadyVerified, CommitRefused, VerifyThrows,
       CommitUserCancel, RecordsFailed
  <2> QED
    BY <2>1, EndListens
<1>10. CASE CommitOrphaned(s)
  <2>1. /\ tx[s].reply = "orphaned" /\ End(s) /\ UNCHANGED << payOf, gateway >>
        /\ \/ tx[s].order \in Promo /\ promoUsed' = promoUsed + 1
           \/ UNCHANGED promoUsed
    BY <1>10 DEF CommitOrphaned
  <2>2. \A r \in Sessions : tx'[r] = IF r = s THEN Idle ELSE tx[r]
    BY <1>t, <2>1 DEF End
  <2>3. Idle.reply = "none"
    BY DEF Idle
  <2>4. Listens
    BY <2>1, <2>2, <2>3 DEF Listens, StillIn, CapturedAll, Heard
  <2>5. CASE tx[s].order \in Promo /\ promoUsed' = promoUsed + 1
    BY <1>0, <1>0a, <2>1, <2>2, <2>3, <2>4, <2>5 DEF Counts, Owing
  <2>6. CASE UNCHANGED promoUsed
    BY <2>1, <2>6, EndListens
  <2> QED
    BY <2>1, <2>5, <2>6
<1> QED
  BY <1>1, <1>2, <1>3, <1>4, <1>5, <1>6, <1>7, <1>8, <1>9, <1>10 DEF OnlineStep

LEMMA TransferListens ==
  ASSUME PromotionInv, NEW s \in Sessions, TransferStep(s)
  PROVE  Listens /\ Counts
<1>1. ASSUME NEW o \in Orders, BeginInitiate(s, o) PROVE Listens /\ Counts
  <2> DEFINE session == [Idle EXCEPT !.op = "initiate", !.order = o]
  <2>1. session.reply = "none" /\ Begin(s, session)
    BY <1>1 DEF BeginInitiate, Idle
  <2> HIDE DEF session
  <2> QED
    BY <2>1, BeginListens
<1>2. ASSUME NEW p \in Transfers, BeginUploadReceipt(s, p) \/ BeginReject(s, p)
      PROVE Listens /\ Counts
  <2>1. \A op : TransferRead(op, p).reply = "none"
    BY DEF TransferRead, Idle
  <2>2. Begin(s, TransferRead("uploadReceipt", p)) \/ Begin(s, TransferRead("reject", p))
    BY <1>2 DEF BeginUploadReceipt, BeginReject
  <2> QED
    BY <2>1, <2>2, BeginListens
<1>3. ASSUME NEW p \in Transfers, BeginApprove(s, p) PROVE Listens /\ Counts
  <2> DEFINE session == [TransferRead("approve", p) EXCEPT
                           !.stock = stock, !.open = HasOpenCart(Owner[payOf[p]])]
  <2>1. session.reply = "none"
    BY DEF TransferRead, Idle
  <2>2. Begin(s, session)
    BY <1>3 DEF BeginApprove
  <2> HIDE DEF session
  <2> QED
    BY <2>1, <2>2, BeginListens
<1>4. ASSUME NEW p \in Transfers, CommitInitiate(s, p) PROVE Listens /\ Counts
  <2>1. /\ End(s) /\ UNCHANGED << gateway, promoUsed >>
        /\ payOf' = [payOf EXCEPT ![p] = tx[s].order]
    BY <1>4 DEF CommitInitiate
  <2>2. \A a \in Authorities : payOf'[a] = payOf[a]
    BY <2>1, CheckoutAssumption DEF PromotionInv, IInv, Typed, TypeOK
  <2> QED
    BY <2>1, <2>2, EndListens
<1>5. CASE CommitUploadReceipt(s) \/ CommitApprove(s) \/ CommitReject(s)
  <2>1. End(s) /\ UNCHANGED << payOf, gateway, promoUsed >>
    BY <1>5 DEF CommitUploadReceipt, CommitApprove, CommitReject
  <2> QED
    BY <2>1, EndListens
<1> QED
  BY <1>1, <1>2, <1>3, <1>4, <1>5 DEF TransferStep

LEMMA OrderListens ==
  ASSUME PromotionInv, NEW s \in Sessions, OrderStep(s)
  PROVE  Listens /\ Counts
<1>1. ASSUME NEW o \in Orders, BeginCreateFromCard(s, o) PROVE Listens /\ Counts
  <2> DEFINE session(found) ==
               [Idle EXCEPT !.op = "createFromCard", !.order = o, !.batch = found]
  <2>1. \A found : session(found).reply = "none"
    BY DEF Idle
  <2>2. \E found : Begin(s, session(found))
    BY <1>1 DEF BeginCreateFromCard
  <2> HIDE DEF session
  <2> QED
    BY <2>1, <2>2, BeginListens
<1>2. ASSUME NEW o \in Orders, BeginAwaitingPayment(s, o) \/ BeginCancelOrder(s, o)
      PROVE Listens /\ Counts
  <2> DEFINE session(op) == [Idle EXCEPT !.op = op, !.order = o, !.status = order[o],
                                         !.open = HasOpenCart(Owner[o])]
  <2>1. \A op : session(op).reply = "none"
    BY DEF Idle
  <2>2. Begin(s, session("awaitingPayment")) \/ Begin(s, session("cancelOrder"))
    BY <1>2 DEF BeginAwaitingPayment, BeginCancelOrder
  <2> HIDE DEF session
  <2> QED
    BY <2>1, <2>2, BeginListens
<1>3. ASSUME NEW u \in Users, BeginGetMyCard(s, u) PROVE Listens /\ Counts
  <2> DEFINE session == [Idle EXCEPT !.op = "getMyCard", !.batch = {u}]
  <2>1. session.reply = "none" /\ Begin(s, session)
    BY <1>3 DEF BeginGetMyCard, Idle
  <2> HIDE DEF session
  <2> QED
    BY <2>1, BeginListens
<1>4. CASE \/ CommitCreateFromCard(s) \/ CommitAwaitingPayment(s) \/ CommitCancelOrder(s)
           \/ CommitGetMyCard(s) \/ Rollback(s)
  <2>1. End(s) /\ UNCHANGED << payOf, gateway, promoUsed >>
    BY <1>4 DEF CommitCreateFromCard, CommitAwaitingPayment, CommitCancelOrder, CommitGetMyCard,
       Rollback
  <2> QED
    BY <2>1, EndListens
<1> QED
  BY <1>1, <1>2, <1>3, <1>4 DEF OrderStep

LEMMA JobListens ==
  ASSUME PromotionInv, NEW s \in Sessions, JobStep(s)
  PROVE  Listens /\ Counts
<1>1. CASE BeginExpire(s)
  <2> DEFINE session(found) ==
               [Idle EXCEPT !.op = "expire", !.stock = stock, !.batch = found]
  <2>1. \A found : session(found).reply = "none"
    BY DEF Idle
  <2>2. \E found : Begin(s, session(found))
    BY <1>1 DEF BeginExpire
  <2> HIDE DEF session
  <2> QED
    BY <2>1, <2>2, BeginListens
<1>2. CASE BeginUnlockStuck(s)
  <2> DEFINE session(old) == [Idle EXCEPT !.op = "unlockStuck", !.batch = old]
  <2>1. \A old : session(old).reply = "none"
    BY DEF Idle
  <2>2. \E old : Begin(s, session(old))
    BY <1>2 DEF BeginUnlockStuck
  <2> HIDE DEF session
  <2> QED
    BY <2>1, <2>2, BeginListens
<1>3. ASSUME NEW o \in Orders, ExpireNext(s, o) PROVE Listens /\ Counts
  <2> DEFINE next == [tx[s] EXCEPT !.stock = tx[s].stock + Qty[o], !.done = tx[s].done \cup {o}]
  <2>1. tx' = [tx EXCEPT ![s] = next] /\ UNCHANGED << payOf, gateway, promoUsed >>
    BY <1>3 DEF ExpireNext
  <2>2. next.reply = "none"
    <3>1. tx[s].reply = "none" /\ tx[s] \in Session
      BY <1>3 DEF ExpireNext, PromotionInv, IInv, Typed, TypeOK, RowsKnown
    <3> QED
      BY <3>1 DEF Session
  <2> HIDE DEF next
  <2> QED
    BY <2>1, <2>2, DeafStep DEF Heard
<1>4. CASE CommitExpire(s) \/ CommitUnlockStuck(s)
  <2>1. End(s) /\ UNCHANGED << payOf, gateway, promoUsed >>
    BY <1>4 DEF CommitExpire, CommitUnlockStuck
  <2> QED
    BY <2>1, EndListens
<1> QED
  BY <1>1, <1>2, <1>3, <1>4 DEF JobStep

LEMMA EnvironmentListens ==
  ASSUME PromotionInv,
         \/ \E o \in Orders : Ages(o)
         \/ \E a \in Authorities : UserPays(a)
         \/ \E u \in Users : AddItem(u) \/ LockAnyCart(u) \/ CleanupAbandoned(u)
         \/ UNCHANGED vars
  PROVE  Listens /\ Counts
<1>1. UNCHANGED << payOf, promoUsed, tx >>
  BY DEF Ages, UserPays, AddItem, LockAnyCart, CleanupAbandoned
<1>2. \A a \in Authorities : gateway'[a] = "captured" <=> gateway[a] = "captured"
  <2>1. CASE \E a \in Authorities : UserPays(a)
    BY <2>1 DEF UserPays, PromotionInv, IInv, Typed, TypeOK
  <2>2. CASE UNCHANGED gateway
    BY <2>2
  <2> QED
    BY <2>1, <2>2 DEF Ages, AddItem, LockAnyCart, CleanupAbandoned
<1>3. Listens
  BY <1>1, <1>2 DEF Listens, StillIn, CapturedAll
<1>4. Counts
  BY <1>1 DEF Counts, StillIn
<1> QED
  BY <1>3, <1>4

LEMMA EveryStepListens ==
  ASSUME PromotionInv, [Next]_vars
  PROVE  Listens /\ Counts
  BY OnlineListens, TransferListens, OrderListens, JobListens, EnvironmentListens DEF Next

LEMMA PromotionInit == Init => PromotionInv
<1> SUFFICES ASSUME Init PROVE PromotionInv
  OBVIOUS
<1>1. IInv
  BY GatewayInit
<1>2. CapturedAll = {} /\ HeardIn(Owing) = {} /\ HeardOnce
  BY DEF Init, CapturedAll, HeardIn, HeardOnce, Heard, Owing, Idle
<1>3. IsFiniteSet(CapturedAll)
  BY <1>2, FS_EmptySet
<1>4. PromoCaptured \ HeardIn(Owing) = {}
  BY <1>2 DEF PromoCaptured, CapturedAll
<1>5. UseCounted
  BY <1>4, FS_EmptySet DEF UseCounted, Init
<1> QED
  BY <1>1, <1>2, <1>3, <1>5 DEF PromotionInv

LEMMA PromotionNext ==
  ASSUME PromotionInv, [Next]_vars
  PROVE  PromotionInv'
<1>1. IInv'
  BY GatewayNext DEF PromotionInv
<1> QED
  BY <1>1, EveryStepListens, PromotionStep

\* A promotion is never counted more often than the gateway has captured money
\* for orders that use it, although the count is written outside the
\* transaction of the callback: code 100 is answered once for each payment, the
\* session that has heard it counts at most once, and the count of a session
\* that is rolled back is of a payment that stays captured.
THEOREM PromotionUseIsCaptured == Spec => []PromotionUseBacked
<1>1. PromotionInv => PromotionUseBacked
  <2> SUFFICES ASSUME PromotionInv PROVE PromotionUseBacked
    OBVIOUS
  <2>1. UNION { Captured(o) : o \in Promo } = PromoCaptured
    BY DEF Captured, PromoCaptured
  <2>2. IsFiniteSet(PromoCaptured)
    <3>1. PromoCaptured \subseteq CapturedAll
      BY DEF PromoCaptured, CapturedAll
    <3> QED
      BY <3>1, FS_Subset DEF PromotionInv
  <2>3. Cardinality(PromoCaptured \ HeardIn(Owing)) <= Cardinality(PromoCaptured)
    BY <2>2, OneMore
  <2>4. /\ Cardinality(PromoCaptured) \in Nat /\ Cardinality(PromoCaptured \ HeardIn(Owing)) \in Nat
        /\ promoUsed \in Nat
    BY <2>2, OneMore DEF PromotionInv, IInv, Typed, TypeOK
  <2>5. promoUsed <= Cardinality(PromoCaptured)
    BY <2>3, <2>4 DEF PromotionInv, UseCounted
  <2> QED
    BY <2>1, <2>5 DEF PromotionUseBacked
<1> QED
  BY <1>1, PromotionInit, PromotionNext, PTL DEF Spec

-----------------------------------------------------------------------------
(***************************************************************************)
(* Invoices and fulfilment have money behind them: for any number of       *)
(* sessions when payments are online, and one request at a time when       *)
(* administrators approve transfers as well.  Two reviews of one transfer  *)
(* that overlap make two invoices for it, and a receipt that is uploaded   *)
(* while the transfer is approved takes the approval back.                 *)
(***************************************************************************)
Serial == \A r, s \in Sessions : r = s

ReviewedAlone == Serial \/ "approve" \notin Handlers

Reviews == { "uploadReceipt", "approve", "reject" }

\* A review is of a transfer made for its order and not yet approved.
ReviewOf(t, status, of, rec) ==
  t.op \in Reviews =>
    /\ t.pay \in Transfers /\ status[t.pay] # "NONE" /\ of[t.pay] = t.order
    /\ rec[t.pay] # "APPROVED"
    /\ t.op = "approve" => t.receipt = "UPLOADED"

\* The transfers that have been made.
Made == { p \in Transfers : payStatus[p] # "NONE" }

ReviewsFit ==
  /\ \A s \in Sessions : ReviewOf(tx[s], payStatus, payOf, receipt)
  /\ \A s \in Sessions : tx[s].op = "approve" => \A r \in Sessions : r = s

\* Each invoice is of another payment: of a captured one that no session can
\* still make an invoice for, or of an approved one.
InvoiceForEach ==
  \A o \in Orders :
    invoices[o] <= Cardinality(Captured(o) \ HeardIn(Heard)) + Cardinality(Approved(o))

ProcessedPaid == \A o \in Orders : order[o] = "PROCESSING" => Captured(o) \cup Approved(o) # {}

MoneyInv == PromotionInv /\ IsFiniteSet(Made) /\ ReviewsFit /\ InvoiceForEach /\ ProcessedPaid

\* A session that has heard of a capture for o ends.
Answered(o) ==
  \E s \in Sessions : tx[s].reply \in Heard /\ tx'[s].reply \notin Heard /\ payOf[tx[s].pay] = o

\* What every step does to reviews, invoices and the orders in process.
ReviewsGoOn ==
  /\ TransfersStay
  /\ \E q : \A p \in Transfers : payStatus'[p] # "NONE" => p \in Made \cup {q}
  /\ \A s \in Sessions :
       tx'[s] = tx[s] \/ ReviewOf(tx'[s], payStatus', payOf', receipt')
  /\ \A s \in Sessions : tx'[s].op = "approve" => tx[s].op = "approve" \/ "approve" \in Handlers
  /\ \A p \in Transfers : payStatus[p] # "NONE" /\ receipt'[p] = "APPROVED" =>
       \/ receipt[p] = "APPROVED"
       \/ \E s \in Sessions : tx[s].op = "approve" /\ tx'[s].op # "approve"

MoneyKept ==
  /\ \A o \in Orders : \A p \in Approved(o) :
       p \in Approved(o)' \/ (invoices'[o] = 0 /\ order'[o] # "PROCESSING")
  /\ \A o \in Orders :
       \/ invoices'[o] \in {0, invoices[o]}
       \/ /\ invoices'[o] = invoices[o] + 1
          /\ Answered(o) \/ \E p : p \in Approved(o)' /\ p \notin Approved(o)
  /\ \A o \in Orders : order'[o] = "PROCESSING" => order[o] = "PROCESSING" \/ Approved(o)' # {}

LEMMA ReviewsStep ==
  ASSUME MoneyInv, ReviewedAlone, ReviewsGoOn
  PROVE  IsFiniteSet(Made)' /\ ReviewsFit'
<1>1. IsFiniteSet(Made)'
  <2>1. PICK q : \A p \in Transfers : payStatus'[p] # "NONE" => p \in Made \cup {q}
    BY DEF ReviewsGoOn
  <2>2. Made' \subseteq Made \cup {q}
    BY <2>1 DEF Made
  <2>3. IsFiniteSet(Made \cup {q})
    BY FS_AddElement DEF MoneyInv
  <2> QED
    BY <2>2, <2>3, FS_Subset
<1>2. ASSUME NEW s \in Sessions, tx'[s].op = "approve", NEW r \in Sessions PROVE r = s
  BY <1>2 DEF ReviewsGoOn, MoneyInv, ReviewsFit, ReviewedAlone, Serial
<1>3. ASSUME NEW r \in Sessions PROVE ReviewOf(tx'[r], payStatus', payOf', receipt')
  <2>1. CASE tx'[r] = tx[r]
    <3> SUFFICES ASSUME tx[r].op \in Reviews
                 PROVE  ReviewOf(tx[r], payStatus', payOf', receipt')
      BY <2>1 DEF ReviewOf
    <3> DEFINE p == tx[r].pay
    <3>1. /\ p \in Transfers /\ payStatus[p] # "NONE" /\ payOf[p] = tx[r].order
          /\ receipt[p] # "APPROVED" /\ (tx[r].op = "approve" => tx[r].receipt = "UPLOADED")
      BY DEF MoneyInv, ReviewsFit, ReviewOf
    <3>2. payStatus'[p] # "NONE" /\ payOf'[p] = payOf[p]
      BY <3>1 DEF ReviewsGoOn, TransfersStay
    <3>3. receipt'[p] # "APPROVED"
      <4> SUFFICES ASSUME receipt'[p] = "APPROVED" PROVE FALSE
        OBVIOUS
      <4>1. PICK s \in Sessions : tx[s].op = "approve" /\ tx'[s].op # "approve"
        BY <3>1 DEF ReviewsGoOn
      <4>2. r = s
        BY <4>1 DEF MoneyInv, ReviewsFit
      <4> QED
        BY <2>1, <4>1, <4>2
    <3> QED
      BY <3>1, <3>2, <3>3 DEF ReviewOf
  <2> QED
    BY <2>1 DEF ReviewsGoOn
<1> QED
  BY <1>1, <1>2, <1>3 DEF ReviewsFit

\* The invoices of one order.
LEMMA ForEach ==
  ASSUME NEW S, NEW T, NEW S2, NEW T2, IsFiniteSet(S2), IsFiniteSet(T2),
         S \subseteq S2, T \subseteq T2, NEW n \in Nat, n <= Cardinality(S) + Cardinality(T),
         NEW m, m = n \/ (m = n + 1 /\ ((\E x : x \in S2 \ S) \/ (\E x : x \in T2 \ T)))
  PROVE  m <= Cardinality(S2) + Cardinality(T2)
<1>1. /\ Cardinality(S) \in Nat /\ Cardinality(S2) \in Nat /\ Cardinality(S) <= Cardinality(S2)
      /\ (\E x : x \in S2 \ S) => Cardinality(S) + 1 <= Cardinality(S2)
  BY OneMore
<1>2. /\ Cardinality(T) \in Nat /\ Cardinality(T2) \in Nat /\ Cardinality(T) <= Cardinality(T2)
      /\ (\E x : x \in T2 \ T) => Cardinality(T) + 1 <= Cardinality(T2)
  BY OneMore
<1> QED
  BY <1>1, <1>2

LEMMA MoneyStep ==
  ASSUME MoneyInv, PromotionInv', Listens, ReviewedAlone, ReviewsGoOn, MoneyKept
  PROVE  MoneyInv'
<1>1. IsFiniteSet(Made)' /\ ReviewsFit'
  BY ReviewsStep
<1>2. \A o \in Orders : Captured(o) \subseteq Captured(o)'
  BY DEF Captured, Listens, CapturedAll
<1>3. ASSUME NEW o \in Orders
      PROVE invoices'[o] <= Cardinality((Captured(o) \ HeardIn(Heard))') + Cardinality(Approved(o)')
  <2> DEFINE S == Captured(o) \ HeardIn(Heard)
             T == Approved(o)
             S2 == (Captured(o) \ HeardIn(Heard))'
             T2 == Approved(o)'
  <2>1. IsFiniteSet(S2) /\ IsFiniteSet(T2)
    <3>1. S2 \subseteq CapturedAll' /\ T2 \subseteq Made'
      BY DEF Captured, CapturedAll, Approved, TransfersOf, Made
    <3>2. IsFiniteSet(CapturedAll') /\ IsFiniteSet(Made')
      BY <1>1 DEF PromotionInv
    <3> QED
      BY <3>1, <3>2, FS_Subset
  <2>2. S \subseteq S2
    <3>1. Captured(o) \cap HeardIn(Heard)' \subseteq HeardIn(Heard)
      BY DEF Captured, HeardIn, Listens, StillIn, JustHeard, CapturedAll
    <3> QED
      BY <1>2, <3>1
  <2>3. Answered(o) => \E a : a \in S2 \ S
    <3> SUFFICES ASSUME NEW s \in Sessions, tx[s].reply \in Heard, tx'[s].reply \notin Heard,
                        payOf[tx[s].pay] = o
                 PROVE  tx[s].pay \in S2 \ S
      BY DEF Answered
    <3> DEFINE a == tx[s].pay
    <3>1. a \in CapturedAll /\ a \in Captured(o) /\ a \in HeardIn(Heard)
      BY DEF MoneyInv, PromotionInv, HeardOnce, CapturedAll, Captured, HeardIn
    <3>2. \A r \in Sessions : tx'[r].reply \in Heard => tx'[r].pay # a
      <4> SUFFICES ASSUME NEW r \in Sessions, tx'[r].reply \in Heard, tx'[r].pay = a PROVE FALSE
        OBVIOUS
      <4>1. ~JustHeard(r)
        BY <3>1 DEF JustHeard
      <4>2. tx[r].reply \in Heard /\ tx[r].pay = a
        BY <4>1 DEF Listens, StillIn
      <4>3. r = s
        BY <4>2 DEF MoneyInv, PromotionInv, HeardOnce
      <4> QED
        BY <4>3
    <3>3. a \notin HeardIn(Heard)'
      BY <3>2 DEF HeardIn
    <3> QED
      BY <1>2, <3>1, <3>3
  <2>4. /\ invoices[o] \in Nat /\ invoices[o] <= Cardinality(S) + Cardinality(T)
    BY DEF MoneyInv, PromotionInv, IInv, Typed, TypeOK, InvoiceForEach
  <2>5. CASE invoices'[o] = 0
    <3>1. Cardinality(S2) \in Nat /\ Cardinality(T2) \in Nat
      BY <2>1, FS_CardinalityType
    <3> HIDE DEF S2, T2
    <3>2. invoices'[o] <= Cardinality(S2) + Cardinality(T2)
      BY <2>5, <3>1
    <3> QED
      BY <3>2 DEF S2, T2
  <2>6. CASE invoices'[o] # 0
    <3>1. T \subseteq T2
      BY <2>6 DEF MoneyKept
    <3>2. \/ invoices'[o] = invoices[o]
          \/ /\ invoices'[o] = invoices[o] + 1
             /\ (\E x : x \in S2 \ S) \/ (\E x : x \in T2 \ T)
      BY <2>3, <2>6 DEF MoneyKept
    <3> HIDE DEF S, T, S2, T2
    <3>3. invoices'[o] <= Cardinality(S2) + Cardinality(T2)
      BY <2>1, <2>2, <2>4, <3>1, <3>2, ForEach
    <3> QED
      BY <3>3 DEF S2, T2
  <2> QED
    BY <2>5, <2>6
<1>4. ASSUME NEW o \in Orders, order'[o] = "PROCESSING" PROVE Captured(o)' \cup Approved(o)' # {}
  BY <1>2, <1>4 DEF MoneyKept, MoneyInv, ProcessedPaid
<1> QED
  BY <1>1, <1>3, <1>4 DEF MoneyInv, InvoiceForEach, ProcessedPaid

-----------------------------------------------------------------------------
(* Every group of steps.                                                   *)

\* Transfers and invoices stay as they are, and no order gets in process.
LEMMA PlainStep ==
  ASSUME MoneyInv, NEW s \in Sessions, NEW next, tx' = [tx EXCEPT ![s] = next],
         next.op \notin Reviews, tx[s].op # "approve", UNCHANGED << receipt, invoices >>,
         \A p \in Transfers : payStatus'[p] = payStatus[p] /\ payOf'[p] = payOf[p],
         \A o \in Orders : order'[o] = "PROCESSING" => order[o] = "PROCESSING"
  PROVE  ReviewsGoOn /\ MoneyKept
<1>1. \A r \in Sessions : tx'[r] = IF r = s THEN next ELSE tx[r]
  BY DEF MoneyInv, PromotionInv, IInv, Typed, TypeOK
<1>2. ReviewsGoOn
  <2>1. TransfersStay
    BY DEF TransfersStay
  <2>2. \A p \in Transfers : payStatus'[p] # "NONE" => p \in Made
    BY DEF Made
  <2>3. \A r \in Sessions : tx'[r] = tx[r] \/ ReviewOf(tx'[r], payStatus', payOf', receipt')
    BY <1>1 DEF ReviewOf
  <2>4. \A r \in Sessions : tx'[r].op = "approve" => tx[r].op = "approve"
    BY <1>1 DEF Reviews
  <2> QED
    BY <2>1, <2>2, <2>3, <2>4 DEF ReviewsGoOn
<1>3. MoneyKept
  <2>1. \A o \in Orders : Approved(o) \subseteq Approved(o)'
    BY DEF Approved, TransfersOf
  <2> QED
    BY <2>1 DEF MoneyKept
<1> QED
  BY <1>2, <1>3

LEMMA PlainBegin ==
  ASSUME MoneyInv, NEW s \in Sessions, NEW session, session.op \notin Reviews, Begin(s, session)
  PROVE  ReviewsGoOn /\ MoneyKept
<1>1. tx[s].op # "approve"
  BY DEF Begin, Idle
<1> QED
  BY <1>1, PlainStep DEF Begin

LEMMA PlainEnd ==
  ASSUME MoneyInv, NEW s \in Sessions, End(s), tx[s].op # "approve",
         UNCHANGED << receipt, invoices >>,
         \A p \in Transfers : payStatus'[p] = payStatus[p] /\ payOf'[p] = payOf[p],
         \A o \in Orders : order'[o] = "PROCESSING" => order[o] = "PROCESSING"
  PROVE  ReviewsGoOn /\ MoneyKept
<1>1. Idle.op \notin Reviews
  BY DEF Idle, Reviews
<1> QED
  BY <1>1, PlainStep DEF End

\* The status an order row gets by save.
LEMMA SavedProcesses ==
  ASSUME MoneyInv, NEW s \in Sessions, NEW new, SaveOrder(s, new), tx[s].order \in Orders
  PROVE  \A o \in Orders : order'[o] = "PROCESSING" =>
           order[o] = "PROCESSING" \/ (o = tx[s].order /\ new = "PROCESSING")
  BY DEF SaveOrder, Saved, MoneyInv, PromotionInv, IInv, Typed, TypeOK

\* save of an online payment leaves the transfers alone.
LEMMA SavedOnline ==
  ASSUME MoneyInv, NEW s \in Sessions, NEW new, SavePayment(s, new), tx[s].pay \in Authorities
  PROVE  \A p \in Transfers : payStatus'[p] = payStatus[p]
  BY CheckoutAssumption DEF SavePayment, MoneyInv, PromotionInv, IInv, Typed, TypeOK

\* A session that has heard of a capture ends with an invoice.
LEMMA AnswersKeep ==
  ASSUME MoneyInv, NEW s \in Sessions, End(s), tx[s].reply \in Heard, UNCHANGED << payOf, receipt >>,
         tx[s].order \in Orders, payOf[tx[s].pay] = tx[s].order, tx[s].op # "approve",
         invoices' = [invoices EXCEPT ![tx[s].order] = @ + 1],
         \A p \in Transfers : payStatus'[p] = payStatus[p],
         \A o \in Orders : order'[o] = "PROCESSING" => order[o] = "PROCESSING"
  PROVE  ReviewsGoOn /\ MoneyKept
<1>1. \A r \in Sessions : tx'[r] = IF r = s THEN Idle ELSE tx[r]
  BY DEF End, MoneyInv, PromotionInv, IInv, Typed, TypeOK
<1>2. Idle.op = "idle" /\ Idle.reply = "none"
  BY DEF Idle
<1>3. ReviewsGoOn
  <2>1. TransfersStay
    BY DEF TransfersStay
  <2>2. \A p \in Transfers : payStatus'[p] # "NONE" => p \in Made
    BY DEF Made
  <2>3. \A r \in Sessions : tx'[r] = tx[r] \/ ReviewOf(tx'[r], payStatus', payOf', receipt')
    BY <1>1, <1>2 DEF ReviewOf, Reviews
  <2>4. \A r \in Sessions : tx'[r].op = "approve" => tx[r].op = "approve"
    BY <1>1, <1>2
  <2> QED
    BY <2>1, <2>2, <2>3, <2>4 DEF ReviewsGoOn
<1>4. MoneyKept
  <2>1. \A o \in Orders : Approved(o) \subseteq Approved(o)'
    BY DEF Approved, TransfersOf
  <2>2. invoices \in [Orders -> Nat]
    BY DEF MoneyInv, PromotionInv, IInv, Typed, TypeOK
  <2>3. Answered(tx[s].order)
    BY <1>1, <1>2 DEF Answered, Heard
  <2>4. \A o \in Orders : \/ invoices'[o] = invoices[o]
                          \/ invoices'[o] = invoices[o] + 1 /\ Answered(o)
    BY <2>2, <2>3
  <2> QED
    BY <2>1, <2>4 DEF MoneyKept
<1> QED
  BY <1>3, <1>4

LEMMA OnlineMoney ==
  ASSUME MoneyInv, NEW s \in Sessions, OnlineStep(s)
  PROVE  ReviewsGoOn /\ MoneyKept
<1> DEFINE Goal == ReviewsGoOn /\ MoneyKept
<1>0. tx[s].reply # "none" => tx[s].op \in Callback
  BY DEF MoneyInv, PromotionInv, IInv, Typed, RowsKnown, Callback
<1>0a. tx[s].op \in Callback => /\ tx[s].order \in Orders /\ tx[s].pay \in Authorities
                                /\ payOf[tx[s].pay] = tx[s].order /\ tx[s].op # "approve"
  BY DEF MoneyInv, PromotionInv, IInv, Typed, RowsKnown, TellsTruth, Told, ToldBy, Callback
<1>t. /\ payStatus \in [Payments -> PaymentStatus \cup NoRow] /\ tx \in [Sessions -> Session]
      /\ payOf \in [Payments -> Orders \cup {NoOrder}]
  BY DEF MoneyInv, PromotionInv, IInv, Typed, TypeOK
<1>1. ASSUME NEW o \in Orders, BeginCreatePayment(s, o) PROVE Goal
  <2> DEFINE session == [Idle EXCEPT !.op = "createPayment", !.order = o,
                                     !.status = order[o], !.stock = stock]
  <2>1. session.op \notin Reviews /\ Begin(s, session)
    BY <1>1 DEF BeginCreatePayment, Idle, Reviews
  <2> HIDE DEF session
  <2> QED
    BY <2>1, PlainBegin
<1>2. ASSUME NEW a \in Authorities, BeginVerify(s, a) \/ BeginUserCancel(s, a) PROVE Goal
  <2>1. PICK op \in Callback : BeginCallback(s, a, op)
    BY <1>2 DEF BeginVerify, BeginUserCancel, Callback
  <2> DEFINE session == [Idle EXCEPT !.op = op, !.order = payOf[a], !.pay = a,
                !.status = order[payOf[a]], !.payStatus = payStatus[a],
                !.open = op = "verifyPayment" /\ HasOpenCart(Owner[payOf[a]])]
  <2>2. session.op \notin Reviews /\ Begin(s, session)
    BY <2>1 DEF BeginCallback, Idle, Callback, Reviews
  <2> HIDE DEF session
  <2> QED
    BY <2>2, PlainBegin
<1>3. ASSUME NEW a \in Authorities, GatewayIssues(s, a) PROVE Goal
  <2> DEFINE next == [tx[s] EXCEPT !.pay = a]
  <2>1. tx' = [tx EXCEPT ![s] = next] /\ UNCHANGED tables /\ tx[s].op = "createPayment"
    BY <1>3 DEF GatewayIssues
  <2>2. next.op = "createPayment"
    BY <1>t, <2>1 DEF Session
  <2> HIDE DEF next
  <2> QED
    BY <2>1, <2>2, PlainStep DEF Reviews
<1>4. CASE CommitCreatePayment(s)
  <2>1. /\ Waits(tx[s]) /\ End(s) /\ UNCHANGED << receipt, invoices >>
        /\ SaveOrder(s, "AWAITING_PAYMENT")
        /\ payOf' = [payOf EXCEPT ![tx[s].pay] = tx[s].order]
        /\ payStatus' = [payStatus EXCEPT ![tx[s].pay] = "IN_PROGRESS"]
    BY <1>4 DEF CommitCreatePayment, Waits
  <2>2. tx[s].pay \in Authorities
    BY <2>1 DEF MoneyInv, PromotionInv, IInv, TellsTruth, Told, ToldBy
  <2>3. \A p \in Transfers : payStatus'[p] = payStatus[p] /\ payOf'[p] = payOf[p]
    BY <1>t, <2>1, <2>2, CheckoutAssumption
  <2>4. tx[s].op # "approve" /\ tx[s].order \in Orders
    BY <2>1 DEF Waits, MoneyInv, PromotionInv, IInv, Typed, RowsKnown
  <2> QED
    BY <2>1, <2>3, <2>4, SavedProcesses, PlainEnd
<1>5. ASSUME \/ \E reply \in {"100", "101", "other", "error"} : GatewayVerifies(s, reply)
             \/ LogCallback(s) \/ CountPromotion(s) \/ LosesDeadlock(s) \/ LosesCartDeadlock(s)
      PROVE Goal
  <2>1. PICK reply : tx' = [tx EXCEPT ![s].reply = reply]
    BY <1>5 DEF GatewayVerifies, LogCallback, CountPromotion, LosesDeadlock, LosesCartDeadlock
  <2>2. UNCHANGED << order, payOf, payStatus, receipt, invoices >>
    BY <1>5 DEF GatewayVerifies, LogCallback, CountPromotion, LosesDeadlock, LosesCartDeadlock
  <2>3. tx[s].op \in Callback
    BY <1>0, <1>5
    DEF GatewayVerifies, LogCallback, CountPromotion, LosesDeadlock, LosesCartDeadlock, Callback
  <2> DEFINE next == [tx[s] EXCEPT !.reply = reply]
  <2>4. tx' = [tx EXCEPT ![s] = next] /\ next.op = tx[s].op
    BY <1>t, <2>1 DEF Session
  <2> HIDE DEF next
  <2> QED
    BY <2>2, <2>3, <2>4, PlainStep DEF Callback, Reviews
<1>6. CASE CommitVerified(s)
  <2>1. /\ tx[s].reply \in Heard /\ End(s) /\ UNCHANGED << payOf, receipt >>
        /\ SaveOrder(s, "PREPARING") /\ InvoiceOrVerified(tx[s])
    BY <1>6 DEF CommitVerified, Heard
  <2>2. /\ tx[s].order \in Orders /\ tx[s].pay \in Authorities
        /\ payOf[tx[s].pay] = tx[s].order /\ tx[s].op # "approve"
    BY <1>0, <1>0a, <2>1 DEF Heard
  <2>3. \A p \in Transfers : payStatus'[p] = payStatus[p]
    BY <1>t, <2>1, <2>2, CheckoutAssumption DEF InvoiceOrVerified
  <2>4. \A o \in Orders : order'[o] = "PROCESSING" => order[o] = "PROCESSING"
    BY <2>1, <2>2, SavedProcesses
  <2>5. CASE invoices' = [invoices EXCEPT ![tx[s].order] = @ + 1]
    BY <2>1, <2>2, <2>3, <2>4, <2>5, AnswersKeep
  <2>6. CASE UNCHANGED invoices
    BY <2>1, <2>2, <2>3, <2>4, <2>6, PlainEnd
  <2> QED
    BY <2>1, <2>5, <2>6 DEF InvoiceOrVerified
<1>7. CASE CommitAlreadyVerified(s) \/ CommitRefused(s)
  <2>1. /\ SaveOrder(s, "PAYMENT_CONFIRMATION_PENDING") /\ End(s)
        /\ UNCHANGED << payOf, receipt, invoices >>
        /\ (UNCHANGED payStatus \/ SavePayment(s, "FAILED"))
    BY <1>7 DEF CommitAlreadyVerified, CommitRefused, MoneyInv, PromotionInv, IInv, Typed,
       RowsKnown, Callback
  <2>2. tx[s].op \in Callback
    BY <1>0, <1>7 DEF CommitAlreadyVerified, CommitRefused
  <2>3. \A p \in Transfers : payStatus'[p] = payStatus[p]
    BY <1>0a, <2>1, <2>2, SavedOnline
  <2>4. \A o \in Orders : order'[o] = "PROCESSING" => order[o] = "PROCESSING"
    BY <1>0a, <2>1, <2>2, SavedProcesses
  <2> QED
    BY <1>0a, <2>1, <2>2, <2>3, <2>4, PlainEnd
<1>8. CASE VerifyThrows(s) \/ CommitUserCancel(s) \/ RecordsFailed(s)
  <2>1. /\ End(s) /\ UNCHANGED << order, payOf, receipt, invoices >>
        /\ \/ UNCHANGED payStatus
           \/ SavePayment(s, "CANCELLED")
           \/ payStatus' = [payStatus EXCEPT ![tx[s].pay] = Saved("NONE", "FAILED", @)]
    BY <1>8 DEF VerifyThrows, CommitUserCancel, RecordsFailed
  <2>2. tx[s].op \in Callback
    BY <1>0, <1>8 DEF VerifyThrows, CommitUserCancel, RecordsFailed
  <2>3. \A p \in Transfers : payStatus'[p] = payStatus[p]
    <3>1. CASE UNCHANGED payStatus
      BY <3>1
    <3>2. CASE SavePayment(s, "CANCELLED")
      BY <1>0a, <2>2, <3>2, SavedOnline
    <3>3. CASE payStatus' = [payStatus EXCEPT ![tx[s].pay] = Saved("NONE", "FAILED", @)]
      BY <1>0a, <1>t, <2>2, <3>3, CheckoutAssumption
    <3> QED
      BY <2>1, <3>1, <3>2, <3>3
  <2> QED
    BY <1>0a, <2>1, <2>2, <2>3, PlainEnd
<1>9. CASE CommitOrphaned(s)
  <2>1. /\ tx[s].reply \in Heard /\ End(s) /\ UNCHANGED << order, payOf, receipt >>
        /\ \/ invoices' = [invoices EXCEPT ![tx[s].order] = @ + 1] /\ UNCHANGED payStatus
           \/ payStatus' = [payStatus EXCEPT ![tx[s].pay] = "VERIFIED"] /\ UNCHANGED invoices
    BY <1>9 DEF CommitOrphaned, Heard
  <2>2. /\ tx[s].order \in Orders /\ tx[s].pay \in Authorities
        /\ payOf[tx[s].pay] = tx[s].order /\ tx[s].op # "approve"
    BY <1>0, <1>0a, <2>1 DEF Heard
  <2>3. \A p \in Transfers : payStatus'[p] = payStatus[p]
    BY <1>t, <2>1, <2>2, CheckoutAssumption
  <2>5. CASE invoices' = [invoices EXCEPT ![tx[s].order] = @ + 1]
    BY <2>1, <2>2, <2>3, <2>5, AnswersKeep
  <2>6. CASE UNCHANGED invoices
    BY <2>1, <2>2, <2>3, <2>6, PlainEnd
  <2> QED
    BY <2>1, <2>5, <2>6
<1> QED
  BY <1>1, <1>2, <1>3, <1>4, <1>5, <1>6, <1>7, <1>8, <1>9 DEF OnlineStep

\* A review begins: it has read the transfer.
LEMMA BeginReview ==
  ASSUME MoneyInv, NEW s \in Sessions, NEW session, Begin(s, session),
         ReviewOf(session, payStatus, payOf, receipt)
  PROVE  ReviewsGoOn /\ MoneyKept
<1>1. /\ UNCHANGED << order, payOf, payStatus, receipt, invoices >>
      /\ tx[s].op = "idle" /\ session.op \in Handlers
  BY DEF Begin, Idle
<1>2. \A r \in Sessions : tx'[r] = IF r = s THEN session ELSE tx[r]
  BY DEF Begin, MoneyInv, PromotionInv, IInv, Typed, TypeOK
<1>3. ReviewsGoOn
  <2>1. TransfersStay
    BY <1>1 DEF TransfersStay
  <2>2. \A p \in Transfers : payStatus'[p] # "NONE" => p \in Made
    BY <1>1 DEF Made
  <2>3. \A r \in Sessions : tx'[r] = tx[r] \/ ReviewOf(tx'[r], payStatus', payOf', receipt')
    BY <1>1, <1>2 DEF ReviewOf
  <2>4. \A r \in Sessions : tx'[r].op = "approve" => tx[r].op = "approve" \/ "approve" \in Handlers
    BY <1>1, <1>2
  <2> QED
    BY <1>1, <2>1, <2>2, <2>3, <2>4 DEF ReviewsGoOn
<1>4. MoneyKept
  <2>1. \A o \in Orders : Approved(o) \subseteq Approved(o)'
    BY <1>1 DEF Approved, TransfersOf
  <2> QED
    BY <1>1, <2>1 DEF MoneyKept
<1> QED
  BY <1>3, <1>4

\* A receipt is saved that is not an approval.
LEMMA ReceiptKept ==
  ASSUME MoneyInv, NEW s \in Sessions, End(s), tx[s].op \in {"uploadReceipt", "reject"},
         NEW rec \in {"UPLOADED", "REJECTED"}, NEW status \in {"PENDING", "FAILED"},
         SaveReceipt(s, rec, status), UNCHANGED << payOf, invoices >>,
         \A o \in Orders : order'[o] = "PROCESSING" => order[o] = "PROCESSING"
  PROVE  ReviewsGoOn /\ MoneyKept
<1> DEFINE q == tx[s].pay
<1>t. /\ payStatus \in [Payments -> PaymentStatus \cup NoRow]
      /\ receipt \in [Payments -> CardToCardStatus \cup {"NONE"}]
  BY DEF MoneyInv, PromotionInv, IInv, Typed, TypeOK
<1>1. \A r \in Sessions : tx'[r] = IF r = s THEN Idle ELSE tx[r]
  BY DEF End, MoneyInv, PromotionInv, IInv, Typed, TypeOK
<1>2. Idle.op = "idle"
  BY DEF Idle
<1>3. q \in Transfers /\ payStatus[q] # "NONE" /\ receipt[q] # "APPROVED"
  BY DEF MoneyInv, ReviewsFit, ReviewOf, Reviews
<1>4. \A p \in Transfers :
        /\ payStatus'[p] = payStatus[p] \/ (p = q /\ payStatus[p] \notin NoRow /\ payStatus'[p] = status)
        /\ receipt'[p] = "APPROVED" <=> receipt[p] = "APPROVED"
  <2>1. \A p \in Transfers : receipt'[p] = receipt[p] \/ (p = q /\ receipt'[p] = rec)
    BY <1>t DEF SaveReceipt
  <2>2. \A p \in Transfers :
          payStatus'[p] = payStatus[p] \/ (p = q /\ payStatus[p] \notin NoRow /\ payStatus'[p] = status)
    BY <1>t DEF SaveReceipt, SavePayment, Saved
  <2> QED
    BY <1>3, <2>1, <2>2
<1>5. ReviewsGoOn
  <2>1. TransfersStay
    BY <1>4 DEF TransfersStay
  <2>2. \A p \in Transfers : payStatus'[p] # "NONE" => p \in Made
    BY <1>4 DEF Made
  <2>3. \A r \in Sessions : tx'[r] = tx[r] \/ ReviewOf(tx'[r], payStatus', payOf', receipt')
    BY <1>1, <1>2 DEF ReviewOf, Reviews
  <2>4. \A r \in Sessions : tx'[r].op = "approve" => tx[r].op = "approve"
    BY <1>1, <1>2
  <2> QED
    BY <1>4, <2>1, <2>2, <2>3, <2>4 DEF ReviewsGoOn
<1>6. MoneyKept
  <2>1. \A o \in Orders : Approved(o) \subseteq Approved(o)'
    BY <1>4 DEF Approved, TransfersOf
  <2> QED
    BY <2>1 DEF MoneyKept
<1> QED
  BY <1>5, <1>6

LEMMA ApprovalKept ==
  ASSUME MoneyInv, NEW s \in Sessions, CommitApprove(s)
  PROVE  ReviewsGoOn /\ MoneyKept
<1>p. PICK q, o : q = tx[s].pay /\ o = tx[s].order
  OBVIOUS
<1>t. /\ payStatus \in [Payments -> PaymentStatus \cup NoRow]
      /\ receipt \in [Payments -> CardToCardStatus \cup {"NONE"}]
      /\ invoices \in [Orders -> Nat]
  BY DEF MoneyInv, PromotionInv, IInv, Typed, TypeOK
<1>0. /\ tx[s].op = "approve" /\ payStatus[q] \notin NoRow /\ End(s) /\ UNCHANGED payOf
      /\ SaveOrder(s, "PROCESSING") /\ SaveReceipt(s, "APPROVED", "SUCCESS")
      /\ invoices' = [invoices EXCEPT ![o] = @ + 1]
  BY <1>p DEF CommitApprove, PaymentLogged
<1>1. \A r \in Sessions : tx'[r] = IF r = s THEN Idle ELSE tx[r]
  BY <1>0 DEF End, MoneyInv, PromotionInv, IInv, Typed, TypeOK
<1>2. Idle.op = "idle"
  BY DEF Idle
<1>3. /\ q \in Transfers /\ receipt[q] # "APPROVED" /\ payOf[q] = o /\ tx[s].receipt = "UPLOADED"
      /\ o \in Orders
  BY <1>0, <1>p DEF MoneyInv, PromotionInv, IInv, Typed, RowsKnown, ReviewsFit, ReviewOf, Reviews
<1>4. \A p \in Transfers : receipt'[p] = IF p = q THEN "APPROVED" ELSE receipt[p]
  BY <1>0, <1>3, <1>p, <1>t DEF SaveReceipt
<1>5. \A p \in Transfers :
        payStatus'[p] = payStatus[p] \/ (p = q /\ payStatus'[p] = "SUCCESS")
  BY <1>0, <1>3, <1>p, <1>t DEF SaveReceipt, SavePayment, Saved
<1>6. ReviewsGoOn
  <2>1. TransfersStay
    BY <1>0, <1>5 DEF TransfersStay
  <2>2. \A p \in Transfers : payStatus'[p] # "NONE" => p \in Made
    BY <1>0, <1>5 DEF Made
  <2>3. \A r \in Sessions : tx'[r] = tx[r] \/ ReviewOf(tx'[r], payStatus', payOf', receipt')
    BY <1>1, <1>2 DEF ReviewOf, Reviews
  <2>4. \A r \in Sessions : tx'[r].op = "approve" => tx[r].op = "approve"
    BY <1>1, <1>2
  <2>5. \A p \in Transfers : receipt'[p] = "APPROVED" =>
          receipt[p] = "APPROVED" \/ \E r \in Sessions : tx[r].op = "approve" /\ tx'[r].op # "approve"
    BY <1>0, <1>1, <1>2, <1>4
  <2> QED
    BY <2>1, <2>2, <2>3, <2>4, <2>5 DEF ReviewsGoOn
<1>7. MoneyKept
  <2>1. \A b \in Orders : Approved(b) \subseteq Approved(b)'
    BY <1>0, <1>4, <1>5 DEF Approved, TransfersOf
  <2>2. q \in Approved(o)' /\ q \notin Approved(o)
    BY <1>0, <1>3, <1>4, <1>5 DEF Approved, TransfersOf
  <2>3. \A b \in Orders : invoices'[b] = IF b = o THEN invoices[b] + 1 ELSE invoices[b]
    BY <1>0, <1>t
  <2>4. \A b \in Orders : order'[b] = "PROCESSING" => order[b] = "PROCESSING" \/ b = o
    BY <1>0, <1>3, <1>p, SavedProcesses
  <2>5. \A b \in Orders : \/ invoices'[b] = invoices[b]
                          \/ /\ invoices'[b] = invoices[b] + 1
                             /\ \E p : p \in Approved(b)' /\ p \notin Approved(b)
    BY <2>2, <2>3
  <2>6. \A b \in Orders : order'[b] = "PROCESSING" => order[b] = "PROCESSING" \/ Approved(b)' # {}
    BY <2>2, <2>4
  <2> QED
    BY <2>1, <2>5, <2>6 DEF MoneyKept
<1> QED
  BY <1>6, <1>7

LEMMA TransferMoney ==
  ASSUME MoneyInv, NEW s \in Sessions, TransferStep(s)
  PROVE  ReviewsGoOn /\ MoneyKept
<1> DEFINE Goal == ReviewsGoOn /\ MoneyKept
<1>1. ASSUME NEW o \in Orders, BeginInitiate(s, o) PROVE Goal
  <2> DEFINE session == [Idle EXCEPT !.op = "initiate", !.order = o]
  <2>1. session.op \notin Reviews /\ Begin(s, session)
    BY <1>1 DEF BeginInitiate, Idle, Reviews
  <2> HIDE DEF session
  <2> QED
    BY <2>1, PlainBegin
<1>2. ASSUME NEW p \in Transfers, BeginUploadReceipt(s, p) \/ BeginReject(s, p) PROVE Goal
  <2>1. \A op : /\ TransferRead(op, p).op = op /\ TransferRead(op, p).pay = p
                /\ TransferRead(op, p).order = payOf[p]
    BY DEF TransferRead, Idle
  <2>2. PICK op \in {"uploadReceipt", "reject"} :
          Begin(s, TransferRead(op, p)) /\ payStatus[p] # "NONE" /\ receipt[p] # "APPROVED"
    BY <1>2 DEF BeginUploadReceipt, BeginReject
  <2>3. ReviewOf(TransferRead(op, p), payStatus, payOf, receipt)
    BY <2>1, <2>2 DEF ReviewOf
  <2> QED
    BY <2>2, <2>3, BeginReview
<1>3. ASSUME NEW p \in Transfers, BeginApprove(s, p) PROVE Goal
  <2> DEFINE session == [TransferRead("approve", p) EXCEPT
                           !.stock = stock, !.open = HasOpenCart(Owner[payOf[p]])]
  <2>1. /\ session.op = "approve" /\ session.pay = p /\ session.order = payOf[p]
        /\ session.receipt = receipt[p]
    BY DEF TransferRead, Idle
  <2>2. Begin(s, session) /\ payStatus[p] # "NONE" /\ receipt[p] = "UPLOADED"
    BY <1>3 DEF BeginApprove
  <2> HIDE DEF session
  <2>3. ReviewOf(session, payStatus, payOf, receipt)
    BY <2>1, <2>2 DEF ReviewOf
  <2> QED
    BY <2>2, <2>3, BeginReview
<1>4. ASSUME NEW p \in Transfers, CommitInitiate(s, p) PROVE Goal
  <2>t. /\ payStatus \in [Payments -> PaymentStatus \cup NoRow]
        /\ payOf \in [Payments -> Orders \cup {NoOrder}]
        /\ receipt \in [Payments -> CardToCardStatus \cup {"NONE"}]
    BY DEF MoneyInv, PromotionInv, IInv, Typed, TypeOK
  <2>1. /\ tx[s].op = "initiate" /\ End(s) /\ UNCHANGED << order, invoices >>
        /\ payStatus[p] = "NONE"
        /\ payOf' = [payOf EXCEPT ![p] = tx[s].order]
        /\ payStatus' = [payStatus EXCEPT ![p] = "PENDING"]
        /\ receipt' = [receipt EXCEPT ![p] = "PENDING"]
    BY <1>4 DEF CommitInitiate
  <2>2. \A r \in Sessions : tx'[r] = IF r = s THEN Idle ELSE tx[r]
    BY <2>1 DEF End, MoneyInv, PromotionInv, IInv, Typed, TypeOK
  <2>3. Idle.op = "idle"
    BY DEF Idle
  <2>4. \A q \in Transfers \ {p} : /\ payStatus'[q] = payStatus[q] /\ payOf'[q] = payOf[q]
                                   /\ receipt'[q] = receipt[q]
    BY <2>t, <2>1
  <2>5. ReviewsGoOn
    <3>1. TransfersStay
      BY <2>1, <2>4 DEF TransfersStay
    <3>2. \A q \in Transfers : payStatus'[q] # "NONE" => q \in Made \cup {p}
      BY <2>4 DEF Made
    <3>3. \A r \in Sessions : tx'[r] = tx[r] \/ ReviewOf(tx'[r], payStatus', payOf', receipt')
      BY <2>2, <2>3 DEF ReviewOf, Reviews
    <3>4. \A r \in Sessions : tx'[r].op = "approve" => tx[r].op = "approve"
      BY <2>2, <2>3
    <3>5. \A q \in Transfers : payStatus[q] # "NONE" /\ receipt'[q] = "APPROVED" =>
            receipt[q] = "APPROVED"
      BY <2>1, <2>4
    <3> QED
      BY <3>1, <3>2, <3>3, <3>4, <3>5 DEF ReviewsGoOn
  <2>6. MoneyKept
    <3>1. \A o \in Orders : Approved(o) \subseteq Approved(o)'
      BY <2>1, <2>4 DEF Approved, TransfersOf
    <3> QED
      BY <2>1, <3>1 DEF MoneyKept
  <2> QED
    BY <2>5, <2>6
<1>5. CASE CommitUploadReceipt(s) \/ CommitReject(s)
  <2>1. PICK rec \in {"UPLOADED", "REJECTED"}, status \in {"PENDING", "FAILED"} :
          SaveReceipt(s, rec, status)
    BY <1>5 DEF CommitUploadReceipt, CommitReject
  <2>2. /\ tx[s].op \in {"uploadReceipt", "reject"} /\ End(s) /\ UNCHANGED << payOf, invoices >>
        /\ SaveOrder(s, "PAYMENT_CONFIRMATION_PENDING") \/ SaveOrder(s, "AWAITING_PAYMENT")
    BY <1>5 DEF CommitUploadReceipt, CommitReject
  <2>3. tx[s].order \in Orders
    BY <2>2 DEF MoneyInv, PromotionInv, IInv, Typed, RowsKnown
  <2>4. \A o \in Orders : order'[o] = "PROCESSING" => order[o] = "PROCESSING"
    BY <2>2, <2>3, SavedProcesses
  <2> QED
    BY <2>1, <2>2, <2>4, ReceiptKept
<1>6. CASE CommitApprove(s)
  BY <1>6, ApprovalKept
<1> QED
  BY <1>1, <1>2, <1>3, <1>4, <1>5, <1>6 DEF TransferStep

LEMMA OrderMoney ==
  ASSUME MoneyInv, NEW s \in Sessions, OrderStep(s)
  PROVE  ReviewsGoOn /\ MoneyKept
<1> DEFINE Goal == ReviewsGoOn /\ MoneyKept
<1>1. ASSUME NEW o \in Orders, BeginCreateFromCard(s, o) PROVE Goal
  <2> DEFINE session(found) ==
               [Idle EXCEPT !.op = "createFromCard", !.order = o, !.batch = found]
  <2>1. \A found : session(found).op \notin Reviews
    BY DEF Idle, Reviews
  <2>2. \E found : Begin(s, session(found))
    BY <1>1 DEF BeginCreateFromCard
  <2> HIDE DEF session
  <2> QED
    BY <2>1, <2>2, PlainBegin
<1>2. ASSUME NEW o \in Orders, BeginAwaitingPayment(s, o) \/ BeginCancelOrder(s, o) PROVE Goal
  <2> DEFINE session(op) == [Idle EXCEPT !.op = op, !.order = o, !.status = order[o],
                                         !.open = HasOpenCart(Owner[o])]
  <2>1. \A op : session(op).op = op
    BY DEF Idle
  <2>2. Begin(s, session("awaitingPayment")) \/ Begin(s, session("cancelOrder"))
    BY <1>2 DEF BeginAwaitingPayment, BeginCancelOrder
  <2> HIDE DEF session
  <2> QED
    BY <2>1, <2>2, PlainBegin DEF Reviews
<1>3. ASSUME NEW u \in Users, BeginGetMyCard(s, u) PROVE Goal
  <2> DEFINE session == [Idle EXCEPT !.op = "getMyCard", !.batch = {u}]
  <2>1. session.op \notin Reviews /\ Begin(s, session)
    BY <1>3 DEF BeginGetMyCard, Idle, Reviews
  <2> HIDE DEF session
  <2> QED
    BY <2>1, PlainBegin
<1>4. CASE CommitCreateFromCard(s)
  <2> DEFINE batch == tx[s].batch
  <2>1. /\ tx[s].op = "createFromCard" /\ End(s) /\ UNCHANGED << payOf, receipt >>
        /\ order' = [o \in Orders |-> IF o = tx[s].order THEN "START_ORDER"
                                      ELSE IF o \in batch THEN "DELETED" ELSE order[o]]
        /\ payStatus' = [p \in Payments |->
             IF payOf[p] \in batch /\ payStatus[p] \notin NoRow THEN "DELETED" ELSE payStatus[p]]
        /\ invoices' = [o \in Orders |-> IF o \in batch THEN 0 ELSE invoices[o]]
    BY <1>4 DEF CommitCreateFromCard
  <2>2. \A r \in Sessions : tx'[r] = IF r = s THEN Idle ELSE tx[r]
    BY <2>1 DEF End, MoneyInv, PromotionInv, IInv, Typed, TypeOK
  <2>3. Idle.op = "idle"
    BY DEF Idle
  <2>4. ReviewsGoOn
    <3>1. TransfersStay
      BY <2>1 DEF TransfersStay
    <3>2. \A p \in Transfers : payStatus'[p] # "NONE" => p \in Made
      BY <2>1 DEF Made
    <3>3. \A r \in Sessions : tx'[r] = tx[r] \/ ReviewOf(tx'[r], payStatus', payOf', receipt')
      BY <2>2, <2>3 DEF ReviewOf, Reviews
    <3>4. \A r \in Sessions : tx'[r].op = "approve" => tx[r].op = "approve"
      BY <2>2, <2>3
    <3> QED
      BY <2>1, <3>1, <3>2, <3>3, <3>4 DEF ReviewsGoOn
  <2>5. MoneyKept
    <3>1. ASSUME NEW o \in Orders, NEW p \in Approved(o)
          PROVE  p \in Approved(o)' \/ (invoices'[o] = 0 /\ order'[o] # "PROCESSING")
      <4>1. CASE o \in batch
        BY <2>1, <4>1
      <4>2. CASE o \notin batch
        BY <2>1, <4>2 DEF Approved, TransfersOf
      <4> QED
        BY <4>1, <4>2
    <3>2. \A o \in Orders : invoices'[o] \in {0, invoices[o]}
      BY <2>1
    <3>3. \A o \in Orders : order'[o] = "PROCESSING" => order[o] = "PROCESSING"
      BY <2>1
    <3> QED
      BY <3>1, <3>2, <3>3 DEF MoneyKept
  <2> QED
    BY <2>4, <2>5
<1>5. CASE CommitAwaitingPayment(s) \/ CommitCancelOrder(s)
  <2>1. /\ tx[s].op \in {"awaitingPayment", "cancelOrder"} /\ End(s)
        /\ UNCHANGED << payOf, payStatus, receipt, invoices >>
        /\ SaveOrder(s, "AWAITING_PAYMENT") \/ SaveOrder(s, "CANCELLED")
    BY <1>5 DEF CommitAwaitingPayment, CommitCancelOrder
  <2>2. tx[s].order \in Orders
    BY <2>1 DEF MoneyInv, PromotionInv, IInv, Typed, RowsKnown
  <2> QED
    BY <2>1, <2>2, SavedProcesses, PlainEnd
<1>6. CASE CommitGetMyCard(s)
  BY <1>6, PlainEnd DEF CommitGetMyCard
<1>7. CASE Rollback(s)
  <2>1. End(s) /\ UNCHANGED << order, payOf, payStatus, receipt, invoices >>
    BY <1>7 DEF Rollback
  <2>2. \A r \in Sessions : tx'[r] = IF r = s THEN Idle ELSE tx[r]
    BY <2>1 DEF End, MoneyInv, PromotionInv, IInv, Typed, TypeOK
  <2>3. Idle.op = "idle"
    BY DEF Idle
  <2>4. ReviewsGoOn
    <3>1. TransfersStay
      BY <2>1 DEF TransfersStay
    <3>2. \A p \in Transfers : payStatus'[p] # "NONE" => p \in Made
      BY <2>1 DEF Made
    <3>3. \A r \in Sessions : tx'[r] = tx[r] \/ ReviewOf(tx'[r], payStatus', payOf', receipt')
      BY <2>2, <2>3 DEF ReviewOf, Reviews
    <3>4. \A r \in Sessions : tx'[r].op = "approve" => tx[r].op = "approve"
      BY <2>2, <2>3
    <3> QED
      BY <2>1, <3>1, <3>2, <3>3, <3>4 DEF ReviewsGoOn
  <2>5. MoneyKept
    <3>1. \A o \in Orders : Approved(o) \subseteq Approved(o)'
      BY <2>1 DEF Approved, TransfersOf
    <3> QED
      BY <2>1, <3>1 DEF MoneyKept
  <2> QED
    BY <2>4, <2>5
<1> QED
  BY <1>1, <1>2, <1>3, <1>4, <1>5, <1>6, <1>7 DEF OrderStep

LEMMA JobMoney ==
  ASSUME MoneyInv, NEW s \in Sessions, JobStep(s)
  PROVE  ReviewsGoOn /\ MoneyKept
<1>1. CASE BeginExpire(s)
  <2> DEFINE session(found) ==
               [Idle EXCEPT !.op = "expire", !.stock = stock, !.batch = found]
  <2>1. \A found : session(found).op \notin Reviews
    BY DEF Idle, Reviews
  <2>2. \E found : Begin(s, session(found))
    BY <1>1 DEF BeginExpire
  <2> HIDE DEF session
  <2> QED
    BY <2>1, <2>2, PlainBegin
<1>2. CASE BeginUnlockStuck(s)
  <2> DEFINE session(old) == [Idle EXCEPT !.op = "unlockStuck", !.batch = old]
  <2>1. \A old : session(old).op \notin Reviews
    BY DEF Idle, Reviews
  <2>2. \E old : Begin(s, session(old))
    BY <1>2 DEF BeginUnlockStuck
  <2> HIDE DEF session
  <2> QED
    BY <2>1, <2>2, PlainBegin
<1>3. ASSUME NEW o \in Orders, ExpireNext(s, o) PROVE ReviewsGoOn /\ MoneyKept
  <2> DEFINE next == [tx[s] EXCEPT !.stock = tx[s].stock + Qty[o], !.done = tx[s].done \cup {o}]
  <2>1. tx' = [tx EXCEPT ![s] = next] /\ UNCHANGED tables /\ tx[s].op = "expire"
    BY <1>3 DEF ExpireNext
  <2>2. next.op = "expire"
    BY <2>1 DEF MoneyInv, PromotionInv, IInv, Typed, TypeOK, Session
  <2> HIDE DEF next
  <2> QED
    BY <2>1, <2>2, PlainStep DEF Reviews
<1>4. CASE CommitExpire(s)
  <2>1. /\ tx[s].op = "expire" /\ End(s) /\ UNCHANGED << payOf, payStatus, receipt, invoices >>
        /\ \A o \in Orders : order'[o] = "PROCESSING" => order[o] = "PROCESSING"
    BY <1>4 DEF CommitExpire
  <2> QED
    BY <2>1, PlainEnd
<1>5. CASE CommitUnlockStuck(s)
  BY <1>5, PlainEnd DEF CommitUnlockStuck
<1> QED
  BY <1>1, <1>2, <1>3, <1>4, <1>5 DEF JobStep

LEMMA EnvironmentMoney ==
  ASSUME MoneyInv,
         \/ \E o \in Orders : Ages(o)
         \/ \E a \in Authorities : UserPays(a)
         \/ \E u \in Users : AddItem(u) \/ LockAnyCart(u) \/ CleanupAbandoned(u)
         \/ UNCHANGED vars
  PROVE  ReviewsGoOn /\ MoneyKept
<1>1. UNCHANGED << order, payOf, payStatus, receipt, invoices, tx >>
  BY DEF Ages, UserPays, AddItem, LockAnyCart, CleanupAbandoned
<1>2. ReviewsGoOn
  BY <1>1 DEF ReviewsGoOn, TransfersStay, Made
<1>3. \A o \in Orders : Approved(o) \subseteq Approved(o)'
  BY <1>1 DEF Approved, TransfersOf
<1> QED
  BY <1>1, <1>2, <1>3 DEF MoneyKept

LEMMA MoneyInit == Init => MoneyInv
<1> SUFFICES ASSUME Init PROVE MoneyInv
  OBVIOUS
<1>1. PromotionInv
  BY PromotionInit
<1>2. Made = {} /\ \A o \in Orders : Captured(o) = {} /\ Approved(o) = {}
  BY DEF Init, Made, Captured, Approved, TransfersOf
<1>3. ReviewsFit /\ ProcessedPaid
  BY DEF Init, ReviewsFit, ReviewOf, Reviews, Idle, ProcessedPaid
<1>4. ASSUME NEW o \in Orders
      PROVE invoices[o] <= Cardinality(Captured(o) \ HeardIn(Heard)) + Cardinality(Approved(o))
  <2>1. Captured(o) \ HeardIn(Heard) = {} /\ Approved(o) = {} /\ invoices[o] = 0
    BY <1>2 DEF Init
  <2> QED
    BY <2>1, FS_EmptySet
<1> QED
  BY <1>1, <1>2, <1>3, <1>4, FS_EmptySet DEF MoneyInv, InvoiceForEach

LEMMA MoneyNext ==
  ASSUME ReviewedAlone, MoneyInv, [Next]_vars
  PROVE  MoneyInv'
<1>1. PromotionInv' /\ Listens
  BY PromotionNext, EveryStepListens DEF MoneyInv
<1>2. ReviewsGoOn /\ MoneyKept
  BY OnlineMoney, TransferMoney, OrderMoney, JobMoney, EnvironmentMoney DEF Next
<1> QED
  BY <1>1, <1>2, MoneyStep

LEMMA MoneyInvBacks == MoneyInv => InvoicesBacked /\ FulfilmentPaid
<1> SUFFICES ASSUME MoneyInv PROVE InvoicesBacked /\ FulfilmentPaid
  OBVIOUS
<1>1. ASSUME NEW o \in Orders
      PROVE invoices[o] <= Cardinality(Captured(o)) + Cardinality(Approved(o))
  <2> DEFINE S == Captured(o) \ HeardIn(Heard)
             S2 == Captured(o)
             T == Approved(o)
  <2>1. IsFiniteSet(S2) /\ IsFiniteSet(T)
    <3>1. S2 \subseteq CapturedAll /\ T \subseteq Made
      BY DEF Captured, CapturedAll, Approved, TransfersOf, Made
    <3> QED
      BY <3>1, FS_Subset DEF MoneyInv, PromotionInv
  <2>2. invoices[o] \in Nat /\ invoices[o] <= Cardinality(S) + Cardinality(T)
    BY DEF MoneyInv, PromotionInv, IInv, Typed, TypeOK, InvoiceForEach
  <2>3. S \subseteq S2
    OBVIOUS
  <2> HIDE DEF S, S2, T
  <2>4. invoices[o] <= Cardinality(S2) + Cardinality(T)
    BY <2>1, <2>2, <2>3, ForEach
  <2> QED
    BY <2>4 DEF S2, T
<1>2. FulfilmentPaid
  BY DEF FulfilmentPaid, MoneyInv, ProcessedPaid, PromotionInv, IInv, TellsTruth
<1> QED
  BY <1>1, <1>2 DEF InvoicesBacked

\* An order never has more invoices than payments that were really made for it.
\* Online this holds whatever callbacks overlap, are rolled back in the middle
\* or go on without their transaction; where administrators approve transfers
\* it takes requests that do not overlap.
THEOREM InvoicesHaveMoney ==
  ASSUME ReviewedAlone PROVE Spec => []InvoicesBacked
<1>1. MoneyInv /\ [Next]_vars => MoneyInv'
  BY MoneyNext
<1>2. MoneyInv => InvoicesBacked
  BY MoneyInvBacks
<1> QED
  BY <1>1, <1>2, MoneyInit, PTL DEF Spec

\* An order that is prepared or processed has been paid, under the same
\* condition.
THEOREM FulfilmentHasMoney ==
  ASSUME ReviewedAlone PROVE Spec => []FulfilmentPaid
<1>1. MoneyInv /\ [Next]_vars => MoneyInv'
  BY MoneyNext
<1>2. MoneyInv => FulfilmentPaid
  BY MoneyInvBacks
<1> QED
  BY <1>1, <1>2, MoneyInit, PTL DEF Spec

\* Both at once, as the runs check them.
THEOREM MoneyIsBehindIt ==
  ASSUME ReviewedAlone PROVE Spec => []MoneyBacks
<1> QED
  BY InvoicesHaveMoney, FulfilmentHasMoney, PTL DEF MoneyBacks

-----------------------------------------------------------------------------
(***************************************************************************)
(* A successful payment stays successful when requests do not overlap,     *)
(* whichever handlers are called and however a payment and its order have  *)
(* got where they are.                                                     *)
(***************************************************************************)
Unplaced == { "NONE", "START_ORDER" }

\* What a session may rely on while it runs alone: the payment of a callback is
\* not successful, the order of a callback or of an approval has left
\* START_ORDER, and the orders to be deleted have not.
Knows(t, status, ord) ==
  /\ t.op \in Callback => status[t.pay] # "SUCCESS"
  /\ t.op \in Callback \cup {"approve"} => ord[t.order] \notin Unplaced
  /\ t.op = "createFromCard" => \A o \in t.batch : ord[o] = "START_ORDER"

SuccessPlaced ==
  /\ \A p \in Payments : payStatus[p] = "SUCCESS" => order[payOf[p]] \notin Unplaced
  /\ \A p \in Transfers : payStatus[p] = "SUCCESS" => receipt[p] = "APPROVED"
  /\ \A s \in Sessions : Knows(tx[s], payStatus, order)

FinalInv == MoneyInv /\ SuccessPlaced

\* What every step does to successful payments.
SuccessLasts ==
  /\ \A p \in Payments : payStatus[p] = "SUCCESS" =>
       payStatus'[p] = "SUCCESS" /\ payOf'[p] = payOf[p] /\ receipt'[p] = receipt[p]
  /\ \A p \in Payments : payStatus'[p] = "SUCCESS" /\ payStatus[p] # "SUCCESS" =>
       /\ payOf'[p] = payOf[p] /\ order[payOf[p]] \notin Unplaced
       /\ p \in Transfers => receipt'[p] = "APPROVED"
  /\ \A o \in Orders : order[o] \notin Unplaced => order'[o] \notin Unplaced
  /\ \A s \in Sessions : Knows(tx'[s], payStatus', order')

LEMMA FinalStep ==
  ASSUME FinalInv, MoneyInv', SuccessLasts
  PROVE  FinalInv'
<1>1. ASSUME NEW p \in Payments, payStatus'[p] = "SUCCESS" PROVE order'[payOf'[p]] \notin Unplaced
  <2>1. payOf'[p] = payOf[p] /\ order[payOf[p]] \notin Unplaced
    BY <1>1 DEF SuccessLasts, FinalInv, SuccessPlaced
  <2>2. payOf[p] \in Orders
    <3>1. payOf'[p] \in Orders
      BY <1>1 DEF MoneyInv, PromotionInv, IInv, Typed, RowsKnown
    <3> QED
      BY <2>1, <3>1
  <2> QED
    BY <2>1, <2>2 DEF SuccessLasts
<1>2. \A p \in Transfers : payStatus'[p] = "SUCCESS" => receipt'[p] = "APPROVED"
  BY DEF SuccessLasts, FinalInv, SuccessPlaced
<1> QED
  BY <1>1, <1>2 DEF SuccessLasts, FinalInv, SuccessPlaced

\* The session that moves is the only one.
LEMMA AloneStep ==
  ASSUME FinalInv, Serial, NEW s \in Sessions, NEW next, tx' = [tx EXCEPT ![s] = next]
  PROVE  \A r \in Sessions : tx'[r] = next
  BY DEF Serial, FinalInv, MoneyInv, PromotionInv, IInv, Typed, TypeOK

LEMMA UnpaidStep ==
  ASSUME FinalInv, Serial, NEW s \in Sessions, NEW next, tx' = [tx EXCEPT ![s] = next],
         Knows(next, payStatus', order'), UNCHANGED << payOf, payStatus, receipt >>,
         \A o \in Orders : order[o] \notin Unplaced => order'[o] \notin Unplaced
  PROVE  SuccessLasts
  BY AloneStep DEF SuccessLasts

LEMMA BeginLasts ==
  ASSUME FinalInv, Serial, NEW s \in Sessions, NEW session, Begin(s, session),
         Knows(session, payStatus, order)
  PROVE  SuccessLasts
<1>1. /\ tx' = [tx EXCEPT ![s] = session] /\ UNCHANGED << order, payOf, payStatus, receipt >>
  BY DEF Begin
<1> QED
  BY <1>1, UnpaidStep DEF Knows

LEMMA IdleKnows == \A status, ord : Knows(Idle, status, ord)
  BY DEF Knows, Idle, Callback

LEMMA EndKnows ==
  ASSUME FinalInv, Serial, NEW s \in Sessions, End(s)
  PROVE  \A r \in Sessions : Knows(tx'[r], payStatus', order')
<1>1. \A r \in Sessions : tx'[r] = Idle
  BY AloneStep DEF End
<1>2. Knows(Idle, payStatus', order')
  BY IdleKnows
<1> QED
  BY <1>1, <1>2

LEMMA EndUnpaid ==
  ASSUME FinalInv, Serial, NEW s \in Sessions, End(s), UNCHANGED << payOf, payStatus, receipt >>,
         \A o \in Orders : order[o] \notin Unplaced => order'[o] \notin Unplaced
  PROVE  SuccessLasts
  BY IdleKnows, UnpaidStep DEF End

\* A session ends that has written its payment p, which was not successful.
LEMMA EndPaid ==
  ASSUME FinalInv, Serial, NEW s \in Sessions, End(s), NEW p \in Payments,
         payStatus[p] # "SUCCESS", UNCHANGED payOf,
         \A q \in Payments \ {p} : payStatus'[q] = payStatus[q] /\ receipt'[q] = receipt[q],
         payStatus'[p] = "SUCCESS" => /\ order[payOf[p]] \notin Unplaced
                                      /\ p \in Transfers => receipt'[p] = "APPROVED",
         \A o \in Orders : order[o] \notin Unplaced => order'[o] \notin Unplaced
  PROVE  SuccessLasts
<1>1. \A r \in Sessions : Knows(tx'[r], payStatus', order')
  BY EndKnows
<1> QED
  BY <1>1 DEF SuccessLasts

\* The status an order row gets by save.
LEMMA SavedPlaced ==
  ASSUME FinalInv, NEW s \in Sessions, NEW new \in OrderStatus \ {"START_ORDER"}, SaveOrder(s, new)
  PROVE  \A o \in Orders : order[o] \notin Unplaced => order'[o] \notin Unplaced
  BY DEF SaveOrder, Saved, FinalInv, MoneyInv, PromotionInv, IInv, Typed, TypeOK, Unplaced,
     OrderStatus

LEMMA SavedPayment ==
  ASSUME FinalInv, NEW s \in Sessions, NEW new, SavePayment(s, new)
  PROVE  /\ \A q \in Payments \ {tx[s].pay} : payStatus'[q] = payStatus[q]
         /\ tx[s].pay \in Payments => payStatus'[tx[s].pay] \in {payStatus[tx[s].pay], new}
  BY DEF SavePayment, Saved, FinalInv, MoneyInv, PromotionInv, IInv, Typed, TypeOK

LEMMA OnlineLasts ==
  ASSUME FinalInv, Serial, NEW s \in Sessions, OnlineStep(s)
  PROVE  SuccessLasts
<1>0. tx[s].reply # "none" => tx[s].op \in Callback
  BY DEF FinalInv, MoneyInv, PromotionInv, IInv, Typed, RowsKnown, Callback
<1>0a. tx[s].op \in Callback =>
         /\ tx[s].order \in Orders /\ tx[s].pay \in Authorities /\ tx[s].pay \in Payments
         /\ payOf[tx[s].pay] = tx[s].order /\ payStatus[tx[s].pay] # "SUCCESS"
         /\ order[tx[s].order] \notin Unplaced
  BY DEF FinalInv, MoneyInv, PromotionInv, IInv, Typed, RowsKnown, TellsTruth, Told, ToldBy,
     Callback, SuccessPlaced, Knows
<1>t. /\ payStatus \in [Payments -> PaymentStatus \cup NoRow] /\ tx \in [Sessions -> Session]
      /\ payOf \in [Payments -> Orders \cup {NoOrder}]
  BY DEF FinalInv, MoneyInv, PromotionInv, IInv, Typed, TypeOK
<1>d. Authorities \cap Transfers = {}
  BY CheckoutAssumption
<1>1. ASSUME NEW o \in Orders, BeginCreatePayment(s, o) PROVE SuccessLasts
  <2> DEFINE session == [Idle EXCEPT !.op = "createPayment", !.order = o,
                                     !.status = order[o], !.stock = stock]
  <2>1. session.op = "createPayment" /\ Begin(s, session)
    BY <1>1 DEF BeginCreatePayment, Idle
  <2> HIDE DEF session
  <2> QED
    BY <2>1, BeginLasts DEF Knows, Callback
<1>2. ASSUME NEW a \in Authorities, BeginVerify(s, a) \/ BeginUserCancel(s, a) PROVE SuccessLasts
  <2>1. PICK op \in Callback : BeginCallback(s, a, op)
    BY <1>2 DEF BeginVerify, BeginUserCancel, Callback
  <2> DEFINE session == [Idle EXCEPT !.op = op, !.order = payOf[a], !.pay = a,
                !.status = order[payOf[a]], !.payStatus = payStatus[a],
                !.open = op = "verifyPayment" /\ HasOpenCart(Owner[payOf[a]])]
  <2>2. /\ session.op = op /\ session.pay = a /\ session.order = payOf[a] /\ Begin(s, session)
        /\ payStatus[a] # "SUCCESS" /\ order[payOf[a]] \in Verifiable
    BY <2>1 DEF BeginCallback, Idle
  <2> HIDE DEF session
  <2>3. Knows(session, payStatus, order)
    BY <2>2 DEF Knows, Callback, Verifiable, Unplaced
  <2> QED
    BY <2>2, <2>3, BeginLasts
<1>3. ASSUME NEW a \in Authorities, GatewayIssues(s, a) PROVE SuccessLasts
  <2> DEFINE next == [tx[s] EXCEPT !.pay = a]
  <2>1. tx' = [tx EXCEPT ![s] = next] /\ UNCHANGED tables /\ tx[s].op = "createPayment"
    BY <1>3 DEF GatewayIssues
  <2>2. next.op = "createPayment"
    BY <1>t, <2>1 DEF Session
  <2> HIDE DEF next
  <2> QED
    BY <2>1, <2>2, UnpaidStep DEF Knows, Callback
<1>4. CASE CommitCreatePayment(s)
  <2>1. /\ Waits(tx[s]) /\ End(s) /\ UNCHANGED receipt
        /\ SaveOrder(s, "AWAITING_PAYMENT")
        /\ payOf' = [payOf EXCEPT ![tx[s].pay] = tx[s].order]
        /\ payStatus' = [payStatus EXCEPT ![tx[s].pay] = "IN_PROGRESS"]
    BY <1>4 DEF CommitCreatePayment, Waits
  <2>2. tx[s].pay \in Authorities /\ payOf[tx[s].pay] = NoOrder
    BY <2>1 DEF FinalInv, MoneyInv, PromotionInv, IInv, TellsTruth, Told, ToldBy
  <2>3. payStatus[tx[s].pay] # "SUCCESS"
    BY <2>2, CheckoutAssumption DEF FinalInv, MoneyInv, PromotionInv, IInv, Typed, RowsKnown
  <2>4. \A o \in Orders : order[o] \notin Unplaced => order'[o] \notin Unplaced
    BY <2>1, SavedPlaced DEF OrderStatus
  <2>5. \A r \in Sessions : Knows(tx'[r], payStatus', order')
    BY <2>1, EndKnows
  <2>6. \A p \in Payments : \/ payStatus'[p] = payStatus[p] /\ payOf'[p] = payOf[p]
                            \/ p = tx[s].pay /\ payStatus'[p] = "IN_PROGRESS"
    BY <1>t, <2>1, <2>2
  <2> QED
    BY <2>1, <2>3, <2>4, <2>5, <2>6 DEF SuccessLasts
<1>5. ASSUME \/ \E reply \in {"100", "101", "other", "error"} : GatewayVerifies(s, reply)
             \/ LogCallback(s) \/ CountPromotion(s) \/ LosesDeadlock(s) \/ LosesCartDeadlock(s)
      PROVE SuccessLasts
  <2>1. PICK reply : tx' = [tx EXCEPT ![s].reply = reply]
    BY <1>5 DEF GatewayVerifies, LogCallback, CountPromotion, LosesDeadlock, LosesCartDeadlock
  <2>2. UNCHANGED << order, payOf, payStatus, receipt >>
    BY <1>5 DEF GatewayVerifies, LogCallback, CountPromotion, LosesDeadlock, LosesCartDeadlock
  <2>3. tx[s].op \in Callback
    BY <1>0, <1>5
    DEF GatewayVerifies, LogCallback, CountPromotion, LosesDeadlock, LosesCartDeadlock, Callback
  <2> DEFINE next == [tx[s] EXCEPT !.reply = reply]
  <2>4. /\ tx' = [tx EXCEPT ![s] = next] /\ next.op = tx[s].op /\ next.pay = tx[s].pay
        /\ next.order = tx[s].order
    BY <1>t, <2>1 DEF Session
  <2> HIDE DEF next
  <2>5. Knows(next, payStatus', order')
    BY <1>0a, <2>2, <2>3, <2>4 DEF Knows, Callback
  <2> QED
    BY <2>2, <2>4, <2>5, UnpaidStep
<1>6. CASE CommitVerified(s) \/ CommitOrphaned(s)
  <2>1. tx[s].op \in Callback /\ End(s) /\ UNCHANGED << payOf, receipt >>
    BY <1>0, <1>6 DEF CommitVerified, CommitOrphaned
  <2>2. \A q \in Payments \ {tx[s].pay} : payStatus'[q] = payStatus[q]
    BY <1>6, <1>t DEF CommitVerified, CommitOrphaned, InvoiceOrVerified
  <2>3. \A o \in Orders : order[o] \notin Unplaced => order'[o] \notin Unplaced
    BY <1>6, SavedPlaced DEF CommitVerified, CommitOrphaned, OrderStatus
  <2> QED
    BY <1>0a, <1>d, <2>1, <2>2, <2>3, EndPaid
<1>7. CASE CommitAlreadyVerified(s) \/ VerifyThrows(s)
  <2>1. End(s) /\ UNCHANGED << payOf, payStatus, receipt >>
    BY <1>7 DEF CommitAlreadyVerified, VerifyThrows
  <2>2. \A o \in Orders : order[o] \notin Unplaced => order'[o] \notin Unplaced
    BY <1>7, SavedPlaced DEF CommitAlreadyVerified, VerifyThrows, OrderStatus
  <2> QED
    BY <2>1, <2>2, EndUnpaid
<1>8. CASE CommitRefused(s) \/ CommitUserCancel(s) \/ RecordsFailed(s)
  <2>1. tx[s].op \in Callback /\ End(s) /\ UNCHANGED << payOf, receipt >>
    BY <1>0, <1>8 DEF CommitRefused, CommitUserCancel, RecordsFailed, Callback
  <2>2. \A q \in Payments \ {tx[s].pay} : payStatus'[q] = payStatus[q]
    BY <1>8, <1>t, SavedPayment DEF CommitRefused, CommitUserCancel, RecordsFailed
  <2>3. \A o \in Orders : order[o] \notin Unplaced => order'[o] \notin Unplaced
    BY <1>8, SavedPlaced DEF CommitRefused, CommitUserCancel, RecordsFailed, OrderStatus
  <2> QED
    BY <1>0a, <1>d, <2>1, <2>2, <2>3, EndPaid
<1> QED
  BY <1>1, <1>2, <1>3, <1>4, <1>5, <1>6, <1>7, <1>8 DEF OnlineStep

LEMMA TransferLasts ==
  ASSUME FinalInv, Serial, NEW s \in Sessions, TransferStep(s)
  PROVE  SuccessLasts
<1>t. /\ payStatus \in [Payments -> PaymentStatus \cup NoRow] /\ tx \in [Sessions -> Session]
      /\ payOf \in [Payments -> Orders \cup {NoOrder}]
      /\ receipt \in [Payments -> CardToCardStatus \cup {"NONE"}]
  BY DEF FinalInv, MoneyInv, PromotionInv, IInv, Typed, TypeOK
<1>1. ASSUME NEW o \in Orders, BeginInitiate(s, o) PROVE SuccessLasts
  <2> DEFINE session == [Idle EXCEPT !.op = "initiate", !.order = o]
  <2>1. session.op = "initiate" /\ Begin(s, session)
    BY <1>1 DEF BeginInitiate, Idle
  <2> HIDE DEF session
  <2> QED
    BY <2>1, BeginLasts DEF Knows, Callback
<1>2. ASSUME NEW p \in Transfers, BeginUploadReceipt(s, p) \/ BeginReject(s, p) PROVE SuccessLasts
  <2>1. \A op : TransferRead(op, p).op = op
    BY DEF TransferRead, Idle
  <2>2. Begin(s, TransferRead("uploadReceipt", p)) \/ Begin(s, TransferRead("reject", p))
    BY <1>2 DEF BeginUploadReceipt, BeginReject
  <2> QED
    BY <2>1, <2>2, BeginLasts DEF Knows, Callback
<1>3. ASSUME NEW p \in Transfers, BeginApprove(s, p) PROVE SuccessLasts
  <2> DEFINE session == [TransferRead("approve", p) EXCEPT
                           !.stock = stock, !.open = HasOpenCart(Owner[payOf[p]])]
  <2>1. session.op = "approve" /\ session.order = payOf[p]
    BY DEF TransferRead, Idle
  <2>2. Begin(s, session) /\ order[payOf[p]] = "PAYMENT_CONFIRMATION_PENDING"
    BY <1>3 DEF BeginApprove
  <2> HIDE DEF session
  <2> QED
    BY <2>1, <2>2, BeginLasts DEF Knows, Callback, Unplaced
<1>4. ASSUME NEW p \in Transfers, CommitInitiate(s, p) PROVE SuccessLasts
  <2>1. /\ End(s) /\ UNCHANGED order /\ payStatus[p] = "NONE"
        /\ payOf' = [payOf EXCEPT ![p] = tx[s].order]
        /\ payStatus' = [payStatus EXCEPT ![p] = "PENDING"]
        /\ receipt' = [receipt EXCEPT ![p] = "PENDING"]
    BY <1>4 DEF CommitInitiate
  <2>2. \A r \in Sessions : Knows(tx'[r], payStatus', order')
    BY <2>1, EndKnows
  <2>3. \A q \in Payments : \/ /\ payStatus'[q] = payStatus[q] /\ payOf'[q] = payOf[q]
                               /\ receipt'[q] = receipt[q]
                            \/ q = p /\ payStatus'[q] = "PENDING"
    BY <1>t, <2>1
  <2> QED
    BY <2>1, <2>2, <2>3 DEF SuccessLasts
<1>5. CASE CommitUploadReceipt(s) \/ CommitReject(s) \/ CommitApprove(s)
  <2> DEFINE p == tx[s].pay
  <2>1. PICK rec \in CardToCardStatus, status \in PaymentStatus :
          /\ SaveReceipt(s, rec, status)
          /\ status = "SUCCESS" => tx[s].op = "approve" /\ rec = "APPROVED"
    BY <1>5 DEF CommitUploadReceipt, CommitReject, CommitApprove, CardToCardStatus, PaymentStatus
  <2>2. tx[s].op \in Reviews /\ End(s) /\ UNCHANGED payOf
    BY <1>5 DEF CommitUploadReceipt, CommitReject, CommitApprove, Reviews
  <2>3. /\ p \in Transfers /\ p \in Payments /\ receipt[p] # "APPROVED" /\ payOf[p] = tx[s].order
        /\ payStatus[p] # "SUCCESS" /\ (tx[s].op = "approve" => tx[s].receipt = "UPLOADED")
    BY <2>2 DEF FinalInv, MoneyInv, ReviewsFit, ReviewOf, SuccessPlaced
  <2>4. \A o \in Orders : order[o] \notin Unplaced => order'[o] \notin Unplaced
    BY <1>5, SavedPlaced DEF CommitUploadReceipt, CommitReject, CommitApprove, OrderStatus
  <2>5. \A q \in Payments \ {p} : payStatus'[q] = payStatus[q] /\ receipt'[q] = receipt[q]
    BY <1>t, <2>1, SavedPayment DEF SaveReceipt
  <2>6. payStatus'[p] = "SUCCESS" => tx[s].op = "approve" /\ rec = "APPROVED"
    BY <2>1, <2>3, SavedPayment DEF SaveReceipt
  <2>7. payStatus'[p] = "SUCCESS" => receipt'[p] = "APPROVED"
    BY <1>t, <2>1, <2>3, <2>6 DEF SaveReceipt
  <2>8. tx[s].op = "approve" => order[payOf[p]] \notin Unplaced
    BY <2>3 DEF FinalInv, SuccessPlaced, Knows
  <2> HIDE DEF p
  <2> QED
    BY <2>2, <2>3, <2>4, <2>5, <2>6, <2>7, <2>8, EndPaid
<1> QED
  BY <1>1, <1>2, <1>3, <1>4, <1>5 DEF TransferStep

LEMMA OrderLasts ==
  ASSUME FinalInv, Serial, NEW s \in Sessions, OrderStep(s)
  PROVE  SuccessLasts
<1>1. ASSUME NEW o \in Orders, BeginCreateFromCard(s, o) PROVE SuccessLasts
  <2> DEFINE session(found) ==
               [Idle EXCEPT !.op = "createFromCard", !.order = o, !.batch = found]
  <2>1. \A found : session(found).op = "createFromCard" /\ session(found).batch = found
    BY DEF Idle
  <2>2. \E found \in SUBSET StartedOrders(Owner[o]) : Begin(s, session(found))
    BY <1>1 DEF BeginCreateFromCard
  <2> HIDE DEF session
  <2>3. \A found \in SUBSET StartedOrders(Owner[o]) : Knows(session(found), payStatus, order)
    BY <2>1 DEF Knows, Callback, StartedOrders
  <2> QED
    BY <2>2, <2>3, BeginLasts
<1>2. ASSUME NEW o \in Orders, BeginAwaitingPayment(s, o) \/ BeginCancelOrder(s, o)
      PROVE SuccessLasts
  <2> DEFINE session(op) == [Idle EXCEPT !.op = op, !.order = o, !.status = order[o],
                                         !.open = HasOpenCart(Owner[o])]
  <2>1. \A op : session(op).op = op
    BY DEF Idle
  <2>2. Begin(s, session("awaitingPayment")) \/ Begin(s, session("cancelOrder"))
    BY <1>2 DEF BeginAwaitingPayment, BeginCancelOrder
  <2> HIDE DEF session
  <2> QED
    BY <2>1, <2>2, BeginLasts DEF Knows, Callback
<1>3. ASSUME NEW u \in Users, BeginGetMyCard(s, u) PROVE SuccessLasts
  <2> DEFINE session == [Idle EXCEPT !.op = "getMyCard", !.batch = {u}]
  <2>1. session.op = "getMyCard" /\ Begin(s, session)
    BY <1>3 DEF BeginGetMyCard, Idle
  <2> HIDE DEF session
  <2> QED
    BY <2>1, BeginLasts DEF Knows, Callback
\* The payments that are deleted belong to orders in START_ORDER.
<1>4. CASE CommitCreateFromCard(s)
  <2> DEFINE batch == tx[s].batch
  <2>1. /\ tx[s].op = "createFromCard" /\ End(s) /\ UNCHANGED << payOf, receipt >>
        /\ order[tx[s].order] = "NONE"
        /\ order' = [o \in Orders |-> IF o = tx[s].order THEN "START_ORDER"
                                      ELSE IF o \in batch THEN "DELETED" ELSE order[o]]
        /\ payStatus' = [p \in Payments |->
             IF payOf[p] \in batch /\ payStatus[p] \notin NoRow THEN "DELETED" ELSE payStatus[p]]
    BY <1>4 DEF CommitCreateFromCard
  <2>2. \A o \in batch : order[o] = "START_ORDER"
    BY <2>1 DEF FinalInv, SuccessPlaced, Knows
  <2>3. \A p \in Payments : payStatus[p] = "SUCCESS" => payOf[p] \notin batch
    BY <2>2 DEF FinalInv, SuccessPlaced, Unplaced
  <2>4. \A r \in Sessions : Knows(tx'[r], payStatus', order')
    BY <2>1, EndKnows
  <2>5. \A o \in Orders : order[o] \notin Unplaced => order'[o] \notin Unplaced
    BY <2>1 DEF Unplaced
  <2> QED
    BY <2>1, <2>3, <2>4, <2>5 DEF SuccessLasts
<1>5. CASE CommitAwaitingPayment(s) \/ CommitCancelOrder(s) \/ CommitGetMyCard(s) \/ Rollback(s)
  <2>1. End(s) /\ UNCHANGED << payOf, payStatus, receipt >>
    BY <1>5 DEF CommitAwaitingPayment, CommitCancelOrder, CommitGetMyCard, Rollback
  <2>2. \A o \in Orders : order[o] \notin Unplaced => order'[o] \notin Unplaced
    BY <1>5, SavedPlaced
    DEF CommitAwaitingPayment, CommitCancelOrder, CommitGetMyCard, Rollback, OrderStatus
  <2> QED
    BY <2>1, <2>2, EndUnpaid
<1> QED
  BY <1>1, <1>2, <1>3, <1>4, <1>5 DEF OrderStep

LEMMA JobLasts ==
  ASSUME FinalInv, Serial, NEW s \in Sessions, JobStep(s)
  PROVE  SuccessLasts
<1>1. CASE BeginExpire(s)
  <2> DEFINE session(found) ==
               [Idle EXCEPT !.op = "expire", !.stock = stock, !.batch = found]
  <2>1. \A found : session(found).op = "expire"
    BY DEF Idle
  <2>2. \E found : Begin(s, session(found))
    BY <1>1 DEF BeginExpire
  <2> HIDE DEF session
  <2> QED
    BY <2>1, <2>2, BeginLasts DEF Knows, Callback
<1>2. CASE BeginUnlockStuck(s)
  <2> DEFINE session(old) == [Idle EXCEPT !.op = "unlockStuck", !.batch = old]
  <2>1. \A old : session(old).op = "unlockStuck"
    BY DEF Idle
  <2>2. \E old : Begin(s, session(old))
    BY <1>2 DEF BeginUnlockStuck
  <2> HIDE DEF session
  <2> QED
    BY <2>1, <2>2, BeginLasts DEF Knows, Callback
<1>3. ASSUME NEW o \in Orders, ExpireNext(s, o) PROVE SuccessLasts
  <2> DEFINE next == [tx[s] EXCEPT !.stock = tx[s].stock + Qty[o], !.done = tx[s].done \cup {o}]
  <2>1. tx' = [tx EXCEPT ![s] = next] /\ UNCHANGED tables /\ tx[s].op = "expire"
    BY <1>3 DEF ExpireNext
  <2>2. next.op = "expire"
    BY <2>1 DEF FinalInv, MoneyInv, PromotionInv, IInv, Typed, TypeOK, Session
  <2> HIDE DEF next
  <2> QED
    BY <2>1, <2>2, UnpaidStep DEF Knows, Callback
<1>4. CASE CommitExpire(s)
  <2>1. /\ End(s) /\ UNCHANGED << payOf, payStatus, receipt >>
        /\ \A o \in Orders : order[o] \notin Unplaced => order'[o] \notin Unplaced
    BY <1>4 DEF CommitExpire, Unplaced
  <2> QED
    BY <2>1, EndUnpaid
<1>5. CASE CommitUnlockStuck(s)
  BY <1>5, EndUnpaid DEF CommitUnlockStuck
<1> QED
  BY <1>1, <1>2, <1>3, <1>4, <1>5 DEF JobStep

LEMMA EnvironmentLasts ==
  ASSUME FinalInv,
         \/ \E o \in Orders : Ages(o)
         \/ \E a \in Authorities : UserPays(a)
         \/ \E u \in Users : AddItem(u) \/ LockAnyCart(u) \/ CleanupAbandoned(u)
         \/ UNCHANGED vars
  PROVE  SuccessLasts
<1>1. UNCHANGED << order, payOf, payStatus, receipt, tx >>
  BY DEF Ages, UserPays, AddItem, LockAnyCart, CleanupAbandoned
<1> QED
  BY <1>1 DEF SuccessLasts, FinalInv, SuccessPlaced

LEMMA FinalInit == Init => FinalInv
<1> SUFFICES ASSUME Init PROVE FinalInv
  OBVIOUS
<1>1. MoneyInv
  BY MoneyInit
<1>2. SuccessPlaced
  BY IdleKnows DEF Init, SuccessPlaced
<1> QED
  BY <1>1, <1>2 DEF FinalInv

LEMMA FinalNext ==
  ASSUME Serial, FinalInv, [Next]_vars
  PROVE  FinalInv' /\ SuccessLasts
<1>1. MoneyInv'
  BY MoneyNext DEF FinalInv, ReviewedAlone
<1>2. SuccessLasts
  BY OnlineLasts, TransferLasts, OrderLasts, JobLasts, EnvironmentLasts DEF Next
<1> QED
  BY <1>1, <1>2, FinalStep

\* A payment that was accepted is never refused, cancelled, reviewed again or
\* deleted: while a callback or a review runs its payment is not successful, an
\* approved transfer takes no other receipt, and only orders that never left
\* START_ORDER lose their payments.
THEOREM SuccessStays ==
  ASSUME Serial PROVE Spec => SuccessIsFinal
<1>1. FinalInv /\ [Next]_vars => FinalInv'
  BY FinalNext
<1>2. FinalInv /\ [Next]_vars =>
        [\A p \in Payments : payStatus[p] = "SUCCESS" => payStatus'[p] = "SUCCESS"]_vars
  BY FinalNext DEF SuccessLasts
<1> QED
  BY <1>1, <1>2, FinalInit, PTL DEF Spec, SuccessIsFinal

-----------------------------------------------------------------------------
(***************************************************************************)
(* Without overlapping requests the shop promises no unit twice, accepts   *)
(* one payment of an order and never reopens a closed order - unless       *)
(* awaitingPayment or uploadReceipt is called, which take orders in any    *)
(* status back to one that can be paid.                                    *)
(***************************************************************************)
OrderlyShop == Serial /\ {"awaitingPayment", "uploadReceipt"} \cap Handlers = {}

Known == { "NONE", "DELETED", "START_ORDER", "AWAITING_PAYMENT", "PAYMENT_CONFIRMATION_PENDING",
           "PREPARING", "CANCELLED", "EXPIRED" }

Settled(p) == payStatus[p] \in {"SUCCESS", "VERIFIED"}

HoldingIn(ord) ==
  { o \in Orders : ord[o] \in { "AWAITING_PAYMENT", "PAYMENT_CONFIRMATION_PENDING",
                                "PREPARING", "PROCESSING" } }

\* What a session has read is what the tables hold, and the units an expiry has
\* given back so far are of orders it is going to close.
Fresh(t, ord, left) ==
  /\ t.op \in Callback \cup {"createPayment", "cancelOrder"} => t.status = ord[t.order]
  /\ t.op \in Callback => t.status \in Verifiable
  /\ t.op = "createPayment" => t.status \in Payable /\ t.stock = left
  /\ t.op = "cancelOrder" => t.status \in Cancellable
  /\ t.op = "createFromCard" => \A o \in t.batch : ord[o] = "START_ORDER"
  /\ t.op = "expire" =>
       /\ t.done \subseteq t.batch
       /\ \A o \in t.batch : o \in Orders /\ ord[o] = "AWAITING_PAYMENT"
       /\ t.stock + Cardinality(Units(HoldingIn(ord) \ t.done)) <= InitialStock
  /\ t.op \notin Reviews \cup {"awaitingPayment"}
  /\ t.reply \notin {"lost", "orphaned"}

UnitsFit(ord, left) ==
  /\ IsFiniteSet(Units(HoldingIn(ord)))
  /\ left + Cardinality(Units(HoldingIn(ord))) <= InitialStock

\* An order of which a payment was accepted is prepared, or was and is
\* cancelled, so no other payment of it can be verified.
SettledApart ==
  /\ \A p \in Payments : Settled(p) => order[payOf[p]] \in {"PREPARING", "CANCELLED"}
  /\ \A p, q \in Payments : Settled(p) /\ Settled(q) /\ payOf[p] = payOf[q] => p = q

ShopInv ==
  /\ IInv
  /\ UnitsFit(order, stock)
  /\ \A s \in Sessions : Fresh(tx[s], order, stock)
  /\ \A o \in Orders : order[o] \in Known
  /\ \A p \in Transfers : receipt[p] # "UPLOADED"
  /\ SettledApart

\* What every step does to orders and payments: a payment that is accepted now
\* is the payment of an order that could be paid.
OrdersGoOn ==
  /\ \A o \in Orders : order'[o] \in Known
  /\ \A o \in Orders : order[o] \in {"EXPIRED", "CANCELLED"} => order'[o] = order[o]
  /\ \A o \in Orders : order[o] = "PREPARING" => order'[o] \in {"PREPARING", "CANCELLED"}

PaymentsGoOn ==
  /\ \A p \in Transfers : receipt'[p] # "UPLOADED"
  /\ \A p \in Payments : payStatus'[p] \in {"SUCCESS", "VERIFIED"} => payOf'[p] = payOf[p]
  /\ \/ \A p \in Payments : payStatus'[p] \in {"SUCCESS", "VERIFIED"} => Settled(p)
     \/ \E a \in Authorities :
          /\ order[payOf[a]] \in Verifiable /\ order'[payOf[a]] = "PREPARING"
          /\ \A p \in Payments \ {a} : payStatus'[p] \in {"SUCCESS", "VERIFIED"} => Settled(p)

LEMMA ShopStep ==
  ASSUME ShopInv, IInv', OrdersGoOn, PaymentsGoOn, UnitsFit(order', stock'),
         \A s \in Sessions : Fresh(tx'[s], order', stock')
  PROVE  ShopInv'
<1>0. \A p \in Payments : payStatus'[p] \in {"SUCCESS", "VERIFIED"} => payOf[p] \in Orders
  BY DEF PaymentsGoOn, IInv, Typed, RowsKnown
<1>1. SettledApart'
  <2>1. CASE \A p \in Payments : payStatus'[p] \in {"SUCCESS", "VERIFIED"} => Settled(p)
    BY <1>0, <2>1 DEF ShopInv, SettledApart, Settled, OrdersGoOn, PaymentsGoOn
  <2>2. ASSUME NEW a \in Authorities, order[payOf[a]] \in Verifiable,
               order'[payOf[a]] = "PREPARING",
               \A p \in Payments \ {a} : payStatus'[p] \in {"SUCCESS", "VERIFIED"} => Settled(p)
        PROVE SettledApart'
    <3>1. \A p \in Payments : Settled(p) => payOf[p] # payOf[a]
      BY <2>2 DEF ShopInv, SettledApart, Verifiable
    <3>2. \A p \in Payments : Settled(p)' => order'[payOf'[p]] \in {"PREPARING", "CANCELLED"}
      BY <1>0, <2>2 DEF ShopInv, SettledApart, Settled, OrdersGoOn, PaymentsGoOn
    <3>3. \A p, q \in Payments : Settled(p)' /\ Settled(q)' /\ payOf'[p] = payOf'[q] => p = q
      BY <2>2, <3>1 DEF ShopInv, SettledApart, Settled, PaymentsGoOn
    <3> QED
      BY <3>2, <3>3 DEF SettledApart
  <2> QED
    BY <2>1, <2>2 DEF PaymentsGoOn
<1> QED
  BY <1>1 DEF ShopInv, OrdersGoOn, PaymentsGoOn

-----------------------------------------------------------------------------
(* Counting units.                                                         *)

LEMMA UnitsPart ==
  ASSUME NEW S, NEW T, S \subseteq T, IsFiniteSet(Units(T))
  PROVE  /\ IsFiniteSet(Units(S)) /\ Cardinality(Units(S)) <= Cardinality(Units(T))
         /\ Cardinality(Units(S)) \in Nat /\ Cardinality(Units(T)) \in Nat
<1>1. Units(S) \subseteq Units(T)
  BY DEF Units
<1> QED
  BY <1>1, OneMore, FS_Subset

LEMMA UnitsAdded ==
  ASSUME NEW S, NEW o \in Orders, o \notin S, IsFiniteSet(Units(S))
  PROVE  /\ IsFiniteSet(Units(S \cup {o}))
         /\ Cardinality(Units(S \cup {o})) = Cardinality(Units(S)) + Qty[o]
<1> DEFINE U == {o} \X (1 .. Qty[o])
<1>1. Qty[o] \in Nat /\ Qty[o] > 0
  BY CheckoutAssumption
<1>2. IsFiniteSet(1 .. Qty[o]) /\ Cardinality(1 .. Qty[o]) = Qty[o]
  <2>1. /\ IsFiniteSet(1 .. Qty[o])
        /\ Cardinality(1 .. Qty[o]) = IF 1 > Qty[o] THEN 0 ELSE Qty[o] - 1 + 1
    <3>1. 1 \in Int /\ Qty[o] \in Int
      BY <1>1
    <3> QED
      BY <3>1, FS_Interval
  <2> QED
    BY <1>1, <2>1
<1>3. IsFiniteSet({o}) /\ Cardinality({o}) = 1
  BY FS_Singleton
<1>4. IsFiniteSet(U) /\ Cardinality(U) = Qty[o]
  <2>1. IsFiniteSet(U) /\ Cardinality(U) = Cardinality({o}) * Cardinality(1 .. Qty[o])
    BY <1>2, <1>3, FS_Product
  <2> QED
    BY <1>1, <1>2, <1>3, <2>1
<1>5. Units(S \cup {o}) = Units(S) \cup U
  BY DEF Units
<1>6. Units(S) \cap U = {}
  BY DEF Units
<1>7. Cardinality(Units(S)) \in Nat /\ Cardinality({}) = 0
  BY FS_CardinalityType, FS_EmptySet
<1>8. /\ IsFiniteSet(Units(S) \cup U)
      /\ Cardinality(Units(S) \cup U) = Cardinality(Units(S)) + Cardinality(U) - Cardinality(Units(S) \cap U)
  <2> HIDE DEF U
  <2> QED
    BY <1>4, FS_Union
<1>9. Cardinality(Units(S) \cap U) = 0
  BY <1>6, <1>7
<1> HIDE DEF U
<1>10. Cardinality(Units(S) \cup U) = Cardinality(Units(S)) + Qty[o]
  BY <1>1, <1>4, <1>7, <1>8, <1>9
<1> QED
  BY <1>5, <1>8, <1>10

\* Orders that stop holding units, and one that starts to.
LEMMA FewerHold ==
  ASSUME NEW ord, NEW left \in Int, UnitsFit(ord, left), NEW ord2,
         HoldingIn(ord2) \subseteq HoldingIn(ord)
  PROVE  UnitsFit(ord2, left)
  BY UnitsPart, CheckoutAssumption DEF UnitsFit

LEMMA OneMoreHolds ==
  ASSUME NEW ord, NEW left \in Int, UnitsFit(ord, left), NEW ord2, NEW o \in Orders,
         HoldingIn(ord2) \subseteq HoldingIn(ord) \cup {o}
  PROVE  UnitsFit(ord2, left - Qty[o])
<1> DEFINE S == HoldingIn(ord)
<1>1. Qty[o] \in Nat /\ InitialStock \in Nat
  BY CheckoutAssumption
<1>2. IsFiniteSet(Units(S)) /\ Cardinality(Units(S)) \in Nat
  BY UnitsPart DEF UnitsFit
<1>3. /\ IsFiniteSet(Units(S \cup {o}))
      /\ Cardinality(Units(S \cup {o})) <= Cardinality(Units(S)) + Qty[o]
  <2>1. CASE o \in S
    <3>1. S \cup {o} = S
      BY <2>1
    <3> HIDE DEF S
    <3>2. Cardinality(Units(S)) <= Cardinality(Units(S)) + Qty[o]
      BY <1>1, <1>2
    <3> QED
      BY <1>2, <3>1, <3>2
  <2>2. CASE o \notin S
    <3> HIDE DEF S
    <3>1. /\ IsFiniteSet(Units(S \cup {o}))
          /\ Cardinality(Units(S \cup {o})) = Cardinality(Units(S)) + Qty[o]
      BY <1>2, <2>2, UnitsAdded
    <3> QED
      BY <1>1, <1>2, <3>1
  <2> QED
    BY <2>1, <2>2
<1>4. /\ IsFiniteSet(Units(HoldingIn(ord2))) /\ Cardinality(Units(HoldingIn(ord2))) \in Nat
      /\ Cardinality(Units(HoldingIn(ord2))) <= Cardinality(Units(S \cup {o}))
      /\ Cardinality(Units(S \cup {o})) \in Nat
  BY <1>3, UnitsPart
<1>5. left + Cardinality(Units(S)) <= InitialStock
  BY DEF UnitsFit
<1> HIDE DEF S
<1>6. (left - Qty[o]) + Cardinality(Units(HoldingIn(ord2))) <= InitialStock
  BY <1>1, <1>2, <1>3, <1>4, <1>5
<1> QED
  BY <1>4, <1>6 DEF UnitsFit

\* An order stops holding its units, and they are offered again.
LEMMA OneReturned ==
  ASSUME NEW S, NEW left \in Int, NEW o \in S, o \in Orders, IsFiniteSet(Units(S)),
         left + Cardinality(Units(S)) <= InitialStock
  PROVE  (left + Qty[o]) + Cardinality(Units(S \ {o})) <= InitialStock
<1>1. Qty[o] \in Nat /\ InitialStock \in Nat
  BY CheckoutAssumption
<1>2. IsFiniteSet(Units(S \ {o})) /\ Cardinality(Units(S \ {o})) \in Nat
  BY UnitsPart
<1>3. Cardinality(Units((S \ {o}) \cup {o})) = Cardinality(Units(S \ {o})) + Qty[o]
  BY <1>2, UnitsAdded
<1>4. (S \ {o}) \cup {o} = S
  OBVIOUS
<1> QED
  BY <1>1, <1>2, <1>3, <1>4

-----------------------------------------------------------------------------
(* Every group of steps.                                                   *)

LEMMA ShopTyped ==
  ASSUME ShopInv
  PROVE  /\ order \in [Orders -> OrderStatus \cup NoRow] /\ stock \in Int
         /\ payOf \in [Payments -> Orders \cup {NoOrder}]
         /\ payStatus \in [Payments -> PaymentStatus \cup NoRow]
         /\ receipt \in [Payments -> CardToCardStatus \cup {"NONE"}]
         /\ tx \in [Sessions -> Session]
         /\ \A s \in Sessions : tx[s].stock \in Int
  BY DEF ShopInv, IInv, Typed, TypeOK, Session

LEMMA IdleFresh == \A ord, left : Fresh(Idle, ord, left)
  BY DEF Fresh, Idle, Callback, Reviews

LEMMA PaymentsKept ==
  ASSUME ShopInv, UNCHANGED << payOf, payStatus, receipt >>
  PROVE  PaymentsGoOn
  BY DEF PaymentsGoOn, ShopInv, Settled

\* A session begins or goes on.
LEMMA ShopMoves ==
  ASSUME ShopInv, IInv', OrderlyShop, NEW s \in Sessions, NEW next,
         tx' = [tx EXCEPT ![s] = next], UNCHANGED << order, payOf, payStatus, receipt, stock >>,
         Fresh(next, order, stock)
  PROVE  ShopInv' /\ OrdersGoOn
<1>1. \A r \in Sessions : tx'[r] = next
  BY ShopTyped DEF OrderlyShop, Serial
<1>2. \A r \in Sessions : Fresh(tx'[r], order', stock')
  BY <1>1
<1>3. OrdersGoOn
  BY DEF OrdersGoOn, ShopInv
<1>4. UnitsFit(order', stock')
  BY DEF ShopInv
<1> QED
  BY <1>2, <1>3, <1>4, PaymentsKept, ShopStep

LEMMA ShopBegins ==
  ASSUME ShopInv, IInv', OrderlyShop, NEW s \in Sessions, NEW session, Begin(s, session),
         Fresh(session, order, stock)
  PROVE  ShopInv' /\ OrdersGoOn
  BY ShopMoves DEF Begin

LEMMA ShopEnds ==
  ASSUME ShopInv, IInv', OrderlyShop, NEW s \in Sessions, End(s),
         OrdersGoOn, PaymentsGoOn, UnitsFit(order', stock')
  PROVE  ShopInv' /\ OrdersGoOn
<1>1. \A r \in Sessions : tx'[r] = Idle
  BY ShopTyped DEF End, OrderlyShop, Serial
<1>2. Fresh(Idle, order', stock')
  BY IdleFresh
<1>3. \A r \in Sessions : Fresh(tx'[r], order', stock')
  BY <1>1, <1>2
<1> QED
  BY <1>3, ShopStep

\* save of an order that is as it was read.
LEMMA SavedFresh ==
  ASSUME ShopInv, NEW s \in Sessions, NEW new, SaveOrder(s, new),
         tx[s].status = order[tx[s].order]
  PROVE  \A o \in Orders : order'[o] = IF o = tx[s].order /\ order[o] \notin NoRow
                                       THEN new ELSE order[o]
  BY ShopTyped DEF SaveOrder, Saved

\* An online payment is marked as not successful.
LEMMA NotSettled ==
  ASSUME ShopInv, NEW a \in Authorities, UNCHANGED << payOf, receipt >>,
         \A p \in Payments \ {a} : payStatus'[p] = payStatus[p],
         payStatus'[a] \in {payStatus[a], "FAILED", "CANCELLED"}
  PROVE  PaymentsGoOn
<1>1. \A p \in Payments : payStatus'[p] \in {"SUCCESS", "VERIFIED"} => Settled(p)
  BY DEF Settled
<1> QED
  BY <1>1 DEF PaymentsGoOn, ShopInv

LEMMA SavedUnsettled ==
  ASSUME ShopInv, NEW s \in Sessions, tx[s].pay \in Authorities,
         NEW new \in {"FAILED", "CANCELLED"}, SavePayment(s, new), UNCHANGED << payOf, receipt >>
  PROVE  PaymentsGoOn
<1>1. /\ \A p \in Payments \ {tx[s].pay} : payStatus'[p] = payStatus[p]
      /\ payStatus'[tx[s].pay] \in {payStatus[tx[s].pay], "FAILED", "CANCELLED"}
  BY ShopTyped DEF SavePayment, Saved
<1> QED
  BY <1>1, NotSettled

LEMMA OnlineShop ==
  ASSUME ShopInv, IInv', OrderlyShop, NEW s \in Sessions, OnlineStep(s)
  PROVE  ShopInv' /\ OrdersGoOn
<1> DEFINE Goal == ShopInv' /\ OrdersGoOn
           t == tx[s]
<1>t. /\ order \in [Orders -> OrderStatus \cup NoRow] /\ stock \in Int
      /\ payOf \in [Payments -> Orders \cup {NoOrder}]
      /\ payStatus \in [Payments -> PaymentStatus \cup NoRow] /\ t \in Session
      /\ tx \in [Sessions -> Session]
  BY ShopTyped
<1>f. Fresh(t, order, stock) /\ UnitsFit(order, stock)
  BY DEF ShopInv
<1>0. t.reply # "none" => t.op \in Callback
  BY DEF ShopInv, IInv, Typed, RowsKnown, Callback
<1>0a. t.op \in Callback =>
         /\ t.order \in Orders /\ t.pay \in Authorities /\ payOf[t.pay] = t.order
         /\ t.status = order[t.order]
         /\ order[t.order] \in {"AWAITING_PAYMENT", "PAYMENT_CONFIRMATION_PENDING"}
  BY <1>f DEF ShopInv, IInv, Typed, RowsKnown, TellsTruth, Told, ToldBy, Callback, Fresh,
     Known, Verifiable
<1>k. \A o \in Orders : order[o] \in Known
  BY DEF ShopInv
<1>1. ASSUME NEW o \in Orders, BeginCreatePayment(s, o) PROVE Goal
  <2> DEFINE session == [Idle EXCEPT !.op = "createPayment", !.order = o,
                                     !.status = order[o], !.stock = stock]
  <2>1. /\ session.op = "createPayment" /\ session.order = o /\ session.status = order[o]
        /\ session.stock = stock /\ session.reply = "none"
        /\ Begin(s, session) /\ order[o] \in Payable
    BY <1>1 DEF BeginCreatePayment, Idle
  <2> HIDE DEF session
  <2>2. Fresh(session, order, stock)
    BY <2>1 DEF Fresh, Callback, Reviews
  <2> QED
    BY <2>1, <2>2, ShopBegins
<1>2. ASSUME NEW a \in Authorities, BeginVerify(s, a) \/ BeginUserCancel(s, a) PROVE Goal
  <2>1. PICK op \in Callback : BeginCallback(s, a, op)
    BY <1>2 DEF BeginVerify, BeginUserCancel, Callback
  <2> DEFINE session == [Idle EXCEPT !.op = op, !.order = payOf[a], !.pay = a,
                !.status = order[payOf[a]], !.payStatus = payStatus[a],
                !.open = op = "verifyPayment" /\ HasOpenCart(Owner[payOf[a]])]
  <2>2. /\ session.op = op /\ session.order = payOf[a] /\ session.status = order[payOf[a]]
        /\ session.reply = "none" /\ Begin(s, session) /\ order[payOf[a]] \in Verifiable
    BY <2>1 DEF BeginCallback, Idle
  <2> HIDE DEF session
  <2>3. Fresh(session, order, stock)
    BY <2>2 DEF Fresh, Callback, Reviews
  <2> QED
    BY <2>2, <2>3, ShopBegins
<1>3. ASSUME NEW a \in Authorities, GatewayIssues(s, a) PROVE Goal
  <2> DEFINE next == [t EXCEPT !.pay = a]
  <2>1. tx' = [tx EXCEPT ![s] = next] /\ UNCHANGED tables /\ t.op = "createPayment"
    BY <1>3 DEF GatewayIssues
  <2>2. /\ next.op = t.op /\ next.order = t.order /\ next.status = t.status
        /\ next.stock = t.stock /\ next.reply = t.reply
    BY <1>t DEF Session
  <2> HIDE DEF next
  <2>3. Fresh(next, order, stock)
    BY <1>f, <2>1, <2>2 DEF Fresh, Callback
  <2> QED
    BY <2>1, <2>3, ShopMoves
<1>4. CASE CommitCreatePayment(s)
  <2>1. /\ Waits(t) /\ End(s) /\ UNCHANGED receipt
        /\ SaveOrder(s, "AWAITING_PAYMENT") /\ stock' = t.stock - Qty[t.order]
        /\ payOf' = [payOf EXCEPT ![t.pay] = t.order]
        /\ payStatus' = [payStatus EXCEPT ![t.pay] = "IN_PROGRESS"]
    BY <1>4 DEF CommitCreatePayment, Waits, ReserveStock
  <2>2. t.pay \in Authorities /\ t.order \in Orders
    BY <2>1 DEF ShopInv, IInv, TellsTruth, Told, ToldBy, Waits, Typed, RowsKnown
  <2>3. t.status = order[t.order] /\ t.stock = stock /\ order[t.order] \in Payable
    BY <1>f, <2>1 DEF Fresh, Waits
  <2>4. \A o \in Orders : order'[o] = IF o = t.order /\ order[o] \notin NoRow
                                      THEN "AWAITING_PAYMENT" ELSE order[o]
    BY <2>1, <2>3, SavedFresh
  <2>5. OrdersGoOn
    BY <1>k, <2>3, <2>4 DEF OrdersGoOn, Known, Payable
  <2>6. PaymentsGoOn
    <3>1. \A p \in Payments : \/ payStatus'[p] = payStatus[p] /\ payOf'[p] = payOf[p]
                              \/ payStatus'[p] = "IN_PROGRESS"
      BY <1>t, <2>1
    <3> QED
      BY <2>1, <3>1 DEF PaymentsGoOn, Settled, ShopInv
  <2>7. UnitsFit(order', stock')
    <3>1. HoldingIn(order') \subseteq HoldingIn(order) \cup {t.order}
      BY <2>4 DEF HoldingIn
    <3>2. UnitsFit(order', stock - Qty[t.order])
      BY <1>f, <1>t, <2>2, <3>1, OneMoreHolds
    <3> QED
      BY <2>1, <2>3, <3>2
  <2> QED
    BY <2>1, <2>5, <2>6, <2>7, ShopEnds
<1>5. ASSUME NEW reply \in {"100", "101", "other", "error", "logged", "counted"},
             \/ GatewayVerifies(s, reply)
             \/ reply = "logged" /\ LogCallback(s)
             \/ reply = "counted" /\ CountPromotion(s)
      PROVE Goal
  <2> DEFINE next == [t EXCEPT !.reply = reply]
  <2>1. tx' = [tx EXCEPT ![s] = next]
    BY <1>5 DEF GatewayVerifies, LogCallback, CountPromotion
  <2>2. UNCHANGED << order, payOf, payStatus, receipt, stock >>
    BY <1>5 DEF GatewayVerifies, LogCallback, CountPromotion
  <2>3. t.op \in Callback
    BY <1>0, <1>5 DEF GatewayVerifies, LogCallback, CountPromotion, Callback
  <2>4. next.op = t.op /\ next.order = t.order /\ next.status = t.status /\ next.reply = reply
    BY <1>t DEF Session
  <2> HIDE DEF next
  <2>5. Fresh(next, order, stock)
    BY <1>f, <2>3, <2>4 DEF Fresh, Callback
  <2> QED
    BY <2>1, <2>2, <2>5, ShopMoves
<1>6. ~LosesDeadlock(s) /\ ~LosesCartDeadlock(s)
  BY DEF LosesDeadlock, LosesCartDeadlock, OrderlyShop, Serial
<1>7. ~RecordsFailed(s) /\ ~CommitOrphaned(s)
  BY <1>f DEF RecordsFailed, CommitOrphaned, Fresh
<1>8. CASE CommitVerified(s)
  <2>1. /\ t.op \in Callback /\ End(s) /\ UNCHANGED << payOf, receipt, stock >>
        /\ SaveOrder(s, "PREPARING") /\ InvoiceOrVerified(t)
    BY <1>0, <1>8 DEF CommitVerified
  <2>2. \A o \in Orders : order'[o] = IF o = t.order THEN "PREPARING" ELSE order[o]
    BY <1>0a, <2>1, SavedFresh
  <2>3. OrdersGoOn
    BY <1>0a, <1>k, <2>1, <2>2 DEF OrdersGoOn, Known
  <2>4. PaymentsGoOn
    <3>1. \A p \in Payments \ {t.pay} : payStatus'[p] = payStatus[p]
      BY <1>t, <2>1 DEF InvoiceOrVerified
    <3>2. order[payOf[t.pay]] \in Verifiable /\ order'[payOf[t.pay]] = "PREPARING"
      BY <1>0a, <2>1, <2>2 DEF Verifiable
    <3> QED
      BY <1>0a, <2>1, <3>1, <3>2 DEF PaymentsGoOn, Settled, ShopInv
  <2>5. UnitsFit(order', stock')
    <3>1. HoldingIn(order') \subseteq HoldingIn(order)
      BY <1>0a, <2>1, <2>2 DEF HoldingIn
    <3> QED
      BY <1>f, <1>t, <2>1, <3>1, FewerHold
  <2> QED
    BY <2>1, <2>3, <2>4, <2>5, ShopEnds
<1>9. CASE CommitAlreadyVerified(s) \/ CommitRefused(s)
  <2>1. /\ t.op \in Callback /\ End(s) /\ UNCHANGED << payOf, receipt, stock >>
        /\ SaveOrder(s, "PAYMENT_CONFIRMATION_PENDING")
    BY <1>0, <1>9 DEF CommitAlreadyVerified, CommitRefused
  <2>2. \A o \in Orders : order'[o] = IF o = t.order THEN "PAYMENT_CONFIRMATION_PENDING"
                                                     ELSE order[o]
    BY <1>0a, <2>1, SavedFresh
  <2>3. OrdersGoOn
    BY <1>0a, <1>k, <2>1, <2>2 DEF OrdersGoOn, Known
  <2>4. PaymentsGoOn
    <3>1. CASE UNCHANGED payStatus
      BY <2>1, <3>1, PaymentsKept
    <3>2. CASE SavePayment(s, "FAILED")
      BY <1>0a, <2>1, <3>2, SavedUnsettled
    <3> QED
      BY <1>9, <3>1, <3>2 DEF CommitAlreadyVerified, CommitRefused
  <2>5. UnitsFit(order', stock')
    <3>1. HoldingIn(order') \subseteq HoldingIn(order)
      BY <1>0a, <2>1, <2>2 DEF HoldingIn
    <3> QED
      BY <1>f, <1>t, <2>1, <3>1, FewerHold
  <2> QED
    BY <2>1, <2>3, <2>4, <2>5, ShopEnds
<1>10. CASE VerifyThrows(s) \/ CommitUserCancel(s)
  <2>1. t.op \in Callback /\ End(s) /\ UNCHANGED << order, payOf, receipt, stock >>
    BY <1>0, <1>10 DEF VerifyThrows, CommitUserCancel
  <2>2. OrdersGoOn
    BY <1>k, <2>1 DEF OrdersGoOn
  <2>3. PaymentsGoOn
    <3>1. CASE UNCHANGED payStatus
      BY <2>1, <3>1, PaymentsKept
    <3>2. CASE SavePayment(s, "CANCELLED")
      BY <1>0a, <2>1, <3>2, SavedUnsettled
    <3> QED
      BY <1>10, <3>1, <3>2 DEF VerifyThrows, CommitUserCancel
  <2> QED
    BY <1>f, <2>1, <2>2, <2>3, ShopEnds
<1> QED
  BY <1>1, <1>2, <1>3, <1>4, <1>5, <1>6, <1>7, <1>8, <1>9, <1>10 DEF OnlineStep

LEMMA TransferShop ==
  ASSUME ShopInv, IInv', OrderlyShop, NEW s \in Sessions, TransferStep(s)
  PROVE  ShopInv' /\ OrdersGoOn
<1> DEFINE Goal == ShopInv' /\ OrdersGoOn
<1>1. ASSUME NEW o \in Orders, BeginInitiate(s, o) PROVE Goal
  <2> DEFINE session == [Idle EXCEPT !.op = "initiate", !.order = o]
  <2>1. session.op = "initiate" /\ session.reply = "none" /\ Begin(s, session)
    BY <1>1 DEF BeginInitiate, Idle
  <2> HIDE DEF session
  <2> QED
    BY <2>1, ShopBegins DEF Fresh, Callback, Reviews
<1>2. ASSUME NEW p \in Transfers, CommitInitiate(s, p) PROVE Goal
  <2>1. /\ End(s) /\ UNCHANGED << order, stock >>
        /\ payOf' = [payOf EXCEPT ![p] = tx[s].order]
        /\ payStatus' = [payStatus EXCEPT ![p] = "PENDING"]
        /\ receipt' = [receipt EXCEPT ![p] = "PENDING"]
    BY <1>2 DEF CommitInitiate
  <2>2. OrdersGoOn /\ UnitsFit(order', stock')
    BY <2>1 DEF OrdersGoOn, ShopInv
  <2>3. \A q \in Payments : \/ /\ payStatus'[q] = payStatus[q] /\ payOf'[q] = payOf[q]
                               /\ receipt'[q] = receipt[q]
                            \/ payStatus'[q] = "PENDING" /\ receipt'[q] = "PENDING"
    BY <2>1, ShopTyped
  <2>4. PaymentsGoOn
    BY <2>3 DEF PaymentsGoOn, Settled, ShopInv
  <2> QED
    BY <2>1, <2>2, <2>4, ShopEnds
<1>3. ASSUME NEW p \in Transfers
      PROVE ~BeginUploadReceipt(s, p) /\ ~BeginApprove(s, p) /\ ~BeginReject(s, p)
  <2>1. \A op : TransferRead(op, p).op = op
    BY DEF TransferRead, Idle
  <2>2. ~BeginUploadReceipt(s, p)
    BY <2>1 DEF BeginUploadReceipt, Begin, OrderlyShop
  <2> QED
    BY <2>2 DEF BeginApprove, BeginReject, ShopInv
<1>4. ~CommitUploadReceipt(s) /\ ~CommitApprove(s) /\ ~CommitReject(s)
  BY DEF CommitUploadReceipt, CommitApprove, CommitReject, ShopInv, Fresh, Reviews
<1> QED
  BY <1>1, <1>2, <1>3, <1>4 DEF TransferStep

LEMMA OrderShop ==
  ASSUME ShopInv, IInv', OrderlyShop, NEW s \in Sessions, OrderStep(s)
  PROVE  ShopInv' /\ OrdersGoOn
<1> DEFINE Goal == ShopInv' /\ OrdersGoOn
           t == tx[s]
<1>t. /\ order \in [Orders -> OrderStatus \cup NoRow] /\ stock \in Int
      /\ payStatus \in [Payments -> PaymentStatus \cup NoRow] /\ t \in Session
  BY ShopTyped
<1>f. Fresh(t, order, stock) /\ UnitsFit(order, stock)
  BY DEF ShopInv
<1>k. \A o \in Orders : order[o] \in Known
  BY DEF ShopInv
<1>1. ASSUME NEW o \in Orders, BeginCreateFromCard(s, o) PROVE Goal
  <2> DEFINE session(found) ==
               [Idle EXCEPT !.op = "createFromCard", !.order = o, !.batch = found]
  <2>1. \A found : /\ session(found).op = "createFromCard" /\ session(found).batch = found
                   /\ session(found).reply = "none"
    BY DEF Idle
  <2>2. \E found \in SUBSET StartedOrders(Owner[o]) : Begin(s, session(found))
    BY <1>1 DEF BeginCreateFromCard
  <2> HIDE DEF session
  <2>3. \A found \in SUBSET StartedOrders(Owner[o]) : Fresh(session(found), order, stock)
    BY <2>1 DEF Fresh, Callback, Reviews, StartedOrders
  <2> QED
    BY <2>2, <2>3, ShopBegins
<1>2. ASSUME NEW o \in Orders, BeginCancelOrder(s, o) PROVE Goal
  <2> DEFINE session == [Idle EXCEPT !.op = "cancelOrder", !.order = o, !.status = order[o],
                                     !.open = HasOpenCart(Owner[o])]
  <2>1. /\ session.op = "cancelOrder" /\ session.order = o /\ session.status = order[o]
        /\ session.reply = "none" /\ Begin(s, session) /\ order[o] \in Cancellable
    BY <1>2 DEF BeginCancelOrder, Idle
  <2> HIDE DEF session
  <2> QED
    BY <2>1, ShopBegins DEF Fresh, Callback, Reviews
<1>3. ASSUME NEW o \in Orders PROVE ~BeginAwaitingPayment(s, o)
  <2> DEFINE session == [Idle EXCEPT !.op = "awaitingPayment", !.order = o, !.status = order[o],
                                     !.open = HasOpenCart(Owner[o])]
  <2>1. session.op = "awaitingPayment"
    BY DEF Idle
  <2>2. BeginAwaitingPayment(s, o) => Begin(s, session)
    BY DEF BeginAwaitingPayment
  <2> HIDE DEF session
  <2> QED
    BY <2>1, <2>2 DEF Begin, OrderlyShop
<1>4. ASSUME NEW u \in Users, BeginGetMyCard(s, u) PROVE Goal
  <2> DEFINE session == [Idle EXCEPT !.op = "getMyCard", !.batch = {u}]
  <2>1. session.op = "getMyCard" /\ session.reply = "none" /\ Begin(s, session)
    BY <1>4 DEF BeginGetMyCard, Idle
  <2> HIDE DEF session
  <2> QED
    BY <2>1, ShopBegins DEF Fresh, Callback, Reviews
<1>5. CASE CommitCreateFromCard(s)
  <2> DEFINE batch == t.batch
  <2>1. /\ t.op = "createFromCard" /\ End(s) /\ UNCHANGED << payOf, receipt, stock >>
        /\ order[t.order] = "NONE"
        /\ order' = [o \in Orders |-> IF o = t.order THEN "START_ORDER"
                                      ELSE IF o \in batch THEN "DELETED" ELSE order[o]]
        /\ payStatus' = [p \in Payments |->
             IF payOf[p] \in batch /\ payStatus[p] \notin NoRow THEN "DELETED" ELSE payStatus[p]]
    BY <1>5 DEF CommitCreateFromCard
  <2>2. \A o \in batch : order[o] = "START_ORDER"
    BY <1>f, <2>1 DEF Fresh
  <2>3. OrdersGoOn
    BY <1>k, <2>1, <2>2 DEF OrdersGoOn, Known
  <2>4. PaymentsGoOn
    BY <2>1 DEF PaymentsGoOn, Settled, ShopInv
  <2>5. UnitsFit(order', stock')
    <3>1. HoldingIn(order') \subseteq HoldingIn(order)
      BY <2>1, <2>2 DEF HoldingIn
    <3> QED
      BY <1>f, <1>t, <2>1, <3>1, FewerHold
  <2> QED
    BY <2>1, <2>3, <2>4, <2>5, ShopEnds
<1>6. ~CommitAwaitingPayment(s)
  BY <1>f DEF CommitAwaitingPayment, Fresh
\* Units are returned for an order that has paid for them, and no others.
<1>7. CASE CommitCancelOrder(s)
  <2>1. /\ t.op = "cancelOrder" /\ End(s) /\ UNCHANGED << payOf, payStatus, receipt >>
        /\ SaveOrder(s, "CANCELLED")
        /\ IF t.status \in {"PROCESSING", "PREPARING"} THEN stock' = stock + Qty[t.order]
                                                      ELSE UNCHANGED stock
    BY <1>7 DEF CommitCancelOrder, ReturnStock
  <2>2. t.status = order[t.order] /\ t.order \in Orders
    BY <1>f, <2>1 DEF Fresh, ShopInv, IInv, Typed, RowsKnown
  <2>3. \A o \in Orders : order'[o] = IF o = t.order /\ order[o] \notin NoRow
                                      THEN "CANCELLED" ELSE order[o]
    BY <2>1, <2>2, SavedFresh
  <2>4. t.status \in Cancellable
    BY <1>f, <2>1 DEF Fresh
  <2>5. OrdersGoOn
    BY <1>k, <2>2, <2>3, <2>4 DEF OrdersGoOn, Known, Cancellable
  <2>6. HoldingIn(order') = HoldingIn(order) \ {t.order}
    BY <2>2, <2>3, <2>4 DEF HoldingIn, Cancellable
  <2>7. UnitsFit(order', stock')
    <3>1. CASE t.status \in {"PROCESSING", "PREPARING"}
      <4>1. t.order \in HoldingIn(order)
        BY <2>2, <3>1 DEF HoldingIn
      <4>2. (stock + Qty[t.order]) + Cardinality(Units(HoldingIn(order) \ {t.order})) <= InitialStock
        BY <1>f, <1>t, <2>2, <4>1, OneReturned DEF UnitsFit
      <4>3. IsFiniteSet(Units(HoldingIn(order) \ {t.order}))
        BY <1>f, UnitsPart DEF UnitsFit
      <4> QED
        BY <2>1, <2>6, <3>1, <4>2, <4>3 DEF UnitsFit
    <3>2. CASE t.status \notin {"PROCESSING", "PREPARING"}
      BY <1>f, <1>t, <2>1, <2>6, <3>2, FewerHold
    <3> QED
      BY <3>1, <3>2
  <2> QED
    BY <2>1, <2>5, <2>7, PaymentsKept, ShopEnds
<1>8. CASE CommitGetMyCard(s) \/ Rollback(s)
  <2>1. End(s) /\ UNCHANGED << order, payOf, payStatus, receipt, stock >>
    BY <1>8 DEF CommitGetMyCard, Rollback
  <2>2. OrdersGoOn /\ UnitsFit(order', stock')
    BY <1>f, <1>k, <2>1 DEF OrdersGoOn
  <2> QED
    BY <2>1, <2>2, PaymentsKept, ShopEnds
<1> QED
  BY <1>1, <1>2, <1>3, <1>4, <1>5, <1>6, <1>7, <1>8 DEF OrderStep

LEMMA JobShop ==
  ASSUME ShopInv, IInv', OrderlyShop, NEW s \in Sessions, JobStep(s)
  PROVE  ShopInv' /\ OrdersGoOn
<1> DEFINE Goal == ShopInv' /\ OrdersGoOn
           t == tx[s]
<1>t. stock \in Int /\ t \in Session /\ t.stock \in Int
  BY ShopTyped
<1>f. Fresh(t, order, stock) /\ UnitsFit(order, stock)
  BY DEF ShopInv
<1>k. \A o \in Orders : order[o] \in Known
  BY DEF ShopInv
<1>1. CASE BeginExpire(s)
  <2> DEFINE found == { o \in Orders : Expirable(o) }
             session == [Idle EXCEPT !.op = "expire", !.stock = stock, !.batch = found]
  <2>1. /\ session.op = "expire" /\ session.batch = found /\ session.done = {}
        /\ session.stock = stock /\ session.reply = "none" /\ Begin(s, session)
    BY <1>1 DEF BeginExpire, Idle
  <2>2. \A o \in found : o \in Orders /\ order[o] = "AWAITING_PAYMENT"
    BY <1>k DEF Expirable, Known
  <2> HIDE DEF session, found
  <2>3. HoldingIn(order) \ session.done = HoldingIn(order)
    BY <2>1
  <2>4. Fresh(session, order, stock)
    BY <1>f, <2>1, <2>2, <2>3 DEF Fresh, UnitsFit, Callback, Reviews
  <2> QED
    BY <2>1, <2>4, ShopBegins
<1>2. CASE BeginUnlockStuck(s)
  <2> DEFINE session(old) == [Idle EXCEPT !.op = "unlockStuck", !.batch = old]
  <2>1. \A old : session(old).op = "unlockStuck" /\ session(old).reply = "none"
    BY DEF Idle
  <2>2. \E old : Begin(s, session(old))
    BY <1>2 DEF BeginUnlockStuck
  <2> HIDE DEF session
  <2>3. \A old : Fresh(session(old), order, stock)
    BY <2>1 DEF Fresh, Callback, Reviews
  <2> QED
    BY <2>2, <2>3, ShopBegins
\* One more of the orders to be closed gives its units back.
<1>3. ASSUME NEW o \in Orders, ExpireNext(s, o) PROVE Goal
  <2> DEFINE next == [t EXCEPT !.stock = t.stock + Qty[o], !.done = t.done \cup {o}]
             S == HoldingIn(order) \ t.done
  <2>1. /\ tx' = [tx EXCEPT ![s] = next] /\ UNCHANGED tables /\ t.op = "expire"
        /\ o \in t.batch \ t.done
    BY <1>3 DEF ExpireNext
  <2>2. /\ next.op = "expire" /\ next.batch = t.batch /\ next.done = t.done \cup {o}
        /\ next.stock = t.stock + Qty[o] /\ next.reply = t.reply
    BY <1>t, <2>1 DEF Session
  <2> HIDE DEF next
  <2>3. o \in S
    BY <1>f, <2>1 DEF Fresh, HoldingIn
  <2>4. t.stock + Cardinality(Units(S)) <= InitialStock
    BY <1>f, <2>1 DEF Fresh
  <2>5. IsFiniteSet(Units(S))
    BY <1>f, UnitsPart DEF UnitsFit
  <2>6. (t.stock + Qty[o]) + Cardinality(Units(S \ {o})) <= InitialStock
    <3> HIDE DEF S
    <3> QED
      BY <1>t, <2>3, <2>4, <2>5, OneReturned
  <2>7. S \ {o} = HoldingIn(order) \ next.done
    BY <2>2
  <2>8. Fresh(next, order, stock)
    BY <1>f, <2>1, <2>2, <2>6, <2>7 DEF Fresh, Callback, Reviews
  <2> QED
    BY <2>1, <2>8, ShopMoves
<1>4. CASE CommitExpire(s)
  <2>1. /\ t.op = "expire" /\ t.done = t.batch /\ End(s) /\ stock' = t.stock
        /\ UNCHANGED << payOf, payStatus, receipt >>
        /\ order' = [o \in Orders |-> IF o \in t.batch /\ OrderExists(o) THEN "EXPIRED"
                                      ELSE order[o]]
    BY <1>4 DEF CommitExpire
  <2>2. \A o \in t.batch : order[o] = "AWAITING_PAYMENT"
    BY <1>f, <2>1 DEF Fresh
  <2>3. OrdersGoOn
    BY <1>k, <2>1, <2>2 DEF OrdersGoOn, Known
  <2>4. HoldingIn(order') \subseteq HoldingIn(order) \ t.done
    BY <2>1, <2>2 DEF HoldingIn, OrderExists
  <2>5. t.stock + Cardinality(Units(HoldingIn(order) \ t.done)) <= InitialStock
    BY <1>f, <2>1 DEF Fresh
  <2>6. /\ IsFiniteSet(Units(HoldingIn(order) \ t.done))
        /\ Cardinality(Units(HoldingIn(order) \ t.done)) \in Nat
    BY <1>f, UnitsPart DEF UnitsFit
  <2>7. /\ IsFiniteSet(Units(HoldingIn(order'))) /\ Cardinality(Units(HoldingIn(order'))) \in Nat
        /\ Cardinality(Units(HoldingIn(order'))) <= Cardinality(Units(HoldingIn(order) \ t.done))
    BY <2>4, <2>6, UnitsPart
  <2>8. t.stock + Cardinality(Units(HoldingIn(order'))) <= InitialStock
    BY <1>t, <2>5, <2>6, <2>7, CheckoutAssumption
  <2>9. UnitsFit(order', stock')
    BY <2>1, <2>7, <2>8 DEF UnitsFit
  <2> QED
    BY <2>1, <2>3, <2>9, PaymentsKept, ShopEnds
<1>5. CASE CommitUnlockStuck(s)
  <2>1. End(s) /\ UNCHANGED << order, payOf, payStatus, receipt, stock >>
    BY <1>5 DEF CommitUnlockStuck
  <2>2. OrdersGoOn /\ UnitsFit(order', stock')
    BY <1>f, <1>k, <2>1 DEF OrdersGoOn
  <2> QED
    BY <2>1, <2>2, PaymentsKept, ShopEnds
<1> QED
  BY <1>1, <1>2, <1>3, <1>4, <1>5 DEF JobStep

LEMMA EnvironmentShop ==
  ASSUME ShopInv, IInv',
         \/ \E o \in Orders : Ages(o)
         \/ \E a \in Authorities : UserPays(a)
         \/ \E u \in Users : AddItem(u) \/ LockAnyCart(u) \/ CleanupAbandoned(u)
         \/ UNCHANGED vars
  PROVE  ShopInv' /\ OrdersGoOn
<1>1. UNCHANGED << order, payOf, payStatus, receipt, stock, tx >>
  BY DEF Ages, UserPays, AddItem, LockAnyCart, CleanupAbandoned
<1>2. OrdersGoOn /\ UnitsFit(order', stock') /\ \A s \in Sessions : Fresh(tx'[s], order', stock')
  BY <1>1 DEF OrdersGoOn, ShopInv
<1> QED
  BY <1>1, <1>2, PaymentsKept, ShopStep

LEMMA ShopInit == Init => ShopInv
<1> SUFFICES ASSUME Init PROVE ShopInv
  OBVIOUS
<1>1. IInv
  BY GatewayInit
<1>2. UnitsFit(order, stock)
  <2>1. Units(HoldingIn(order)) = {}
    BY DEF Init, HoldingIn, Units
  <2>2. Cardinality(Units(HoldingIn(order))) = 0 /\ IsFiniteSet(Units(HoldingIn(order)))
    BY <2>1, FS_EmptySet
  <2> QED
    BY <2>2, CheckoutAssumption DEF UnitsFit, Init
<1>3. \A s \in Sessions : Fresh(tx[s], order, stock)
  BY IdleFresh DEF Init
<1>4. /\ \A o \in Orders : order[o] \in Known
      /\ \A p \in Transfers : receipt[p] # "UPLOADED"
      /\ SettledApart
  BY DEF Init, Known, SettledApart, Settled
<1> QED
  BY <1>1, <1>2, <1>3, <1>4 DEF ShopInv

LEMMA ShopNext ==
  ASSUME OrderlyShop, ShopInv, [Next]_vars
  PROVE  ShopInv' /\ OrdersGoOn
<1>1. IInv'
  BY GatewayNext DEF ShopInv
<1> QED
  BY <1>1, OnlineShop, TransferShop, OrderShop, JobShop, EnvironmentShop DEF Next

\* The units that live orders hold and the units that are offered are never
\* more than there were: further links reserve again what an order holds, and
\* only an expired order or a cancelled one that was paid gives its units back.
THEOREM UnitsNeverOversold ==
  ASSUME OrderlyShop PROVE Spec => []NoOversell
<1>1. ShopInv => NoOversell
  BY DEF ShopInv, UnitsFit, NoOversell, Holding, HoldingIn
<1>2. ShopInv /\ [Next]_vars => ShopInv'
  BY ShopNext
<1> QED
  BY <1>1, <1>2, ShopInit, PTL DEF Spec

\* However many links an order was given and whichever of them are paid, one
\* payment is accepted: the first makes the order PREPARING, and no callback
\* takes an order that is prepared or cancelled.
THEOREM OnePaymentSettles ==
  ASSUME OrderlyShop PROVE Spec => []SettledOnce
<1>1. ShopInv => SettledOnce
  <2> SUFFICES ASSUME ShopInv, NEW o \in Orders
               PROVE Cardinality({ p \in Payments : payOf[p] = o /\ Settled(p) }) <= 1
    BY DEF SettledOnce, Settled
  <2> DEFINE S == { p \in Payments : payOf[p] = o /\ Settled(p) }
  <2>1. \A p, q \in S : p = q
    BY DEF ShopInv, SettledApart
  <2>2. CASE S = {}
    <3>1. Cardinality(S) = 0
      BY <2>2, FS_EmptySet
    <3> QED
      BY <3>1
  <2>3. CASE S # {}
    <3>1. PICK p : S = {p}
      BY <2>1, <2>3
    <3>2. Cardinality(S) = 1
      BY <3>1, FS_Singleton
    <3> QED
      BY <3>2
  <2> QED
    BY <2>2, <2>3
<1>2. ShopInv /\ [Next]_vars => ShopInv'
  BY ShopNext
<1> QED
  BY <1>1, <1>2, ShopInit, PTL DEF Spec

\* Expired and cancelled orders stay closed: a late callback, link or job finds
\* the order as it is and refuses it.
THEOREM ClosedOrdersStayClosed ==
  ASSUME OrderlyShop PROVE Spec => ClosedForGood
<1>1. ShopInv /\ [Next]_vars => ShopInv'
  BY ShopNext
<1>2. ShopInv /\ [Next]_vars =>
        [\A o \in Orders : order[o] \in {"EXPIRED", "CANCELLED"} => order'[o] = order[o]]_vars
  BY ShopNext DEF OrdersGoOn
<1> QED
  BY <1>1, <1>2, ShopInit, PTL DEF Spec, ClosedForGood

=============================================================================
