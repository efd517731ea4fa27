---------------------------- MODULE BookingProofs ----------------------------
(***************************************************************************)
(* What the books and the warehouses hold of an order, for any number of   *)
(* orders, payments, items and listeners, while the staff work as well.    *)
(***************************************************************************)
EXTENDS AccountingProofs

-----------------------------------------------------------------------------
(* Transactions: what a row says of an order stays, unless update is used.  *)

\* What reject, remove and approve do not change.
SameSale(t, u) ==
  t.ref = u.ref /\ t.amount = u.amount /\ t.order = u.order /\ t.category = u.category

SaleKept(c) == c.op \in {"approve", "approving", "save"} => SameSale(c.txn, txn[c.id])
SalesKept == \A d \in Desks : SaleKept(ledgerCall[d])

NothingRecorded == TxnIds' = TxnIds /\ \A i \in TxnIds : SameSale(txn'[i], txn[i])

LEMMA CallsKept ==
  ASSUME LedgerInv, SalesKept, NEW d \in Desks, NEW c, ledgerCall' = [ledgerCall EXCEPT ![d] = c],
         \A i \in TxnIds : i \in TxnIds' /\ SameSale(txn'[i], txn[i]),
         c.op \in {"approve", "approving", "save"} =>
           c.id \in TxnIds /\ SameSale(c.txn, txn[c.id])
  PROVE  SalesKept'
<1>1. ASSUME NEW e \in Desks PROVE SaleKept(ledgerCall[e])'
  <2>1. CASE ledgerCall'[e] = c
    BY <2>1 DEF SaleKept, SameSale
  <2>2. CASE ledgerCall'[e] = ledgerCall[e]
    BY <2>2 DEF SaleKept, SameSale, SalesKept, LedgerInv, CallKnown
  <2> QED
    BY <2>1, <2>2 DEF LedgerInv, LedgerTypeOK
<1> QED
  BY <1>1 DEF SalesKept

LEMMA HungUpKept ==
  ASSUME LedgerInv, SalesKept, NEW d \in Desks, Hangup(d),
         \A i \in TxnIds : i \in TxnIds' /\ SameSale(txn'[i], txn[i])
  PROVE  SalesKept' /\ ledgerCall'[d] = LedgerIdle
<1>1. ledgerCall'[d] = LedgerIdle /\ LedgerIdle.op = "idle"
  BY IdleTyped DEF Hangup, LedgerInv, LedgerTypeOK
<1> QED
  BY <1>1, CallsKept DEF Hangup

LEMMA InsertSells ==
  ASSUME LedgerInv, SalesKept, NEW d \in Desks, InsertTransaction(d)
  PROVE  /\ SalesKept' /\ ledgerCall'[d] = LedgerIdle
         /\ ledgerCall[d].op = "insert" /\ FreeReference(ledgerCall[d].txn.ref)
         /\ TxnIds' = TxnIds \cup {Len(txn) + 1} /\ Len(txn) + 1 \notin TxnIds
         /\ \A i \in TxnIds : txn'[i] = txn[i]
         /\ txn'[Len(txn) + 1] = ledgerCall[d].txn
<1> DEFINE t == ledgerCall[d].txn
<1>1. t \in TxnRow /\ txn' = Append(txn, t) /\ Hangup(d) /\ Insertable(t)
  BY DEF InsertTransaction, LedgerInv, CallTyped, KnownTxn
<1>2. ledgerCall[d].op = "insert"
  BY DEF InsertTransaction
<1> HIDE DEF t
<1>3. /\ TxnIds' = TxnIds \cup {Len(txn) + 1} /\ Len(txn) + 1 \notin TxnIds
      /\ \A i \in TxnIds : txn'[i] = txn[i]
      /\ txn'[Len(txn) + 1] = t
  BY <1>1 DEF LedgerInv, LedgerTypeOK, TxnIds
<1>4. SalesKept' /\ ledgerCall'[d] = LedgerIdle
  BY <1>1, <1>3, HungUpKept DEF SameSale
<1> QED
  BY <1>1, <1>2, <1>3, <1>4 DEF Insertable, t

LEMMA MergedSale ==
  ASSUME NEW base, NEW t, NEW stored \in TxnRow, SameSale(t, stored)
  PROVE  SameSale(Merged(base, t, stored), stored)
  BY DEF Merged, TxnRow, SameSale

LEMMA CommitSells ==
  ASSUME LedgerInv, SalesKept, NEW d \in Desks, CommitApproval(d)
  PROVE  NothingRecorded /\ SalesKept' /\ ledgerCall'[d] = LedgerIdle
<1> DEFINE c == ledgerCall[d]
           t == Merged(c.base, c.txn, txn[c.id])
<1>1. c.id \in TxnIds /\ SameSale(c.txn, txn[c.id]) /\ txn[c.id] \in TxnRow
  BY DEF CommitApproval, LedgerInv, CallKnown, SalesKept, SaleKept, KnownTxn
<1>2. SameSale(t, txn[c.id])
  BY <1>1, MergedSale
<1>3. txn' = [txn EXCEPT ![c.id] = t] /\ Hangup(d)
  BY DEF CommitApproval
<1> HIDE DEF t
<1>4. NothingRecorded
  BY <1>1, <1>2, <1>3 DEF NothingRecorded, TxnIds, SameSale, LedgerInv, LedgerTypeOK
<1> QED
  BY <1>3, <1>4, HungUpKept DEF NothingRecorded

LEMMA SaveSells ==
  ASSUME LedgerInv, SalesKept, NEW d \in Desks, SaveTransaction(d)
  PROVE  NothingRecorded /\ SalesKept' /\ ledgerCall'[d] = LedgerIdle
<1> DEFINE c == ledgerCall[d]
<1>1. c.id \in TxnIds /\ SameSale(c.txn, txn[c.id]) /\ Hangup(d)
  BY DEF SaveTransaction, LedgerInv, CallKnown, SalesKept, SaleKept
<1>2. txn' = txn \/ txn' = [txn EXCEPT ![c.id] = c.txn]
  BY DEF SaveTransaction
<1>3. NothingRecorded
  BY <1>1, <1>2 DEF NothingRecorded, TxnIds, SameSale, LedgerInv, LedgerTypeOK
<1> QED
  BY <1>1, <1>3, HungUpKept DEF NothingRecorded

\* A step that writes no transaction.
LEMMA QuietSells ==
  ASSUME LedgerInv, SalesKept, UNCHANGED txn
  PROVE  NothingRecorded /\ (UNCHANGED ledgerCall => SalesKept')
  BY DEF NothingRecorded, SameSale, TxnIds, SalesKept, SaleKept

LEMMA BeginSells ==
  ASSUME LedgerInv, SalesKept, NEW d \in Desks, BeginApproval(d)
  PROVE  NothingRecorded /\ SalesKept' /\ ledgerCall'[d].op = "approving"
         /\ ledgerCall'[d].id = ledgerCall[d].id
<1> DEFINE c == ledgerCall[d]
           next == ledgerCall'[d]
<1>1. c \in LedgerCalls /\ c.id \in TxnIds /\ SameSale(c.txn, txn[c.id]) /\ txn' = txn
  BY DEF BeginApproval, LedgerInv, CallTyped, CallKnown, SalesKept, SaleKept, ledger
<1>2. /\ next.op = "approving" /\ next.id = c.id /\ next.txn = c.txn
      /\ ledgerCall' = [ledgerCall EXCEPT ![d] = next]
  BY <1>1 DEF BeginApproval, LedgerInv, LedgerTypeOK, LedgerCalls
<1> HIDE DEF next
<1>3. SalesKept'
  BY <1>1, <1>2, CallsKept DEF SameSale, TxnIds
<1> QED
  BY <1>1, <1>2, <1>3, QuietSells DEF next

\* The steps on accounts, and what is refused or rolled back.
LEMMA OtherStepsSell ==
  ASSUME LedgerInv, SalesKept, NEW d \in Desks,
         \/ InsertRefused(d) \/ RollbackApproval(d) \/ InsertAccount(d) \/ StoreAccount(d)
         \/ DeleteAccount(d) \/ ClearOtherDefaults(d)
  PROVE  NothingRecorded /\ SalesKept' /\ ledgerCall'[d].op # "insert"
<1>1. txn' = txn
  BY DEF InsertRefused, RollbackApproval, InsertAccount, StoreAccount, DeleteAccount,
         ClearOtherDefaults, ledger
<1>2. CASE ClearOtherDefaults(d)
  <2>1. /\ ledgerCall' = [ledgerCall EXCEPT ![d] = ledgerCall'[d]]
        /\ ledgerCall'[d].op = "storeAccount"
    BY <1>2 DEF ClearOtherDefaults, LedgerInv, LedgerTypeOK, LedgerCalls
  <2> QED
    BY <1>1, <2>1, CallsKept, QuietSells DEF SameSale, TxnIds
<1>3. CASE ~ClearOtherDefaults(d)
  <2>1. Hangup(d)
    BY <1>3 DEF InsertRefused, RollbackApproval, InsertAccount, StoreAccount, DeleteAccount
  <2> QED
    BY <1>1, <2>1, HungUpKept, QuietSells, IdleTyped DEF SameSale, TxnIds
<1> QED
  BY <1>2, <1>3

\* A step of the ledger inserts the transaction of its call, or records nothing
\* new.
LEMMA StepSells ==
  ASSUME LedgerInv, SalesKept, NEW d \in Desks, LedgerStep(d), ~InsertTransaction(d)
  PROVE  NothingRecorded /\ SalesKept' /\ ledgerCall'[d].op # "insert"
  BY OtherStepsSell, BeginSells, CommitSells, SaveSells, IdleTyped DEF LedgerStep

LEMMA CreateSells ==
  ASSUME LedgerInv, SalesKept, NEW d \in Desks, NEW t \in TxnRow, CreateTransaction(d, t)
  PROVE  NothingRecorded /\ SalesKept' /\ ledgerCall'[d].op = "insert"
         /\ ledgerCall'[d].txn = Numbered(t)
<1> DEFINE u == Numbered(t)
           c == [LedgerIdle EXCEPT !.op = "insert", !.txn = u]
<1>1. ledgerCall' = [ledgerCall EXCEPT ![d] = c] /\ txn' = txn
  BY DEF CreateTransaction, Takes, ledger
<1>2. c.op = "insert" /\ c.txn = u
  BY DEF LedgerIdle
<1> HIDE DEF c, u
<1>3. ledgerCall'[d] = c
  BY <1>1 DEF LedgerInv, LedgerTypeOK
<1> QED
  BY <1>1, <1>2, <1>3, CallsKept, QuietSells DEF SameSale, TxnIds, u

LEMMA EditSells ==
  ASSUME LedgerInv, SalesKept, NEW d \in Desks, NEW i \in TxnIds,
         ApproveTransaction(d, i) \/ RejectTransaction(d, i) \/ RemoveTransaction(d, i)
  PROVE  NothingRecorded /\ SalesKept' /\ ledgerCall'[d].op \in {"approve", "save"}
         /\ ledgerCall'[d].id = i
<1>1. PICK status \in Status, op \in {"approve", "save"} :
        ledgerCall' = [ledgerCall EXCEPT ![d] =
          [LedgerIdle EXCEPT !.op = op, !.id = i, !.txn = [txn[i] EXCEPT !.status = status]]]
  BY DEF ApproveTransaction, RejectTransaction, RemoveTransaction, Edit, Takes, Status
<1> DEFINE t == [txn[i] EXCEPT !.status = status]
           c == [LedgerIdle EXCEPT !.op = op, !.id = i, !.txn = t]
<1>2. c.op = op /\ c.id = i /\ c.txn = t
  BY DEF LedgerIdle
<1>3. txn[i] \in TxnRow
  BY DEF LedgerInv, KnownTxn
<1>4. SameSale(t, txn[i])
  BY <1>3 DEF TxnRow, SameSale
<1>5. txn' = txn
  BY DEF ApproveTransaction, RejectTransaction, RemoveTransaction, Edit, ledger
<1>6. ledgerCall' = [ledgerCall EXCEPT ![d] = c]
  BY <1>1
<1> HIDE DEF c, t
<1>7. ledgerCall'[d] = c
  BY <1>6 DEF LedgerInv, LedgerTypeOK
<1>8. SalesKept'
  BY <1>2, <1>4, <1>5, <1>6, CallsKept DEF SameSale, TxnIds
<1> QED
  BY <1>2, <1>5, <1>7, <1>8, QuietSells

LEMMA CallOnAccountSells ==
  ASSUME LedgerInv, SalesKept, UNCHANGED txn, NEW d \in Desks,
         ledgerCall'[d].op \in {"openAccount", "changeAccount", "storeAccount", "removeAccount"},
         ledgerCall' = [ledgerCall EXCEPT ![d] = ledgerCall'[d]]
  PROVE  NothingRecorded /\ SalesKept' /\ ledgerCall'[d].op # "insert"
<1> QED
  BY CallsKept, QuietSells DEF SameSale, TxnIds

LEMMA AccountRequestsSell ==
  ASSUME LedgerInv, SalesKept, NEW d \in Desks, NEW a \in Accounts,
         \/ \E opening \in Openings, default \in BOOLEAN : OpenAccount(d, a, opening, default)
         \/ \E active \in BOOLEAN, isDefault \in {"yes", "no", "keep"} :
              ChangeAccount(d, a, active, isDefault)
         \/ RemoveAccount(d, a)
  PROVE  NothingRecorded /\ SalesKept' /\ ledgerCall'[d].op # "insert"
<1>1. txn' = txn
  BY DEF OpenAccount, ChangeAccount, RemoveAccount, ledger
<1>2. ASSUME NEW op \in {"openAccount", "changeAccount", "storeAccount"}, NEW row,
             Takes(d, [LedgerIdle EXCEPT !.op = op, !.account = a, !.row = row])
      PROVE  NothingRecorded /\ SalesKept' /\ ledgerCall'[d].op # "insert"
  <2> DEFINE c == [LedgerIdle EXCEPT !.op = op, !.account = a, !.row = row]
  <2>1. c.op = op
    BY DEF LedgerIdle
  <2>2. ledgerCall' = [ledgerCall EXCEPT ![d] = c]
    BY <1>2 DEF Takes
  <2> HIDE DEF c
  <2>3. ledgerCall'[d] = c
    BY <2>2 DEF LedgerInv, LedgerTypeOK
  <2>4. /\ c.op \in {"openAccount", "changeAccount", "storeAccount", "removeAccount"}
        /\ ledgerCall' = [ledgerCall EXCEPT ![d] = ledgerCall'[d]]
    BY <2>1, <2>2, <2>3
  <2> QED
    BY <1>1, <2>3, <2>4, CallOnAccountSells
<1>3. CASE RemoveAccount(d, a)
  <2> DEFINE c == [LedgerIdle EXCEPT !.op = "removeAccount", !.account = a]
  <2>1. c.op = "removeAccount"
    BY DEF LedgerIdle
  <2>2. ledgerCall' = [ledgerCall EXCEPT ![d] = c]
    BY <1>3 DEF RemoveAccount, Takes
  <2> HIDE DEF c
  <2>3. ledgerCall'[d] = c
    BY <2>2 DEF LedgerInv, LedgerTypeOK
  <2>4. /\ c.op \in {"openAccount", "changeAccount", "storeAccount", "removeAccount"}
        /\ ledgerCall' = [ledgerCall EXCEPT ![d] = ledgerCall'[d]]
    BY <2>1, <2>2, <2>3
  <2> QED
    BY <1>1, <2>3, <2>4, CallOnAccountSells
<1> QED
  BY <1>2, <1>3 DEF OpenAccount, ChangeAccount

\* What the staff ask for is of no order.
LEMMA RequestSells ==
  ASSUME LedgerInv, SalesKept, "update" \notin LedgerHandlers, NEW d \in Desks, LedgerRequest(d)
  PROVE  /\ NothingRecorded /\ SalesKept'
         /\ ledgerCall'[d].op = "insert" => ledgerCall'[d].txn.order = NoOrder
<1>1. ASSUME NEW t \in NewTransactions, CreateTransaction(d, t)
      PROVE  /\ NothingRecorded /\ SalesKept'
             /\ ledgerCall'[d].op = "insert" => ledgerCall'[d].txn.order = NoOrder
  <2>1. t \in TxnRow /\ t.order = NoOrder
    BY LedgerAssumption
    DEF NewTransactions, TxnRow, Status, References, NoReference, Categories
  <2>2. Numbered(t).order = NoOrder
    BY <2>1 DEF Numbered, TxnRow
  <2> QED
    BY <1>1, <2>1, <2>2, CreateSells
<1> QED
  BY <1>1, EditSells, AccountRequestsSell DEF LedgerRequest

-----------------------------------------------------------------------------
(* Movements: what a row says of an order stays.                           *)

NothingMoved ==
  MovementIds' = MovementIds /\ \A i \in MovementIds : SameGoods(movement'[i], movement[i])

Inserting == { "insert", "adjust" }

\* A step that writes no movement.
LEMMA QuietMoves ==
  ASSUME UNCHANGED movement
  PROVE  NothingMoved
  BY DEF NothingMoved, SameGoods, MovementIds

LEMMA FinishMoves ==
  ASSUME InventoryInv, NEW d \in Desks, Finish(d)
  PROVE  stockCall'[d] = StockIdle /\ stockCall'[d].op \notin Inserting
  BY StockIdleTyped DEF Finish, InventoryInv, InventoryTypeOK, Inserting

LEMMA InsertMoves ==
  ASSUME InventoryInv, NEW d \in Desks, InsertMovement(d)
  PROVE  /\ stockCall'[d].op \notin Inserting /\ stockCall[d].op \in Inserting
         /\ stockCall[d].op = "insert" => stockCall'[d] = StockIdle
         /\ MovementIds' = MovementIds \cup {Len(movement) + 1}
         /\ Len(movement) + 1 \notin MovementIds /\ Len(movement) + 1 \in Nat
         /\ \A i \in MovementIds : movement'[i] = movement[i]
         /\ movement'[Len(movement) + 1] = stockCall[d].movement
<1> DEFINE m == stockCall[d].movement
<1>1. /\ m \in MovementRow /\ movement' = Append(movement, m)
      /\ stockCall[d].op \in {"insert", "adjust"}
  BY DEF InsertMovement, InventoryInv, StockCallTyped, KnownMovement
<1> HIDE DEF m
<1>2. /\ MovementIds' = MovementIds \cup {Len(movement) + 1}
      /\ Len(movement) + 1 \notin MovementIds /\ Len(movement) + 1 \in Nat
      /\ \A i \in MovementIds : movement'[i] = movement[i]
      /\ movement'[Len(movement) + 1] = m
  BY <1>1 DEF InventoryInv, InventoryTypeOK, MovementIds
<1>3. /\ stockCall'[d].op \notin Inserting
      /\ stockCall[d].op = "insert" => stockCall'[d] = StockIdle
  <2>1. CASE stockCall[d].op = "insert"
    BY <2>1, FinishMoves DEF InsertMovement
  <2>2. CASE stockCall[d].op = "adjust"
    <3> DEFINE next == [StockIdle EXCEPT !.op = "check", !.id = Len(movement) + 1]
    <3>1. next.op = "check"
      BY DEF StockIdle
    <3>2. stockCall' = [stockCall EXCEPT ![d] = next]
      BY <2>2 DEF InsertMovement
    <3> HIDE DEF next
    <3> QED
      BY <2>2, <3>1, <3>2 DEF InventoryInv, InventoryTypeOK, Inserting
  <2> QED
    BY <1>1, <2>1, <2>2
<1> QED
  BY <1>1, <1>2, <1>3 DEF m, Inserting

LEMMA WrittenMoves ==
  ASSUME InventoryInv, NEW d \in Desks, CommitMovement(d) \/ SaveMovement(d)
  PROVE  NothingMoved /\ stockCall'[d] = StockIdle
<1> DEFINE c == stockCall[d]
           merged == Merged(c.base, c.movement, movement[c.id])
<1>1. /\ c.id \in MovementIds /\ SameGoods(c.movement, movement[c.id])
      /\ KnownMovement(c.movement) /\ c.base \in MovementRow /\ KnownMovement(movement[c.id])
      /\ Finish(d)
  BY DEF CommitMovement, SaveMovement, InventoryInv, StockCallTyped, StockCallKnown, StockCalls
<1>2. SameGoods(merged, movement[c.id])
  BY <1>1, MovementMerged
<1> HIDE DEF merged
<1>3. PICK m \in {merged, c.movement} : movement' = [movement EXCEPT ![c.id] = m]
  BY DEF CommitMovement, SaveMovement, merged
<1>4. NothingMoved
  BY <1>1, <1>2, <1>3 DEF NothingMoved, MovementIds, SameGoods, InventoryInv, InventoryTypeOK
<1> QED
  BY <1>1, <1>4, FinishMoves

LEMMA StepMoves ==
  ASSUME InventoryInv, NEW d \in Desks, InventoryStep(d), ~InsertMovement(d)
  PROVE  NothingMoved /\ stockCall'[d].op \notin Inserting
<1>1. CASE CommitMovement(d) \/ SaveMovement(d)
  BY <1>1, WrittenMoves, StockIdleTyped DEF Inserting
<1>2. CASE ClearOtherWarehouses(d)
  BY <1>2, QuietMoves DEF ClearOtherWarehouses, InventoryInv, InventoryTypeOK, StockCalls, Inserting
<1>3. CASE CheckAdjustment(d)
  <2>1. Approving(stockCall[d].id).op = "approve"
    BY DEF Approving, StockIdle
  <2>2. stockCall' = [stockCall EXCEPT ![d] = Approving(stockCall[d].id)] \/ Finish(d)
    BY <1>3 DEF CheckAdjustment
  <2>3. UNCHANGED movement
    BY <1>3 DEF CheckAdjustment, inventory
  <2> QED
    BY <2>1, <2>2, <2>3, FinishMoves, QuietMoves DEF InventoryInv, InventoryTypeOK, Inserting
<1>4. CASE BeginMovement(d)
  <2>1. stockCall'[d].op \in {"reaching", "moving"}
    BY <1>4 DEF BeginMovement, InventoryInv, InventoryTypeOK, StockCalls
  <2> QED
    BY <1>4, <2>1, QuietMoves DEF BeginMovement, inventory, Inserting
<1>5. CASE ReachDestination(d)
  <2> DEFINE c == stockCall[d]
             x == << c.movement.product, c.movement.dest >>
             row == [stock[x] EXCEPT !.quantity = @ + c.movement.quantity,
                                     !.available = @ + c.movement.quantity]
             next == [c EXCEPT !.op = "moving", !.dest = row]
  <2>2. stockCall' = [stockCall EXCEPT ![d] = next] \/ Finish(d)
    BY <1>5 DEF ReachDestination
  <2> HIDE DEF row
  <2>3. next.op = "moving"
    BY DEF InventoryInv, InventoryTypeOK, StockCalls
  <2> HIDE DEF next
  <2>1. stockCall'[d].op = "moving" \/ Finish(d)
    BY <2>2, <2>3 DEF InventoryInv, InventoryTypeOK
  <2> QED
    BY <1>5, <2>1, FinishMoves, QuietMoves DEF ReachDestination, Inserting
<1>6. CASE MovementRefused(d) \/ InsufficientStock(d) \/ RollbackMovement(d) \/ InsertWarehouse(d)
             \/ StoreWarehouse(d) \/ DeleteWarehouse(d)
  BY <1>6, FinishMoves, QuietMoves
  DEF MovementRefused, InsufficientStock, RollbackMovement, InsertWarehouse, StoreWarehouse,
      DeleteWarehouse, inventory
<1> QED
  BY <1>1, <1>2, <1>3, <1>4, <1>5, <1>6 DEF InventoryStep

LEMMA CreateMoves ==
  ASSUME InventoryInv, NEW d \in Desks, NEW m \in MovementRow, CreateMovement(d, m)
  PROVE  /\ NothingMoved /\ stockCall'[d].op = "insert"
         /\ stockCall'[d].movement.product = m.product
         /\ stockCall'[d].movement.order = m.order
<1> DEFINE number == Numbering(m.type)
           after == stock'[<< m.product, m.warehouse >>].quantity
           n == [m EXCEPT !.number = number, !.after = after]
           c == [StockIdle EXCEPT !.op = "insert", !.movement = n]
<1>1. stockCall' = [stockCall EXCEPT ![d] = c] /\ UNCHANGED movement
  BY DEF CreateMovement, Handles
<1> HIDE DEF number, after
<1>2. n.product = m.product /\ n.order = m.order
  BY DEF MovementRow
<1> HIDE DEF n
<1>3. c.op = "insert" /\ c.movement = n
  BY DEF StockIdle
<1> HIDE DEF c
<1>4. stockCall'[d] = c
  BY <1>1 DEF InventoryInv, InventoryTypeOK
<1> QED
  BY <1>1, <1>2, <1>3, <1>4, QuietMoves

LEMMA AdjustMoves ==
  ASSUME InventoryInv, NEW d \in Desks, NEW p \in Products, NEW w \in Warehouses, NEW q \in Nat,
         AdjustStock(d, p, w, q)
  PROVE  NothingMoved /\ stockCall'[d].op = "adjust" /\ stockCall'[d].movement.order = NoOrder
<1>1. PICK n : stockCall' = [stockCall EXCEPT ![d] =
          [StockIdle EXCEPT !.op = "adjust",
             !.movement = [ type |-> "ADJUSTMENT", status |-> "PENDING", product |-> p,
               warehouse |-> w, dest |-> NoWarehouse, quantity |-> n,
               after |-> q, number |-> Numbering("ADJUSTMENT"), order |-> NoOrder ]]]
  BY DEF AdjustStock, Handles
<1>2. UNCHANGED movement
  BY DEF AdjustStock
<1> DEFINE number == Numbering("ADJUSTMENT")
           m == [ type |-> "ADJUSTMENT", status |-> "PENDING", product |-> p,
                  warehouse |-> w, dest |-> NoWarehouse, quantity |-> n,
                  after |-> q, number |-> number, order |-> NoOrder ]
           c == [StockIdle EXCEPT !.op = "adjust", !.movement = m]
<1>3. c.op = "adjust" /\ c.movement = m /\ m.order = NoOrder
  BY DEF StockIdle
<1>4. stockCall' = [stockCall EXCEPT ![d] = c]
  BY <1>1
<1> HIDE DEF c, m
<1>5. stockCall'[d] = c
  BY <1>4 DEF InventoryInv, InventoryTypeOK
<1> QED
  BY <1>2, <1>3, <1>5, QuietMoves

\* The requests that create nothing.
LEMMA OtherRequestsMove ==
  ASSUME InventoryInv, NEW d \in Desks,
         \/ \E i \in MovementIds : ApproveMovement(d, i) \/ RejectMovement(d, i)
         \/ \E i \in MovementIds, status \in MovementStatus, q \in Quantities :
              UpdateMovement(d, i, status, q)
         \/ \E w \in Warehouses, default \in BOOLEAN : OpenWarehouse(d, w, default)
         \/ \E w \in Warehouses, active \in BOOLEAN, isDefault \in {"yes", "no", "keep"} :
              ChangeWarehouse(d, w, active, isDefault)
         \/ \E w \in Warehouses : RemoveWarehouse(d, w)
  PROVE  NothingMoved /\ stockCall'[d].op \notin Inserting
<1>1. UNCHANGED movement
  BY DEF ApproveMovement, RejectMovement, UpdateMovement, EditMovement, OpenWarehouse,
         ChangeWarehouse, RemoveWarehouse, inventory
<1>2. stockCall'[d].op \notin Inserting
  <2>1. ASSUME NEW i \in MovementIds, ApproveMovement(d, i)
        PROVE  stockCall'[d].op \notin Inserting
    <3> DEFINE c == [StockIdle EXCEPT !.op = "approve", !.id = i,
                                !.movement = [movement[i] EXCEPT !.status = "APPROVED"]]
    <3>1. stockCall' = [stockCall EXCEPT ![d] = c]
      BY <2>1 DEF ApproveMovement, Approving, Handles
    <3>2. c.op \notin Inserting
      BY DEF StockIdle, Inserting
    <3> HIDE DEF c
    <3>3. stockCall'[d] = c
      BY <3>1 DEF InventoryInv, InventoryTypeOK
    <3> QED
      BY <3>2, <3>3
  <2>2. ASSUME NEW i \in MovementIds, RejectMovement(d, i)
        PROVE  stockCall'[d].op \notin Inserting
    <3> DEFINE c == [StockIdle EXCEPT !.op = "save", !.id = i,
                                !.movement = [movement[i] EXCEPT !.status = "REJECTED"]]
    <3>1. stockCall' = [stockCall EXCEPT ![d] = c]
      BY <2>2 DEF RejectMovement, EditMovement, Handles
    <3>2. c.op \notin Inserting
      BY DEF StockIdle, Inserting
    <3> HIDE DEF c
    <3>3. stockCall'[d] = c
      BY <3>1 DEF InventoryInv, InventoryTypeOK
    <3> QED
      BY <3>2, <3>3
  <2>3. ASSUME NEW i \in MovementIds, NEW status, NEW q, UpdateMovement(d, i, status, q)
        PROVE  stockCall'[d].op \notin Inserting
    <3> DEFINE c == [StockIdle EXCEPT !.op = "save", !.id = i,
                     !.movement = [movement[i] EXCEPT !.status = status, !.quantity = q]]
    <3>1. stockCall' = [stockCall EXCEPT ![d] = c]
      BY <2>3 DEF UpdateMovement, EditMovement, Handles
    <3>2. c.op \notin Inserting
      BY DEF StockIdle, Inserting
    <3> HIDE DEF c
    <3>3. stockCall'[d] = c
      BY <3>1 DEF InventoryInv, InventoryTypeOK
    <3> QED
      BY <3>2, <3>3
  <2>4. ASSUME NEW w \in Warehouses, NEW default, OpenWarehouse(d, w, default)
        PROVE  stockCall'[d].op \notin Inserting
    <3> DEFINE c == [StockIdle EXCEPT !.op = "openWarehouse", !.warehouse = w,
                     !.row = [ exists |-> TRUE, active |-> TRUE, default |-> default ]]
    <3>1. stockCall' = [stockCall EXCEPT ![d] = c]
      BY <2>4 DEF OpenWarehouse, Handles
    <3>2. c.op \notin Inserting
      BY DEF StockIdle, Inserting
    <3> HIDE DEF c
    <3>3. stockCall'[d] = c
      BY <3>1 DEF InventoryInv, InventoryTypeOK
    <3> QED
      BY <3>2, <3>3
  <2>5. ASSUME NEW w \in Warehouses, NEW active, NEW isDefault,
               ChangeWarehouse(d, w, active, isDefault)
        PROVE  stockCall'[d].op \notin Inserting
    <3> DEFINE c == [StockIdle EXCEPT
                     !.op = IF isDefault = "yes" THEN "changeWarehouse" ELSE "storeWarehouse",
                     !.warehouse = w,
                     !.row = [warehouse[w] EXCEPT
                       !.active = active,
                       !.default = isDefault = "yes" \/ (isDefault = "keep" /\ @)]]
    <3>1. stockCall' = [stockCall EXCEPT ![d] = c]
      BY <2>5 DEF ChangeWarehouse, Handles
    <3>2. c.op \notin Inserting
      BY DEF StockIdle, Inserting
    <3> HIDE DEF c
    <3>3. stockCall'[d] = c
      BY <3>1 DEF InventoryInv, InventoryTypeOK
    <3> QED
      BY <3>2, <3>3
  <2>6. ASSUME NEW w \in Warehouses, RemoveWarehouse(d, w)
        PROVE  stockCall'[d].op \notin Inserting
    <3> DEFINE c == [StockIdle EXCEPT !.op = "removeWarehouse", !.warehouse = w]
    <3>1. stockCall' = [stockCall EXCEPT ![d] = c]
      BY <2>6 DEF RemoveWarehouse, Handles
    <3>2. c.op \notin Inserting
      BY DEF StockIdle, Inserting
    <3> HIDE DEF c
    <3>3. stockCall'[d] = c
      BY <3>1 DEF InventoryInv, InventoryTypeOK
    <3> QED
      BY <3>2, <3>3
  <2> QED
    BY <2>1, <2>2, <2>3, <2>4, <2>5, <2>6
<1> QED
  BY <1>1, <1>2, QuietMoves

LEMMA RequestMoves ==
  ASSUME InventoryInv, NEW d \in Desks, InventoryRequest(d)
  PROVE  /\ NothingMoved
         /\ stockCall'[d].op \in Inserting => stockCall'[d].movement.order = NoOrder
<1>1. ASSUME NEW m \in NewMovements, CreateMovement(d, m)
      PROVE  NothingMoved /\ stockCall'[d].movement.order = NoOrder
  <2>1. /\ m.product \in Products /\ m.warehouse \in Warehouses /\ m.order = NoOrder
        /\ m.quantity \in Nat /\ m.after = 0 /\ m.number = 0
    BY InventoryAssumption DEF NewMovements
  <2>2. m \in MovementRow
    BY <2>1 DEF NewMovements, MovementRow, MovementStatus
  <2> QED
    BY <1>1, <2>1, <2>2, CreateMoves
<1>2. ASSUME NEW p \in Products, NEW w \in Warehouses, NEW q \in Quantities \cup {0},
             AdjustStock(d, p, w, q)
      PROVE  NothingMoved /\ stockCall'[d].movement.order = NoOrder
  BY <1>2, AdjustMoves, InventoryAssumption
<1>3. ASSUME NEW p \in Products, NEW w \in Warehouses, AdjustNothing(d, p, w)
      PROVE  NothingMoved /\ stockCall'[d].op \notin Inserting
  BY <1>3, QuietMoves, StockIdleTyped DEF AdjustNothing, Inserting
<1> QED
  BY <1>1, <1>2, <1>3, OtherRequestsMove DEF InventoryRequest

-----------------------------------------------------------------------------
(* What the listeners have recorded of an event, and what belongs to it.    *)

OfOrder(b) == b.order \in Orders

\* The income of b's event is in the books.
Recorded(b) == OfOrder(b) /\ b.stage \notin {"account", "income"}

\* b is the event of a payment; what it has still to move are the last items
\* of its order.
BookingFits(b) ==
  OfOrder(b) =>
    /\ \E pay \in PaidWith(b.order) : b.ref = << "AUTHORITY", pay >>
    /\ Len(b.todo) <= Len(Items[b.order])
    /\ \A n \in 1 .. Len(b.todo) :
         b.todo[n][2] = Items[b.order][Len(Items[b.order]) - Len(b.todo) + n][1]
    /\ Recorded(b) => \E i \in Sales(b.order) : txn[i].ref = b.ref

RefsUnique == \A i, j \in TxnIds : txn[i].ref = txn[j].ref => i = j

\* No two desks are past the income of the same payment.
OneEvent ==
  \A d, e \in Desks :
    Recorded(booking[d]) /\ Recorded(booking[e]) /\ booking[d].ref = booking[e].ref => d = e

SalesPaid ==
  \A o \in Orders : \A i \in Sales(o) : \E pay \in PaidWith(o) : txn[i].ref = << "AUTHORITY", pay >>

Shipped == { i \in MovementIds : movement[i].order \in Orders }

\* How many items of its order b has begun to move.
Begun(b) == Len(Items[b.order]) - Len(b.todo) + (IF b.stage = "ship" THEN 1 ELSE 0)

\* f gives every shipment a sale of its order and the item of the order that
\* was moved for that sale.
Assigned(f) ==
  /\ \A i \in Shipped :
       /\ f[i][1] \in Sales(movement[i].order)
       /\ f[i][2] \in DOMAIN Items[movement[i].order]
       /\ Items[movement[i].order][f[i][2]][1] = movement[i].product
  /\ \A i, j \in Shipped : f[i] = f[j] => i = j
  /\ \A i \in Shipped, d \in Desks :
       Recorded(booking[d]) /\ txn[f[i][1]].ref = booking[d].ref => f[i][2] <= Begun(booking[d])

Bookkeeping ==
  /\ \A d \in Desks : BookingFits(booking[d])
  /\ OneEvent
  /\ SalesPaid
  /\ \E f \in [Shipped -> TxnIds \X Nat] : Assigned(f)

NoNewSale ==
  /\ \A i \in TxnIds : i \in TxnIds' /\ SameSale(txn'[i], txn[i])
  /\ \A o \in Orders : Sales(o)' = Sales(o)

NoNewShipment ==
  Shipped' = Shipped /\ \A i \in Shipped : SameGoods(movement'[i], movement[i])

LEMMA PaidStays ==
  ASSUME UNCHANGED paid
  PROVE  \A o \in Orders : PaidWith(o) \subseteq PaidWith(o)'
  BY DEF PaidWith

LEMMA BegunTyped ==
  ASSUME NEW b \in Bookings, OfOrder(b)
  PROVE  /\ Begun(b) \in Int /\ Len(b.todo) \in Nat
         /\ Items[b.order] \in Seq(Products \X (Nat \ {0})) /\ Len(Items[b.order]) \in Nat
<1>1. Items[b.order] \in Seq(Products \X (Nat \ {0}))
  BY OrderAccountingAssumption DEF OfOrder
<1>2. Len(b.todo) \in Nat /\ Len(Items[b.order]) \in Nat
  BY <1>1 DEF Bookings
<1> QED
  BY <1>1, <1>2 DEF Begun

\* A step that neither sells nor ships: an event begins, advances or ends.
LEMMA Advances ==
  ASSUME AccountingInv, AccountingInv', Bookkeeping, NEW d \in Desks, NoNewSale, NoNewShipment,
         \A o \in Orders : PaidWith(o) \subseteq PaidWith(o)',
         booking' = [booking EXCEPT ![d] = booking'[d]],
         BookingFits(booking[d])',
         Recorded(booking[d])' =>
           /\ Recorded(booking[d]) /\ booking'[d].ref = booking[d].ref
           /\ Begun(booking[d])' >= Begun(booking[d])
  PROVE  Bookkeeping'
<1>1. \A e \in Desks : e # d => booking'[e] = booking[e]
  BY DEF AccountingInv, BookingInv
<1>2. \A o \in Orders : Sales(o)' = Sales(o) /\ \A i \in Sales(o) : SameSale(txn'[i], txn[i])
  BY DEF NoNewSale, Sales
<1>3. \A e \in Desks : BookingFits(booking[e])'
  <2>1. ASSUME NEW e \in Desks, e # d PROVE BookingFits(booking[e])'
    <3>1. BookingFits(booking[e]) /\ booking'[e] = booking[e]
      BY <1>1, <2>1 DEF Bookkeeping
    <3> QED
      BY <1>2, <3>1 DEF BookingFits, OfOrder, Recorded, SameSale
  <2> QED
    BY <2>1
<1>4. OneEvent'
  BY <1>1 DEF Bookkeeping, OneEvent, Recorded, OfOrder
<1>5. SalesPaid'
  BY <1>2 DEF Bookkeeping, SalesPaid, SameSale
<1>6. PICK f \in [Shipped -> TxnIds \X Nat] : Assigned(f)
  BY DEF Bookkeeping
<1>7. f \in [Shipped' -> TxnIds' \X Nat]
  BY DEF NoNewSale, NoNewShipment
<1>8. \A i \in Shipped : /\ movement'[i].order = movement[i].order /\ movement[i].order \in Orders
                         /\ movement'[i].product = movement[i].product
  BY DEF NoNewShipment, SameGoods, Shipped
<1>9. ASSUME NEW i \in Shipped, NEW e \in Desks, Recorded(booking[e])',
             txn'[f[i][1]].ref = booking'[e].ref
      PROVE  f[i][2] <= Begun(booking[e])'
  <2>1. f[i][1] \in Sales(movement[i].order) /\ f[i][2] \in Nat
    BY <1>6 DEF Assigned
  <2>2. txn[f[i][1]].ref = booking'[e].ref
    BY <1>2, <1>8, <1>9, <2>1 DEF SameSale
  <2>3. booking'[e].ref = booking[e].ref /\ Recorded(booking[e])
    BY <1>1, <1>9 DEF Recorded, OfOrder
  <2>4. f[i][2] <= Begun(booking[e])
    BY <1>6, <2>2, <2>3 DEF Assigned
  <2>5. CASE e # d
    BY <1>1, <2>4, <2>5 DEF Begun
  <2>6. CASE e = d
    <3>1. Begun(booking[d])' >= Begun(booking[d])
      BY <1>9, <2>6
    <3>2. Begun(booking[d]) \in Int /\ Begun(booking[d])' \in Int
      <4>1. booking[d] \in Bookings /\ OfOrder(booking[d])
        BY <2>3, <2>6 DEF AccountingInv, BookingInv, Recorded
      <4>2. booking'[d] \in Bookings /\ OfOrder(booking'[d])
        BY <1>9, <2>6 DEF AccountingInv, BookingInv, Recorded, OfOrder
      <4>3. Begun(booking[d])' = Begun(booking'[d])
        BY DEF Begun
      <4> QED
        BY <4>1, <4>2, <4>3, BegunTyped
    <3> QED
      BY <2>1, <2>4, <2>6, <3>1, <3>2
  <2> QED
    BY <2>5, <2>6
<1>10. Assigned(f)'
  <2>1. Shipped' = Shipped
    BY DEF NoNewShipment
  <2>2. \A i \in Shipped : /\ f[i][1] \in Sales(movement[i].order)'
                          /\ f[i][2] \in DOMAIN Items[movement'[i].order]
                          /\ Items[movement'[i].order][f[i][2]][1] = movement'[i].product
    BY <1>2, <1>6, <1>8 DEF Assigned
  <2>3. \A i, j \in Shipped : f[i] = f[j] => i = j
    BY <1>6 DEF Assigned
  <2> QED
    BY <1>9, <2>1, <2>2, <2>3 DEF Assigned
<1> QED
  BY <1>3, <1>4, <1>5, <1>7, <1>10 DEF Bookkeeping

LEMMA Staged ==
  ASSUME NEW b \in Bookings, NEW stage, NEW i
  PROVE  LET next == [b EXCEPT !.stage = stage, !.id = i]
         IN  /\ next.stage = stage /\ next.id = i /\ next.order = b.order /\ next.ref = b.ref
             /\ next.todo = b.todo
  BY DEF Bookings

\* The income of an event is inserted: its reference is new, so nothing has been
\* shipped for it.
LEMMA Sells ==
  ASSUME AccountingInv, SalesKept, Bookkeeping, NEW d \in Desks, IncomeRecorded(d),
         UNCHANGED paid,
         ledgerCall[d].txn = MainIncome(booking[d])
  PROVE  Bookkeeping'
<1> DEFINE b == booking[d]
           n == Len(txn) + 1
<1>1. /\ BookingTyped(b) /\ b.stage = "income" /\ b.order \in Orders /\ b \in Bookings
      /\ LedgerInv /\ booking \in [Desks -> Bookings]
  BY DEF AccountingInv, BookingInv, BookingTyped, IncomeRecorded, Turn
<1>2. /\ n \notin TxnIds /\ TxnIds' = TxnIds \cup {n}
      /\ \A i \in TxnIds : txn'[i] = txn[i]
      /\ txn'[n] = MainIncome(b) /\ \A i \in TxnIds : txn[i].ref # b.ref
  <2>1. FreeReference(ledgerCall[d].txn.ref) /\ MainIncome(b).ref = b.ref
    BY <1>1, InsertSells DEF IncomeRecorded, MainIncome, Income
  <2> QED
    BY <1>1, <2>1, InsertSells DEF IncomeRecorded, FreeReference
<1>3. /\ txn'[n].ref = b.ref /\ txn'[n].order = b.order /\ txn'[n].category = "PRODUCT_SALE"
  BY <1>2 DEF MainIncome, Income
<1> HIDE DEF n
<1>4. /\ booking'[d].stage = "charges" /\ booking'[d].order = b.order
      /\ booking'[d].ref = b.ref /\ booking'[d].todo = b.todo
      /\ \A e \in Desks : e # d => booking'[e] = booking[e]
  <2> DEFINE next == [b EXCEPT !.stage = "charges", !.id = Len(txn) + 1]
  <2>1. booking' = [booking EXCEPT ![d] = next]
    BY DEF IncomeRecorded, Goes
  <2>2. /\ next.stage = "charges" /\ next.order = b.order /\ next.ref = b.ref
        /\ next.todo = b.todo
    BY <1>1, Staged
  <2> HIDE DEF next
  <2> QED
    BY <1>1, <2>1, <2>2
<1>5. /\ \A o \in Orders : Sales(o) \subseteq Sales(o)'
      /\ \A o \in Orders : \A i \in Sales(o)' : i \in Sales(o) \/ (i = n /\ o = b.order)
      /\ n \in Sales(b.order)'
  <2>1. \A i \in TxnIds' : i \in TxnIds \/ i = n
    BY <1>2
  <2>2. \A i \in TxnIds : i \in TxnIds' /\ txn'[i] = txn[i]
    BY <1>2
  <2>3. ASSUME NEW o \in Orders, NEW i \in Sales(o) PROVE i \in Sales(o)'
    BY <2>2 DEF Sales
  <2>4. ASSUME NEW o \in Orders, NEW i \in Sales(o)' PROVE i \in Sales(o) \/ (i = n /\ o = b.order)
    BY <1>3, <2>1, <2>2 DEF Sales
  <2>5. n \in Sales(b.order)'
    BY <1>2, <1>3, <1>4 DEF Sales
  <2> QED
    BY <2>3, <2>4, <2>5
<1>6. UNCHANGED << movement, paid >> /\ \A o \in Orders : PaidWith(o)' = PaidWith(o)
  BY DEF IncomeRecorded, inventoryVars, PaidWith
<1>7. \A i \in TxnIds : txn'[i] = txn[i] /\ i # n
  BY <1>2
<1>8. PICK pay \in PaidWith(b.order) : b.ref = << "AUTHORITY", pay >>
  BY <1>1 DEF Bookkeeping, BookingFits, OfOrder
<1>9. \A e \in Desks : BookingFits(booking[e])'
  <2>1. ASSUME NEW e \in Desks, e # d PROVE BookingFits(booking[e])'
    <3>1. BookingFits(booking[e]) /\ booking'[e] = booking[e]
      BY <1>4, <2>1 DEF Bookkeeping
    <3>2. \A o \in Orders : \A i \in Sales(o) : i \in Sales(o)' /\ txn'[i] = txn[i]
      BY <1>5, <1>7 DEF Sales
    <3> QED
      BY <1>6, <3>1, <3>2 DEF BookingFits, OfOrder, Recorded
  <2>2. BookingFits(booking[d])'
    <3>1. BookingFits(booking[d])
      BY DEF Bookkeeping
    <3> QED
      BY <1>1, <1>3, <1>4, <1>5, <1>6, <1>8, <3>1 DEF BookingFits, OfOrder
  <2> QED
    BY <2>1, <2>2
<1>10. \A e \in Desks : Recorded(booking[e]) => booking[e].ref # b.ref
  <2>1. \A e \in Desks : Recorded(booking[e]) =>
          \E i \in Sales(booking[e].order) : txn[i].ref = booking[e].ref
    BY DEF Bookkeeping, BookingFits, Recorded
  <2> QED
    BY <1>2, <2>1 DEF Sales
<1>11. OneEvent'
  <2>1. \A e \in Desks : e # d => (Recorded(booking[e])' <=> Recorded(booking[e]))
    BY <1>4 DEF Recorded, OfOrder
  <2>2. ASSUME NEW e \in Desks, NEW g \in Desks, e # g, Recorded(booking[e]), Recorded(booking[g])
        PROVE  booking[e].ref # booking[g].ref
    BY <2>2 DEF Bookkeeping, OneEvent
  <2>3. ASSUME NEW e \in Desks, NEW g \in Desks, e # g, Recorded(booking[e])', Recorded(booking[g])'
        PROVE  booking'[e].ref # booking'[g].ref
    BY <1>4, <1>10, <2>1, <2>2, <2>3
  <2> QED
    BY <2>3 DEF OneEvent
<1>12. SalesPaid'
  <2>1. ASSUME NEW o \in Orders, NEW i \in Sales(o)'
        PROVE  \E p \in PaidWith(o)' : txn'[i].ref = << "AUTHORITY", p >>
    <3>1. CASE i \in Sales(o)
      <4>1. \E p \in PaidWith(o) : txn[i].ref = << "AUTHORITY", p >>
        BY <3>1 DEF Bookkeeping, SalesPaid
      <4> QED
        BY <1>6, <1>7, <3>1, <4>1 DEF Sales
    <3>2. CASE i = n /\ o = b.order
      BY <1>3, <1>6, <1>8, <3>2
    <3> QED
      BY <1>5, <3>1, <3>2
  <2> QED
    BY <2>1 DEF SalesPaid
<1>13. PICK f \in [Shipped -> TxnIds \X Nat] : Assigned(f)
  BY DEF Bookkeeping
<1>14. Shipped' = Shipped
  BY <1>6 DEF Shipped, MovementIds
<1>15. f \in [Shipped' -> TxnIds' \X Nat]
  BY <1>2, <1>14
<1>16. Assigned(f)'
  <2>1. \A i \in Shipped : f[i][1] \in TxnIds /\ txn'[f[i][1]] = txn[f[i][1]]
    BY <1>7, <1>13
  <2>2. ASSUME NEW i \in Shipped
        PROVE  /\ f[i][1] \in Sales(movement[i].order)'
               /\ f[i][2] \in DOMAIN Items[movement'[i].order]
               /\ Items[movement'[i].order][f[i][2]][1] = movement'[i].product
    <3>1. movement'[i] = movement[i] /\ movement[i].order \in Orders
      BY <1>6 DEF Shipped
    <3> QED
      BY <1>5, <1>13, <3>1 DEF Assigned
  <2>3. ASSUME NEW i \in Shipped, NEW e \in Desks, Recorded(booking[e])',
               txn'[f[i][1]].ref = booking'[e].ref
        PROVE  f[i][2] <= Begun(booking[e])'
    <3>1. e # d
      BY <1>2, <1>4, <2>1, <2>3
    <3>2. booking'[e] = booking[e] /\ Recorded(booking[e])
      BY <1>4, <2>3, <3>1 DEF Recorded, OfOrder
    <3>3. f[i][2] <= Begun(booking[e])
      BY <1>13, <2>1, <2>3, <3>2 DEF Assigned
    <3> QED
      BY <3>2, <3>3 DEF Begun
  <2>4. \A i, j \in Shipped : f[i] = f[j] => i = j
    BY <1>13 DEF Assigned
  <2> QED
    BY <1>14, <2>2, <2>3, <2>4 DEF Assigned
<1> QED
  BY <1>9, <1>11, <1>12, <1>15, <1>16 DEF Bookkeeping

\* An item of an order is moved: the next one that its event has to move.
LEMMA Ships ==
  ASSUME AccountingInv, AccountingInv', Bookkeeping, NEW d \in Desks, ItemMoves(d), UNCHANGED paid,
         OfOrder(booking[d]), stockCall[d].movement.order = booking[d].order,
         stockCall[d].movement.product = Head(booking[d].todo)[2]
  PROVE  Bookkeeping'
<1> DEFINE b == booking[d]
<1>0. PICK o, n, k : /\ o = b.order /\ n = Len(movement) + 1
                     /\ k = Len(Items[o]) - Len(b.todo) + 1
  OBVIOUS
<1>1. /\ b.stage = "items" /\ b.todo # << >> /\ b \in Bookings /\ o \in Orders
      /\ InventoryInv /\ booking \in [Desks -> Bookings]
      /\ b.todo \in Seq({"IN", "OUT"} \X Products \X Nat)
  BY <1>0 DEF AccountingInv, BookingInv, ItemMoves, Turn, OfOrder, Bookings
<1>2. /\ n \notin MovementIds /\ MovementIds' = MovementIds \cup {n}
      /\ \A i \in MovementIds : movement'[i] = movement[i]
      /\ movement'[n].order = o /\ movement'[n].product = Head(b.todo)[2]
  BY <1>0, <1>1, InsertMoves DEF ItemMoves
<1>3. /\ booking'[d].stage = "ship" /\ booking'[d].order = o
      /\ booking'[d].ref = b.ref /\ booking'[d].todo = b.todo
      /\ \A e \in Desks : e # d => booking'[e] = booking[e]
  <2> DEFINE next == [b EXCEPT !.stage = "ship", !.id = Len(movement) + 1]
  <2>1. booking' = [booking EXCEPT ![d] = next]
    BY DEF ItemMoves, Goes
  <2>2. /\ next.stage = "ship" /\ next.order = b.order /\ next.ref = b.ref
        /\ next.todo = b.todo
    BY <1>1, Staged
  <2> HIDE DEF next
  <2> QED
    BY <1>0, <1>1, <2>1, <2>2
<1>4. /\ UNCHANGED << txn, paid >>
      /\ \A p \in Orders : PaidWith(p)' = PaidWith(p) /\ Sales(p)' = Sales(p)
  BY DEF ItemMoves, ledgerVars, PaidWith, Sales, TxnIds
<1>5. BookingFits(b) /\ Recorded(b)
  BY <1>1 DEF Bookkeeping, Recorded
<1>6. /\ k \in DOMAIN Items[o] /\ k \in Nat /\ Items[o][k][1] = movement'[n].product
      /\ Begun(b) = k - 1 /\ Begun(booking[d])' = k
  <2>1. /\ Len(b.todo) \in Nat /\ Len(Items[o]) \in Nat
        /\ Items[o] \in Seq(Products \X (Nat \ {0}))
    BY <1>0, <1>1, BegunTyped
  <2>2. Len(b.todo) >= 1 /\ Head(b.todo) = b.todo[1] /\ Len(b.todo) <= Len(Items[o])
    <3>1. Len(b.todo) <= Len(Items[o])
      BY <1>0, <1>5 DEF BookingFits
    <3> QED
      BY <1>1, <3>1
  <2>3. k \in 1 .. Len(Items[o]) /\ DOMAIN Items[o] = 1 .. Len(Items[o])
    <3>1. DOMAIN Items[o] = 1 .. Len(Items[o])
      BY <2>1
    <3>2. ASSUME NEW x \in Nat, NEW y \in Nat, 1 <= x, x <= y PROVE y - x + 1 \in 1 .. y
      BY <3>2
    <3> QED
      BY <1>0, <2>1, <2>2, <3>1, <3>2
  <2>4. b.todo[1][2] = Items[o][k][1]
    <3>1. \A m \in 1 .. Len(b.todo) : b.todo[m][2] = Items[o][Len(Items[o]) - Len(b.todo) + m][1]
      BY <1>0, <1>5 DEF BookingFits
    <3> QED
      <4>1. b.todo[1][2] = Items[o][Len(Items[o]) - Len(b.todo) + 1][1]
        <5>1. 1 \in 1 .. Len(b.todo)
          BY <2>1, <2>2
        <5> HIDE DEF b
        <5> QED
          BY <3>1, <5>1
      <4> QED
        BY <1>0, <4>1
  <2>5. Begun(b) = k - 1 /\ Begun(booking[d])' = k
    BY <1>0, <1>1, <1>3, <2>1 DEF Begun
  <2> QED
    BY <1>2, <2>2, <2>3, <2>4, <2>5
<1>7. PICK s \in Sales(o) : txn[s].ref = b.ref
  BY <1>0, <1>5 DEF BookingFits
<1>8. \A e \in Desks : BookingFits(booking[e])'
  <2>1. ASSUME NEW e \in Desks
        PROVE  BookingFits(booking[e])'
    <3>1. /\ BookingFits(booking[e]) /\ booking'[e].order = booking[e].order
          /\ booking'[e].ref = booking[e].ref /\ booking'[e].todo = booking[e].todo
          /\ Recorded(booking[e])' => Recorded(booking[e])
      <4>1. CASE e = d
        BY <1>0, <1>3, <1>5, <4>1
      <4>2. CASE e # d
        BY <1>3, <4>2 DEF Bookkeeping, Recorded, OfOrder
      <4> QED
        BY <4>1, <4>2
    <3> QED
      BY <1>4, <3>1 DEF BookingFits, OfOrder
  <2> QED
    BY <2>1
<1>9. OneEvent'
  <2>0. \A e, c \in Desks : Recorded(booking[e]) /\ Recorded(booking[c])
                              /\ booking[e].ref = booking[c].ref => e = c
    BY DEF Bookkeeping, OneEvent
  <2>1. \A e \in Desks : Recorded(booking[e])' =>
                            Recorded(booking[e]) /\ booking'[e].ref = booking[e].ref
    BY <1>3, <1>5 DEF Recorded, OfOrder
  <2>2. ASSUME NEW e \in Desks, NEW c \in Desks, Recorded(booking[e])', Recorded(booking[c])',
               booking'[e].ref = booking'[c].ref
        PROVE  e = c
    <3>1. Recorded(booking[e]) /\ booking'[e].ref = booking[e].ref
      BY <2>1, <2>2
    <3>2. Recorded(booking[c]) /\ booking'[c].ref = booking[c].ref
      BY <2>1, <2>2
    <3> QED
      BY <2>0, <2>2, <3>1, <3>2
  <2> QED
    BY <2>2 DEF OneEvent
<1>10. SalesPaid'
  BY <1>4 DEF Bookkeeping, SalesPaid
<1>11. PICK f \in [Shipped -> TxnIds \X Nat] : Assigned(f)
  BY DEF Bookkeeping
<1>20. PICK g : g = [i \in Shipped \cup {n} |-> IF i = n THEN << s, k >> ELSE f[i]]
  OBVIOUS
<1>12. Shipped' = Shipped \cup {n} /\ n \notin Shipped
  BY <1>1, <1>2 DEF Shipped
<1>13. /\ g[n] = << s, k >> /\ \A i \in Shipped : g[i] = f[i]
       /\ g \in [Shipped' -> TxnIds' \X Nat]
  BY <1>4, <1>6, <1>20, <1>12 DEF Sales, TxnIds
<1>14. \A i \in Shipped : movement'[i] = movement[i] /\ movement[i].order \in Orders
  BY <1>2 DEF Shipped
<1>15. \A i \in Shipped' :
         /\ g[i][1] \in Sales(movement[i].order)'
         /\ g[i][2] \in DOMAIN Items[movement'[i].order]
         /\ Items[movement'[i].order][g[i][2]][1] = movement'[i].product
  <2>1. ASSUME NEW i \in Shipped
        PROVE  /\ g[i][1] \in Sales(movement[i].order)'
               /\ g[i][2] \in DOMAIN Items[movement'[i].order]
               /\ Items[movement'[i].order][g[i][2]][1] = movement'[i].product
    BY <1>4, <1>11, <1>13, <1>14 DEF Assigned
  <2>2. /\ g[n][1] \in Sales(movement[n].order)'
        /\ g[n][2] \in DOMAIN Items[movement'[n].order]
        /\ Items[movement'[n].order][g[n][2]][1] = movement'[n].product
    <3>1. s \in Sales(movement[n].order)'
      BY <1>1, <1>2, <1>4, <1>7
    <3> QED
      BY <1>2, <1>6, <1>13, <3>1
  <2> QED
    BY <1>12, <2>1, <2>2
<1>16. \A i \in Shipped : f[i] # << s, k >>
  <2>1. ASSUME NEW i \in Shipped, f[i] = << s, k >> PROVE FALSE
    <3>1. f[i][1] = s /\ f[i][2] = k
      BY <2>1
    <3>2. k <= Begun(b)
      BY <1>5, <1>7, <1>11, <3>1 DEF Assigned
    <3> QED
      BY <1>6, <3>2
  <2> QED
    BY <2>1
<1>17. \A i, j \in Shipped' : g[i] = g[j] => i = j
  <2>1. \A i, j \in Shipped : f[i] = f[j] => i = j
    BY <1>11 DEF Assigned
  <2> QED
    BY <1>12, <1>13, <1>16, <2>1
<1>18. ASSUME NEW i \in Shipped', NEW e \in Desks, Recorded(booking[e])',
              txn'[g[i][1]].ref = booking'[e].ref
       PROVE  g[i][2] <= Begun(booking[e])'
  <2>1. booking'[e].ref = booking[e].ref /\ Recorded(booking[e])
    BY <1>3, <1>5, <1>18 DEF Recorded, OfOrder
  <2>2. CASE i = n
    <3>1. e = d
      BY <1>4, <1>5, <1>7, <1>13, <1>18, <2>1, <2>2 DEF Bookkeeping, OneEvent
    <3> QED
      BY <1>6, <1>13, <2>2, <3>1
  <2>3. CASE i # n
    <3>1. i \in Shipped /\ g[i] = f[i]
      BY <1>12, <1>13, <2>3
    <3>2. f[i][2] <= Begun(booking[e]) /\ f[i][2] \in Nat
      BY <1>4, <1>11, <1>18, <2>1, <3>1 DEF Assigned
    <3>3. CASE e = d
      BY <1>6, <3>1, <3>2, <3>3
    <3>4. CASE e # d
      BY <1>3, <3>1, <3>2, <3>4 DEF Begun
    <3> QED
      BY <3>3, <3>4
  <2> QED
    BY <2>2, <2>3
<1>19. Assigned(g)'
  BY <1>15, <1>17, <1>18 DEF Assigned
<1> QED
  BY <1>8, <1>9, <1>10, <1>13, <1>19 DEF Bookkeeping

\* An event goes on without anything more being recorded for it, or ends.
LEMMA GoesOn ==
  ASSUME AccountingInv, AccountingInv', Bookkeeping, NEW d \in Desks, NoNewSale, NoNewShipment,
         UNCHANGED paid, booking' = [booking EXCEPT ![d] = booking'[d]],
         OfOrder(booking'[d]) =>
           /\ booking'[d].order = booking[d].order /\ booking'[d].ref = booking[d].ref
           /\ booking'[d].todo = booking[d].todo
           /\ Recorded(booking[d])' => Recorded(booking[d])
           /\ booking[d].stage # "ship" \/ booking'[d].stage = "ship"
  PROVE  Bookkeeping'
<1>1. CASE ~OfOrder(booking'[d])
  BY <1>1, Advances, PaidStays DEF BookingFits, OfOrder, Recorded
<1>2. CASE OfOrder(booking'[d])
  <2>1. \A o \in Orders : /\ PaidWith(o)' = PaidWith(o) /\ Sales(o)' = Sales(o)
                         /\ \A i \in Sales(o) : SameSale(txn'[i], txn[i])
    BY DEF PaidWith, NoNewSale, Sales
  <2>2. OfOrder(booking[d]) /\ BookingFits(booking[d])
    BY <1>2 DEF OfOrder, Bookkeeping
  <2>3. BookingFits(booking[d])'
    BY <1>2, <2>1, <2>2 DEF BookingFits, OfOrder, Recorded, SameSale
  <2>4. Begun(booking[d])' >= Begun(booking[d])
    <3>1. booking[d] \in Bookings
      BY DEF AccountingInv, BookingInv
    <3>2. Begun(booking[d]) \in Int /\ Len(booking[d].todo) \in Nat
          /\ Len(Items[booking[d].order]) \in Nat
      BY <2>2, <3>1, BegunTyped
    <3>3. Begun(booking[d])' = Len(Items[booking[d].order]) - Len(booking[d].todo)
                                 + (IF booking'[d].stage = "ship" THEN 1 ELSE 0)
      BY <1>2 DEF Begun
    <3>4. Begun(booking[d]) = Len(Items[booking[d].order]) - Len(booking[d].todo)
                                + (IF booking[d].stage = "ship" THEN 1 ELSE 0)
      BY DEF Begun
    <3>5. (IF booking'[d].stage = "ship" THEN 1 ELSE 0)
            >= (IF booking[d].stage = "ship" THEN 1 ELSE 0)
      BY <1>2
    <3> QED
      BY <3>2, <3>3, <3>4, <3>5
  <2>5. Recorded(booking[d])' => Recorded(booking[d]) /\ booking'[d].ref = booking[d].ref
    BY <1>2
  <2> QED
    BY <2>3, <2>4, <2>5, Advances, PaidStays
<1> QED
  BY <1>1, <1>2

LEMMA Stays ==
  ASSUME AccountingInv, AccountingInv', Bookkeeping, NoNewSale, NoNewShipment,
         UNCHANGED << paid, booking >>, NEW d \in Desks
  PROVE  Bookkeeping'
<1>1. booking' = [booking EXCEPT ![d] = booking'[d]]
  BY DEF AccountingInv, BookingInv
<1>2. Recorded(booking[d])' => Recorded(booking[d])
  BY DEF Recorded, OfOrder
<1> QED
  BY <1>1, <1>2, GoesOn

\* order.paid comes.
LEMMA Begins ==
  ASSUME AccountingInv, AccountingInv', Bookkeeping, NEW d \in Desks, NEW pay \in Payments,
         OrderPaid(d, pay)
  PROVE  Bookkeeping'
<1> DEFINE o == OrderOf[pay]
           todo == [n \in DOMAIN Items[o] |-> << "OUT", Items[o][n][1], Items[o][n][2] >>]
           ref == << "AUTHORITY", pay >>
           b == [NoBooking EXCEPT !.stage = "account", !.order = o, !.ref = ref,
                                  !.charges = Charges[o], !.todo = todo]
<1>1. booking' = [booking EXCEPT ![d] = b] /\ UNCHANGED << ledgerVars, inventoryVars >>
      /\ paid' = [paid EXCEPT ![pay] = @ + 1]
  BY DEF OrderPaid, Goes
<1>2. o \in Orders /\ Items[o] \in Seq(Products \X (Nat \ {0}))
  BY OrderAccountingAssumption
<1>3. /\ Len(todo) = Len(Items[o]) /\ Len(Items[o]) \in Nat
      /\ \A n \in 1 .. Len(Items[o]) : todo[n][2] = Items[o][n][1]
  BY <1>2
<1>11. paid \in [Payments -> Nat]
  BY DEF AccountingInv, BookingInv
<1>12. paid'[pay] > 0 /\ \A p \in Payments : paid[p] > 0 => paid'[p] > 0
  BY <1>1, <1>11
<1>4. pay \in PaidWith(o)'
  BY <1>12 DEF PaidWith
<1>5. \A p \in Orders : PaidWith(p) \subseteq PaidWith(p)'
  BY <1>12 DEF PaidWith
<1>6. NoNewSale /\ NoNewShipment
  BY <1>1 DEF NoNewSale, NoNewShipment, SameSale, SameGoods, TxnIds, Sales, Shipped, MovementIds,
              ledgerVars, inventoryVars
<1> HIDE DEF o, todo, ref
<1>7. /\ b.stage = "account" /\ b.order = o /\ b.todo = todo /\ b.ref = ref
  BY DEF NoBooking
<1> HIDE DEF b
<1>8. booking'[d] = b /\ booking' = [booking EXCEPT ![d] = booking'[d]]
  BY <1>1 DEF AccountingInv, BookingInv
<1>9. ~Recorded(booking[d])'
  BY <1>7, <1>8 DEF Recorded
<1>10. BookingFits(booking[d])'
  <2>1. \A n \in 1 .. Len(Items[o]) :
          todo[n][2] = Items[o][Len(Items[o]) - Len(todo) + n][1]
    BY <1>3
  <2>2. booking'[d].order = o /\ booking'[d].todo = todo /\ booking'[d].ref = ref
    BY <1>7, <1>8
  <2>3. \E p \in PaidWith(o)' : ref = << "AUTHORITY", p >>
    BY <1>4 DEF ref
  <2>4. Len(todo) <= Len(Items[o])
    BY <1>3
  <2> QED
    BY <1>3, <1>9, <2>1, <2>2, <2>3, <2>4 DEF BookingFits
<1> QED
  BY <1>5, <1>6, <1>8, <1>9, <1>10, Advances

\* A movement of an item is committed.
LEMMA ItemShips ==
  ASSUME AccountingInv, AccountingInv', Bookkeeping, NEW d \in Desks, NoNewSale, NoNewShipment,
         UNCHANGED paid, booking[d].stage = "ship",
         Goes(d, [booking[d] EXCEPT !.stage = "items", !.id = 0, !.todo = Tail(@)])
  PROVE  Bookkeeping'
<1> DEFINE b == booking[d]
           rest == Tail(b.todo)
           next == [b EXCEPT !.stage = "items", !.id = 0, !.todo = rest]
<1>1. /\ b \in Bookings /\ b.todo \in Seq({"IN", "OUT"} \X Products \X Nat) /\ b.todo # << >>
      /\ BookingFits(b) /\ booking \in [Desks -> Bookings]
  BY DEF AccountingInv, BookingInv, BookingTyped, Bookings, Bookkeeping
<1>2. /\ Len(b.todo) \in Nat \ {0} /\ Len(rest) = Len(b.todo) - 1
      /\ \A n \in 1 .. Len(rest) : n + 1 \in 1 .. Len(b.todo) /\ rest[n] = b.todo[n + 1]
  BY <1>1
<1>3. booking' = [booking EXCEPT ![d] = next]
  BY DEF Goes
<1> HIDE DEF rest
<1>4. next.stage = "items" /\ next.order = b.order /\ next.ref = b.ref /\ next.todo = rest
  BY <1>1 DEF Bookings
<1> HIDE DEF next
<1>5. booking'[d] = next /\ booking' = [booking EXCEPT ![d] = booking'[d]]
  BY <1>1, <1>3
<1>6. OfOrder(b) => Recorded(b)
  BY DEF Recorded
<1>7. \A o \in Orders : /\ PaidWith(o)' = PaidWith(o) /\ Sales(o)' = Sales(o)
                       /\ \A i \in Sales(o) : SameSale(txn'[i], txn[i])
  BY DEF PaidWith, NoNewSale, Sales
<1>8. ASSUME OfOrder(b)
      PROVE  BookingFits(booking[d])' /\ Begun(booking[d])' = Begun(b)
  <2> DEFINE len == Len(Items[b.order])
  <2>1. len \in Nat
    BY <1>1, <1>8, BegunTyped
  <2>2. \A n \in 1 .. Len(b.todo) : b.todo[n][2] = Items[b.order][len - Len(b.todo) + n][1]
    BY <1>1, <1>8 DEF BookingFits
  <2>3. \A n \in 1 .. Len(rest) : rest[n][2] = Items[b.order][len - Len(rest) + n][1]
    <3>1. ASSUME NEW n \in 1 .. Len(rest)
          PROVE  rest[n][2] = Items[b.order][len - Len(rest) + n][1]
      <4>1. rest[n][2] = Items[b.order][len - Len(b.todo) + (n + 1)][1]
        BY <1>2, <2>2
      <4>2. len - Len(b.todo) + (n + 1) = len - Len(rest) + n
        <5>1. ASSUME NEW x \in Nat, NEW y \in Nat, NEW z \in Int
              PROVE  x - y + (z + 1) = x - (y - 1) + z
          OBVIOUS
        <5>2. n \in Int /\ Len(b.todo) \in Nat
          BY <1>2
        <5> QED
          BY <1>2, <2>1, <5>1, <5>2
      <4> QED
        BY <4>1, <4>2
    <3> QED
      BY <3>1
  <2>4. /\ Len(b.todo) <= len
        /\ \E pay \in PaidWith(b.order) : b.ref = << "AUTHORITY", pay >>
        /\ \E i \in Sales(b.order) : txn[i].ref = b.ref
    BY <1>1, <1>6, <1>8 DEF BookingFits
  <2>5. Len(rest) <= len
    BY <1>2, <2>1, <2>4
  <2>6. BookingFits(booking[d])'
    BY <1>4, <1>5, <1>7, <1>8, <2>3, <2>4, <2>5 DEF BookingFits, OfOrder, SameSale
  <2>7. Begun(booking[d])' = Begun(b)
    <3>1. Begun(b) = len - Len(b.todo) + 1
      BY DEF Begun
    <3>2. Begun(booking[d])' = len - Len(rest) + 0
      BY <1>4, <1>5 DEF Begun
    <3>3. ASSUME NEW x \in Nat, NEW y \in Nat
          PROVE  x - y + 1 = x - (y - 1) + 0
      OBVIOUS
    <3> QED
      BY <1>2, <2>1, <3>1, <3>2, <3>3
  <2> QED
    BY <2>6, <2>7
<1>9. CASE OfOrder(b)
  <2>1. Begun(b) \in Int
    BY <1>1, <1>9, BegunTyped
  <2>2. Begun(booking[d])' >= Begun(booking[d]) /\ Recorded(booking[d])
        /\ booking'[d].ref = booking[d].ref
    BY <1>4, <1>5, <1>6, <1>8, <1>9, <2>1
  <2> QED
    BY <1>5, <1>8, <1>9, <2>2, Advances, PaidStays
<1>10. CASE ~OfOrder(b)
  <2>1. ~OfOrder(booking'[d])
    BY <1>4, <1>5, <1>10 DEF OfOrder
  <2> QED
    BY <1>5, <2>1, GoesOn
<1> QED
  BY <1>9, <1>10

-----------------------------------------------------------------------------
(* What the services do for a listener, or for the staff, in one step.      *)

LEMMA QuietLedger ==
  ASSUME RefsUnique, NothingRecorded
  PROVE  NoNewSale /\ RefsUnique'
  BY DEF NothingRecorded, NoNewSale, Sales, SameSale, RefsUnique

LEMMA QuietInventory ==
  ASSUME NothingMoved
  PROVE  NoNewShipment
  BY DEF NothingMoved, NoNewShipment, Shipped, SameGoods

LEMMA InsertedUnique ==
  ASSUME LedgerInv, SalesKept, RefsUnique, NEW d \in Desks, InsertTransaction(d)
  PROVE  RefsUnique'
<1>1. /\ TxnIds' = TxnIds \cup {Len(txn) + 1} /\ Len(txn) + 1 \notin TxnIds
      /\ \A i \in TxnIds : txn'[i] = txn[i] /\ txn[i].ref # txn'[Len(txn) + 1].ref
  BY InsertSells DEF FreeReference
<1> QED
  BY <1>1 DEF RefsUnique

LEMMA InsertedOther ==
  ASSUME LedgerInv, SalesKept, NEW d \in Desks, InsertTransaction(d),
         ledgerCall[d].txn.order \in Orders => ledgerCall[d].txn.category # "PRODUCT_SALE"
  PROVE  NoNewSale
<1>1. /\ TxnIds' = TxnIds \cup {Len(txn) + 1} /\ Len(txn) + 1 \notin TxnIds
      /\ \A i \in TxnIds : txn'[i] = txn[i]
      /\ txn'[Len(txn) + 1] = ledgerCall[d].txn
  BY InsertSells
<1>2. \A i \in TxnIds : i \in TxnIds' /\ SameSale(txn'[i], txn[i])
  BY <1>1 DEF SameSale
<1>3. \A o \in Orders : Sales(o)' = Sales(o)
  <2>1. ASSUME NEW o \in Orders, NEW i \in Sales(o)' PROVE i \in Sales(o)
    BY <1>1 DEF Sales
  <2>2. ASSUME NEW o \in Orders, NEW i \in Sales(o) PROVE i \in Sales(o)'
    BY <1>1 DEF Sales
  <2> QED
    BY <2>1, <2>2
<1> QED
  BY <1>2, <1>3 DEF NoNewSale

LEMMA InsertedNothing ==
  ASSUME InventoryInv, NEW d \in Desks, InsertMovement(d), stockCall[d].movement.order \notin Orders
  PROVE  NoNewShipment
<1>1. /\ MovementIds' = MovementIds \cup {Len(movement) + 1}
      /\ \A i \in MovementIds : movement'[i] = movement[i]
      /\ movement'[Len(movement) + 1] = stockCall[d].movement
  BY InsertMoves
<1>2. Shipped' = Shipped
  BY <1>1 DEF Shipped
<1> QED
  BY <1>1, <1>2 DEF NoNewShipment, Shipped, SameGoods

\* A request and its steps are of one desk.
LEMMA LedgerAlone ==
  ASSUME NEW d \in Desks, NEW e \in Desks, e # d, LedgerInv,
         \/ LedgerStep(d) \/ LedgerRequest(d) \/ UNCHANGED ledgerVars
         \/ \E t : CreateTransaction(d, t)
         \/ \E i : ApproveTransaction(d, i)
  PROVE  ledgerCall'[e] = ledgerCall[e]
<1> USE DEF LedgerInv, LedgerTypeOK
<1>1. CASE LedgerStep(d)
  BY <1>1 DEF LedgerStep, InsertTransaction, InsertRefused, BeginApproval, CommitApproval,
     RollbackApproval, SaveTransaction, InsertAccount, ClearOtherDefaults, StoreAccount,
     DeleteAccount, Hangup
<1>2. CASE LedgerRequest(d)
  BY <1>2 DEF LedgerRequest, CreateTransaction, ApproveTransaction, RejectTransaction,
     UpdateTransaction, RemoveTransaction, Edit, OpenAccount, ChangeAccount, RemoveAccount, Takes
<1>3. CASE (\E t : CreateTransaction(d, t)) \/ (\E i : ApproveTransaction(d, i))
  BY <1>3 DEF CreateTransaction, ApproveTransaction, Takes
<1> QED
  BY <1>1, <1>2, <1>3 DEF ledgerVars

LEMMA InventoryAlone ==
  ASSUME NEW d \in Desks, NEW e \in Desks, e # d, InventoryInv,
         \/ InventoryStep(d) \/ InventoryRequest(d) \/ UNCHANGED inventoryVars
         \/ \E m : CreateMovement(d, m)
         \/ \E i : ApproveMovement(d, i)
  PROVE  stockCall'[e] = stockCall[e]
<1> USE DEF InventoryInv, InventoryTypeOK
<1>1. CASE InventoryStep(d)
  BY <1>1 DEF InventoryStep, InsertMovement, MovementRefused, CheckAdjustment, BeginMovement,
     InsufficientStock, ReachDestination, CommitMovement, RollbackMovement, SaveMovement,
     InsertWarehouse, ClearOtherWarehouses, StoreWarehouse, DeleteWarehouse, Finish
<1>2. CASE InventoryRequest(d)
  BY <1>2 DEF InventoryRequest, CreateMovement, AdjustStock, AdjustNothing, ApproveMovement,
     RejectMovement, UpdateMovement, EditMovement, OpenWarehouse, ChangeWarehouse, RemoveWarehouse,
     Handles
<1>3. CASE (\E m : CreateMovement(d, m)) \/ (\E i : ApproveMovement(d, i))
  BY <1>3 DEF CreateMovement, ApproveMovement, Handles
<1> QED
  BY <1>1, <1>2, <1>3 DEF inventoryVars

-----------------------------------------------------------------------------
(* The inductive invariant of BookedOnce, and the steps that keep it.       *)

SalesInv == SalesKept /\ RefsUnique

\* What the requests of a desk are for, at each stage of its event.
CallsFit(d) ==
  LET b == booking[d]
      t == ledgerCall[d].txn
      m == stockCall[d].movement
  IN /\ b.stage \in {"account", "warehouse", "items", "ship"} => ledgerCall[d] = LedgerIdle
     /\ b.stage \in {"account", "income"} => stockCall[d] = StockIdle
     /\ ledgerCall[d].op = "insert" =>
          /\ t.order \in Orders /\ t.category = "PRODUCT_SALE" => b.stage = "income"
          /\ b.stage = "income" => t = MainIncome(b)
     /\ stockCall[d].op \in Inserting /\ m.order \in Orders =>
          /\ b.stage = "items" /\ b.todo # << >>
          /\ m.order = b.order /\ m.product = Head(b.todo)[2]

PaidFinite == IsFiniteSet({ pay \in Payments : paid[pay] > 0 })

BookedInv ==
  /\ SalesInv
  /\ \A d \in Desks : CallsFit(d)
  /\ Bookkeeping
  /\ PaidFinite

\* What a step of desk d has to keep: the other desks stay as they are.
Fits(d) == SalesInv' /\ CallsFit(d)' /\ Bookkeeping'

LEMMA QuietSales ==
  ASSUME LedgerInv, SalesInv, UNCHANGED ledgerVars
  PROVE  SalesInv' /\ NoNewSale
  BY QuietSells, QuietLedger DEF SalesInv, ledgerVars

LEMMA QuietShipments ==
  ASSUME UNCHANGED inventoryVars
  PROVE  NoNewShipment
  BY QuietMoves, QuietInventory DEF inventoryVars

\* The books while a service works on a request of desk d.
LEMMA LedgerStepFits ==
  ASSUME LedgerInv, SalesInv, NEW d \in Desks, LedgerStep(d)
  PROVE  /\ SalesInv' /\ ledgerCall'[d].op # "insert"
         /\ ~InsertTransaction(d) => NoNewSale
<1>1. CASE InsertTransaction(d)
  BY <1>1, InsertSells, InsertedUnique, IdleTyped DEF SalesInv
<1>2. CASE ~InsertTransaction(d)
  BY <1>2, StepSells, QuietLedger DEF SalesInv
<1> QED
  BY <1>1, <1>2

LEMMA RecordFits ==
  ASSUME AccountingInv, AccountingInv', BookedInv, NEW d \in Desks, RecordIncome(d) \/ RecordCharge(d),
         UNCHANGED paid
  PROVE  Fits(d)
<1> DEFINE b == booking[d]
<1>1. /\ BookingTyped(b) /\ LedgerInv /\ SalesInv /\ SalesKept /\ RefsUnique /\ CallsFit(d)
      /\ Bookkeeping /\ BookingFits(b)
  BY DEF AccountingInv, BookingInv, BookedInv, SalesInv, Bookkeeping
<1>2. UNCHANGED << booking, inventoryVars, booking[d], stockCall[d] >>
  BY DEF RecordIncome, RecordCharge, inventoryVars
<1>3. CASE RecordIncome(d)
  <2>1. b.stage = "income" /\ b.order \in Orders
    BY <1>1, <1>3 DEF RecordIncome, Turn, BookingTyped
  <2>2. MainIncome(b) \in TxnRow /\ MainIncome(b).ref = b.ref
    BY <1>1, <2>1, MainIncomeTyped DEF MainIncome, Income
  <2>3. b.ref # NoReference
    <3>1. PICK pay \in PaidWith(b.order) : b.ref = << "AUTHORITY", pay >>
      BY <1>1, <2>1 DEF BookingFits, OfOrder
    <3> QED
      BY <3>1 DEF NoReference
  <2>4. Numbered(MainIncome(b)) = MainIncome(b)
    BY <2>2, <2>3 DEF Numbered
  <2>5. /\ NothingRecorded /\ SalesKept' /\ ledgerCall'[d].op = "insert"
        /\ ledgerCall'[d].txn = MainIncome(b)
    BY <1>1, <1>3, <2>2, <2>4, CreateSells DEF RecordIncome
  <2>6. CallsFit(d)'
    BY <1>1, <1>2, <2>1, <2>5 DEF CallsFit, MainIncome, Income
  <2> QED
    BY <1>1, <1>2, <2>5, <2>6, QuietLedger, QuietShipments, Stays DEF Fits, SalesInv
<1>4. CASE RecordCharge(d)
  <2>1. b.stage = "charges" /\ b.charges # << >>
    BY <1>4 DEF RecordCharge, Turn
  <2>2. ChargeIncome(b) \in TxnRow /\ ChargeIncome(b).category # "PRODUCT_SALE"
    BY <1>1, <2>1, ChargeIncomeTyped DEF Costs
  <2>3. Numbered(ChargeIncome(b)).category # "PRODUCT_SALE"
    BY <2>2 DEF Numbered, TxnRow
  <2>4. /\ NothingRecorded /\ SalesKept'
        /\ ledgerCall'[d].txn.category # "PRODUCT_SALE"
    BY <1>1, <1>4, <2>2, <2>3, CreateSells DEF RecordCharge
  <2>5. CallsFit(d)'
    BY <1>1, <1>2, <2>1, <2>4 DEF CallsFit
  <2> QED
    BY <1>1, <1>2, <2>4, <2>5, QuietLedger, QuietShipments, Stays DEF Fits, SalesInv
<1> QED
  BY <1>3, <1>4

\* The event of desk d goes to the given stage.
Reaches(d, stage) ==
  /\ booking' = [booking EXCEPT ![d] = booking'[d]]
  /\ booking'[d].stage = stage /\ booking'[d].order = booking[d].order
  /\ booking'[d].ref = booking[d].ref /\ booking'[d].todo = booking[d].todo

LEMMA Reached ==
  ASSUME AccountingInv, NEW d \in Desks, NEW stage, NEW x,
         \/ Goes(d, [booking[d] EXCEPT !.stage = stage])
         \/ Goes(d, [booking[d] EXCEPT !.stage = stage, !.account = x])
         \/ Goes(d, [booking[d] EXCEPT !.stage = stage, !.warehouse = x])
         \/ Goes(d, [booking[d] EXCEPT !.stage = stage, !.id = x])
         \/ stage = booking[d].stage /\ Goes(d, [booking[d] EXCEPT !.charges = x])
  PROVE  Reaches(d, stage)
<1> DEFINE b == booking[d]
           b1 == [b EXCEPT !.stage = stage]
           b2 == [b1 EXCEPT !.account = x]
           b3 == [b1 EXCEPT !.warehouse = x]
           b4 == [b1 EXCEPT !.id = x]
           b5 == [b EXCEPT !.charges = x]
           Same(c) == c.order = b.order /\ c.ref = b.ref /\ c.todo = b.todo
<1>1. b \in Bookings /\ booking \in [Desks -> Bookings]
  BY DEF AccountingInv, BookingInv
<1>2. b1.stage = stage /\ Same(b1) /\ b5.stage = b.stage /\ Same(b5)
  BY <1>1 DEF Bookings
<1>3. b2.stage = stage /\ Same(b2) /\ b3.stage = stage /\ Same(b3) /\ b4.stage = stage /\ Same(b4)
  BY <1>1 DEF Bookings
<1>4. \/ Goes(d, b1) \/ Goes(d, b2) \/ Goes(d, b3) \/ Goes(d, b4)
      \/ stage = b.stage /\ Goes(d, b5)
  OBVIOUS
<1> HIDE DEF b1, b2, b3, b4, b5
<1>5. PICK c \in {b1, b2, b3, b4, b5} : Goes(d, c) /\ c.stage = stage /\ Same(c)
  BY <1>2, <1>3, <1>4
<1>6. booking' = [booking EXCEPT ![d] = c]
  BY <1>5 DEF Goes
<1> QED
  BY <1>1, <1>5, <1>6 DEF Reaches

LEMMA Ended ==
  ASSUME AccountingInv, AccountingInv', Bookkeeping, NEW d \in Desks, Ends(d), NoNewSale,
         NoNewShipment, UNCHANGED paid
  PROVE  Bookkeeping' /\ booking'[d].stage = "none" /\ booking'[d].order \notin Orders
<1>1. booking' = [booking EXCEPT ![d] = NoBooking] /\ booking \in [Desks -> Bookings]
  BY DEF Ends, Goes, AccountingInv, BookingInv
<1>2. booking'[d] = NoBooking /\ booking' = [booking EXCEPT ![d] = booking'[d]]
  BY <1>1
<1>3. booking'[d].stage = "none" /\ booking'[d].order \notin Orders
  BY <1>2, AccountingAssumption DEF NoBooking
<1> QED
  BY <1>2, <1>3, GoesOn DEF OfOrder

LEMMA ReachedFits ==
  ASSUME AccountingInv, AccountingInv', Bookkeeping, NEW d \in Desks, NEW stage, Reaches(d, stage),
         UNCHANGED paid, NoNewSale, NoNewShipment, booking[d].stage # "ship",
         booking[d].stage \in {"account", "income"} => stage \in {"account", "income"}
  PROVE  Bookkeeping'
<1>1. Recorded(booking[d])' => Recorded(booking[d])
  BY DEF Reaches, Recorded, OfOrder
<1> QED
  BY <1>1, GoesOn DEF Reaches

LEMMA IncomeFits ==
  ASSUME AccountingInv, AccountingInv', BookedInv, NEW d \in Desks,
         FindAccount(d) \/ IncomeRecorded(d) \/ ChargeRecorded(d) \/ ApproveIncome(d)
           \/ IncomeApproved(d),
         UNCHANGED paid
  PROVE  Fits(d)
<1> DEFINE b == booking[d]
<1>1. /\ LedgerInv /\ SalesInv /\ SalesKept /\ RefsUnique /\ CallsFit(d) /\ Bookkeeping
      /\ booking[d] \in Bookings
  BY DEF AccountingInv, BookingInv, BookedInv, SalesInv
<1>2. NoNewShipment /\ stockCall'[d] = stockCall[d]
  <2>1. UNCHANGED inventoryVars
    BY DEF FindAccount, IncomeRecorded, ChargeRecorded, ApproveIncome, IncomeApproved
  <2> QED
    BY <2>1, QuietShipments DEF inventoryVars
<1>3. CASE FindAccount(d)
  <2>1. b.stage = "account" /\ Reaches(d, "income") /\ UNCHANGED ledgerVars
    BY <1>3, Reached DEF FindAccount, Turn
  <2>2. CallsFit(d)'
    BY <1>1, <1>2, <2>1, IdleTyped, StockIdleTyped DEF CallsFit, Reaches, ledgerVars, Inserting
  <2> QED
    BY <1>1, <1>2, <2>1, <2>2, QuietSales, ReachedFits DEF Fits
<1>4. CASE IncomeRecorded(d)
  <2>1. b.stage = "income" /\ Reaches(d, "charges") /\ InsertTransaction(d)
    BY <1>4, Reached DEF IncomeRecorded, Turn
  <2>2. ledgerCall[d].txn = MainIncome(b)
    BY <1>1, <2>1 DEF CallsFit, InsertTransaction
  <2>3. Bookkeeping'
    BY <1>1, <1>4, <2>2, Sells
  <2>4. SalesInv' /\ ledgerCall'[d] = LedgerIdle
    BY <1>1, <2>1, InsertSells, InsertedUnique DEF SalesInv
  <2>5. CallsFit(d)'
    BY <1>1, <1>2, <2>1, <2>4, IdleTyped, StockIdleTyped DEF CallsFit, Reaches, Inserting
  <2> QED
    BY <2>3, <2>4, <2>5 DEF Fits
<1>5. CASE ChargeRecorded(d)
  <2>1. b.stage = "charges" /\ Reaches(d, "charges") /\ InsertTransaction(d)
    BY <1>5, Reached DEF ChargeRecorded, Turn
  <2>2. SalesInv' /\ ledgerCall'[d] = LedgerIdle
    BY <1>1, <2>1, InsertSells, InsertedUnique DEF SalesInv
  <2>3. NoNewSale
    BY <1>1, <2>1, InsertedOther DEF CallsFit, InsertTransaction
  <2>4. CallsFit(d)'
    BY <1>1, <1>2, <2>1, <2>2, IdleTyped DEF CallsFit, Reaches
  <2> QED
    BY <1>1, <1>2, <2>1, <2>2, <2>3, <2>4, ReachedFits DEF Fits
<1>6. CASE ApproveIncome(d)
  <2>1. b.stage = "charges" /\ Reaches(d, "approve") /\ ApproveTransaction(d, b.id)
    BY <1>6, Reached DEF ApproveIncome, Turn
  <2>2. NothingRecorded /\ SalesKept' /\ ledgerCall'[d].op # "insert"
    BY <1>1, <2>1, EditSells DEF ApproveTransaction
  <2>3. CallsFit(d)'
    BY <1>1, <1>2, <2>1, <2>2 DEF CallsFit, Reaches
  <2> QED
    BY <1>1, <1>2, <2>1, <2>2, <2>3, QuietLedger, ReachedFits DEF Fits, SalesInv
<1>7. CASE Turn(d, "approve") /\ BeginApproval(d) /\ UNCHANGED booking
  <2>1. b.stage = "approve" /\ booking'[d] = b
    BY <1>7 DEF Turn
  <2>2. NothingRecorded /\ SalesKept' /\ ledgerCall'[d].op # "insert"
    BY <1>1, <1>7, BeginSells
  <2>3. CallsFit(d)'
    BY <1>1, <1>2, <2>1, <2>2 DEF CallsFit
  <2> QED
    BY <1>1, <1>2, <1>7, <2>2, <2>3, QuietLedger, Stays DEF Fits, SalesInv
<1>8. CASE /\ Turn(d, "approve") /\ CommitApproval(d)
           /\ Goes(d, [booking[d] EXCEPT !.stage = "warehouse", !.id = 0])
  <2>1. b.stage = "approve" /\ Reaches(d, "warehouse")
    BY <1>8, Reached DEF Turn
  <2>2. NothingRecorded /\ SalesKept' /\ ledgerCall'[d] = LedgerIdle
    BY <1>1, <1>8, CommitSells
  <2>3. CallsFit(d)'
    BY <1>1, <1>2, <2>1, <2>2, IdleTyped DEF CallsFit, Reaches
  <2> QED
    BY <1>1, <1>2, <2>1, <2>2, <2>3, QuietLedger, ReachedFits DEF Fits, SalesInv
<1> QED
  BY <1>3, <1>4, <1>5, <1>6, <1>7, <1>8 DEF IncomeApproved

LEMMA GoodsFit ==
  ASSUME AccountingInv, AccountingInv', BookedInv, NEW d \in Desks,
         FindWarehouse(d) \/ MoveItem(d) \/ ItemMoves(d) \/ ShipItem(d) \/ AllMoved(d),
         UNCHANGED paid
  PROVE  Fits(d)
<1> DEFINE b == booking[d]
<1>1. /\ LedgerInv /\ InventoryInv /\ SalesInv /\ CallsFit(d) /\ Bookkeeping /\ BookingTyped(b)
  BY DEF AccountingInv, BookingInv, BookedInv
<1>2. SalesInv' /\ NoNewSale /\ ledgerCall'[d] = ledgerCall[d]
  <2>1. UNCHANGED ledgerVars
    BY DEF FindWarehouse, MoveItem, ItemMoves, ShipItem, AllMoved
  <2> QED
    BY <1>1, <2>1, QuietSales DEF ledgerVars
<1>3. CASE FindWarehouse(d)
  <2>1. b.stage = "warehouse" /\ Reaches(d, "items") /\ UNCHANGED inventoryVars
    BY <1>3, Reached DEF FindWarehouse, Turn
  <2>2. NoNewShipment
    BY <2>1, QuietShipments
  <2>3. CallsFit(d)'
    BY <1>1, <1>2, <2>1, IdleTyped DEF CallsFit, Reaches, inventoryVars
  <2> QED
    BY <1>1, <1>2, <2>1, <2>2, <2>3, ReachedFits DEF Fits
<1>4. CASE MoveItem(d)
  <2>1. b.stage = "items" /\ b.todo # << >> /\ booking'[d] = b /\ UNCHANGED booking
    BY <1>4 DEF MoveItem, Turn
  <2>2. NextMovement(b) \in MovementRow
    BY <1>1, <2>1, NextMovementTyped
  <2>3. /\ NextMovement(b).product = Head(b.todo)[2]
        /\ NextMovement(b).order = b.order
    BY DEF NextMovement
  <2>4. /\ NothingMoved /\ stockCall'[d].movement.product = Head(b.todo)[2]
        /\ stockCall'[d].movement.order = b.order
    BY <1>1, <1>4, <2>2, <2>3, CreateMoves DEF MoveItem
  <2>5. CallsFit(d)'
    BY <1>1, <1>2, <2>1, <2>4, IdleTyped DEF CallsFit
  <2> QED
    BY <1>1, <1>2, <2>1, <2>4, <2>5, QuietInventory, Stays DEF Fits
<1>5. CASE ItemMoves(d)
  <2>1. b.stage = "items" /\ Reaches(d, "ship") /\ InsertMovement(d)
    BY <1>5, Reached DEF ItemMoves, Turn
  <2>2. stockCall[d].op \in Inserting /\ stockCall'[d].op \notin Inserting
    BY <1>1, <2>1, InsertMoves
  <2>3. CallsFit(d)'
    BY <1>1, <1>2, <2>1, <2>2, IdleTyped DEF CallsFit, Reaches
  <2>4. CASE stockCall[d].movement.order \in Orders
    <3>1. /\ OfOrder(b) /\ stockCall[d].movement.order = b.order
          /\ stockCall[d].movement.product = Head(b.todo)[2]
      BY <1>1, <2>2, <2>4 DEF CallsFit, OfOrder
    <3>2. Bookkeeping'
      BY <1>1, <1>5, <3>1, Ships
    <3> QED
      BY <1>2, <2>3, <3>2 DEF Fits
  <2>5. CASE stockCall[d].movement.order \notin Orders
    <3>1. NoNewShipment
      BY <1>1, <2>1, <2>5, InsertedNothing
    <3> QED
      BY <1>1, <1>2, <2>1, <2>3, <3>1, ReachedFits DEF Fits
  <2> QED
    BY <2>4, <2>5
<1>6. CASE /\ Turn(d, "ship") /\ UNCHANGED booking
           /\ ApproveMovement(d, b.id) \/ BeginMovement(d)
  <2>1. b.stage = "ship" /\ booking'[d] = b
    BY <1>6 DEF Turn
  <2>2. NothingMoved /\ stockCall'[d].op \notin Inserting
    <3>1. CASE BeginMovement(d)
      BY <1>1, <3>1, StepMoves DEF InventoryStep, BeginMovement, InsertMovement, Inserting
    <3>2. CASE ApproveMovement(d, b.id)
      BY <1>1, <3>2, OtherRequestsMove DEF ApproveMovement
    <3> QED
      BY <1>6, <3>1, <3>2
  <2>3. CallsFit(d)'
    BY <1>1, <1>2, <2>1, <2>2, IdleTyped DEF CallsFit
  <2> QED
    BY <1>1, <1>2, <1>6, <2>2, <2>3, QuietInventory, Stays DEF Fits
<1>7. CASE /\ Turn(d, "ship") /\ CommitMovement(d)
           /\ Goes(d, [booking[d] EXCEPT !.stage = "items", !.id = 0, !.todo = Tail(@)])
  <2>1. b.stage = "ship" /\ booking'[d].stage = "items"
    <3>1. b \in Bookings /\ booking \in [Desks -> Bookings]
      BY DEF AccountingInv, BookingInv
    <3> QED
      BY <1>7, <3>1 DEF Turn, Goes, Bookings
  <2>2. NothingMoved /\ stockCall'[d].op \notin Inserting
    BY <1>1, <1>7, WrittenMoves, StockIdleTyped DEF Inserting
  <2>3. CallsFit(d)'
    BY <1>1, <1>2, <2>1, <2>2, IdleTyped DEF CallsFit
  <2> QED
    BY <1>1, <1>2, <1>7, <2>1, <2>2, <2>3, QuietInventory, ItemShips DEF Fits
<1>8. CASE AllMoved(d)
  <2>1. b.stage = "items" /\ b.todo = << >> /\ Ends(d) /\ UNCHANGED inventoryVars
    BY <1>8 DEF AllMoved, Turn
  <2>2. NoNewShipment
    BY <2>1, QuietShipments
  <2>3. Bookkeeping' /\ booking'[d].stage = "none"
    BY <1>1, <1>2, <2>1, <2>2, Ended
  <2>4. CallsFit(d)'
    BY <1>1, <1>2, <2>1, <2>3, IdleTyped DEF CallsFit, inventoryVars
  <2> QED
    BY <1>2, <2>3, <2>4 DEF Fits
<1> QED
  BY <1>3, <1>4, <1>5, <1>6, <1>7, <1>8 DEF ShipItem

LEMMA ErrorFits ==
  ASSUME AccountingInv, AccountingInv', BookedInv, NEW d \in Desks,
         LookupFails(d) \/ LedgerFails(d) \/ InventoryFails(d), UNCHANGED paid
  PROVE  Fits(d)
<1> DEFINE b == booking[d]
<1>1. /\ LedgerInv /\ InventoryInv /\ SalesInv /\ CallsFit(d) /\ Bookkeeping
  BY DEF AccountingInv, BookedInv
<1>2. Ends(d)
  BY DEF LookupFails, LedgerFails, InventoryFails
<1>3. CASE LookupFails(d)
  <2>1. UNCHANGED << ledgerVars, inventoryVars >>
    BY <1>3 DEF LookupFails
  <2>2. SalesInv' /\ NoNewSale /\ NoNewShipment
    BY <1>1, <2>1, QuietSales, QuietShipments
  <2>3. Bookkeeping' /\ booking'[d].stage = "none"
    BY <1>1, <1>2, <2>2, Ended
  <2>4. /\ b.stage = "income" => ledgerCall[d] = LedgerIdle
        /\ b.stage = "items" /\ b.todo # << >> => stockCall[d] = StockIdle
    BY <1>3 DEF LookupFails, NotFound, Turn
  <2>5. CallsFit(d)'
    BY <1>1, <2>1, <2>3, <2>4, IdleTyped, StockIdleTyped
    DEF CallsFit, ledgerVars, inventoryVars, Inserting
  <2> QED
    BY <2>2, <2>3, <2>5 DEF Fits
<1>4. CASE LedgerFails(d)
  <2>1. UNCHANGED inventoryVars /\ (InsertRefused(d) \/ RollbackApproval(d))
    BY <1>4 DEF LedgerFails
  <2>2. NothingRecorded /\ SalesKept' /\ ledgerCall'[d].op # "insert"
        /\ ledgerCall[d] # LedgerIdle
    BY <1>1, <2>1, OtherStepsSell, IdleTyped DEF SalesInv, InsertRefused, RollbackApproval
  <2>3. SalesInv' /\ NoNewSale /\ NoNewShipment
    BY <1>1, <2>1, <2>2, QuietLedger, QuietShipments DEF SalesInv
  <2>4. Bookkeeping' /\ booking'[d].stage = "none"
    BY <1>1, <1>2, <2>3, Ended
  <2>5. b.stage # "items" /\ stockCall'[d] = stockCall[d]
    BY <1>1, <2>1, <2>2 DEF CallsFit, inventoryVars
  <2>6. CallsFit(d)'
    BY <1>1, <2>2, <2>4, <2>5 DEF CallsFit
  <2> QED
    BY <2>3, <2>4, <2>6 DEF Fits
<1>5. CASE InventoryFails(d)
  <2>1. UNCHANGED ledgerVars /\ InventoryStep(d) /\ ~InsertMovement(d) /\ stockCall[d] # StockIdle
    BY <1>5, StockIdleTyped DEF InventoryFails, InventoryStep, MovementRefused, InsufficientStock,
                RollbackMovement, InsertMovement
  <2>2. NothingMoved /\ stockCall'[d].op \notin Inserting
    BY <1>1, <2>1, StepMoves
  <2>3. SalesInv' /\ NoNewSale /\ NoNewShipment
    BY <1>1, <2>1, <2>2, QuietSales, QuietInventory
  <2>4. Bookkeeping' /\ booking'[d].stage = "none"
    BY <1>1, <1>2, <2>3, Ended
  <2>5. b.stage # "income" /\ ledgerCall'[d] = ledgerCall[d]
    BY <1>1, <2>1 DEF CallsFit, ledgerVars
  <2>6. CallsFit(d)'
    BY <1>1, <2>2, <2>4, <2>5 DEF CallsFit
  <2> QED
    BY <2>3, <2>4, <2>6 DEF Fits
<1> QED
  BY <1>3, <1>4, <1>5

\* The staff, who work on nothing that is of an order's event.
LEMMA StaffFits ==
  ASSUME AccountingInv, AccountingInv', BookedInv, "update" \notin LedgerHandlers, NEW d \in Desks,
         AccountantAsks(d) \/ StorekeeperAsks(d) \/ StaffStep(d), UNCHANGED paid
  PROVE  Fits(d)
<1> DEFINE b == booking[d]
<1>1. /\ LedgerInv /\ InventoryInv /\ SalesInv /\ CallsFit(d) /\ Bookkeeping
  BY DEF AccountingInv, BookedInv
<1>2. UNCHANGED booking /\ booking'[d] = b /\ b = NoBooking
  BY DEF AccountantAsks, StorekeeperAsks, StaffStep, Free
<1>3. b.stage = "none" /\ booking'[d].stage = "none"
  BY <1>2 DEF NoBooking
<1>4. /\ ledgerCall[d].op = "insert" /\ ledgerCall[d].txn.order \in Orders =>
           ledgerCall[d].txn.category # "PRODUCT_SALE"
      /\ stockCall[d].op \in Inserting => stockCall[d].movement.order \notin Orders
  BY <1>1, <1>3 DEF CallsFit
<1>5. CASE AccountantAsks(d)
  <2>1. LedgerRequest(d) /\ UNCHANGED inventoryVars
    BY <1>5 DEF AccountantAsks
  <2>2. /\ NothingRecorded /\ SalesKept'
        /\ ledgerCall'[d].op = "insert" => ledgerCall'[d].txn.order \notin Orders
    BY <1>1, <2>1, RequestSells, AccountingAssumption DEF SalesInv
  <2>3. CallsFit(d)'
    BY <1>3, <1>4, <2>1, <2>2 DEF CallsFit, inventoryVars
  <2> QED
    BY <1>1, <1>2, <2>1, <2>2, <2>3, QuietLedger, QuietShipments, Stays DEF Fits, SalesInv
<1>6. CASE StorekeeperAsks(d)
  <2>1. InventoryRequest(d) /\ UNCHANGED ledgerVars
    BY <1>6 DEF StorekeeperAsks
  <2>2. /\ NothingMoved
        /\ stockCall'[d].op \in Inserting => stockCall'[d].movement.order \notin Orders
    BY <1>1, <2>1, RequestMoves, AccountingAssumption
  <2>3. CallsFit(d)'
    BY <1>3, <1>4, <2>1, <2>2 DEF CallsFit, ledgerVars
  <2> QED
    BY <1>1, <1>2, <2>1, <2>2, <2>3, QuietSales, QuietInventory, Stays DEF Fits
<1>7. CASE StaffStep(d) /\ LedgerStep(d) /\ UNCHANGED inventoryVars
  <2>1. NoNewSale /\ SalesInv' /\ ledgerCall'[d].op # "insert"
    BY <1>1, <1>4, <1>7, LedgerStepFits, InsertedOther DEF SalesInv, InsertTransaction
  <2>2. CallsFit(d)'
    BY <1>3, <1>4, <1>7, <2>1 DEF CallsFit, inventoryVars
  <2> QED
    BY <1>1, <1>2, <1>7, <2>1, <2>2, QuietShipments, Stays DEF Fits
<1>8. CASE StaffStep(d) /\ InventoryStep(d) /\ UNCHANGED ledgerVars
  <2>1. NoNewShipment /\ stockCall'[d].op \notin Inserting
    <3>1. CASE InsertMovement(d)
      BY <1>1, <1>4, <3>1, InsertMoves, InsertedNothing
    <3>2. CASE ~InsertMovement(d)
      BY <1>1, <1>8, <3>2, StepMoves, QuietInventory
    <3> QED
      BY <3>1, <3>2
  <2>2. CallsFit(d)'
    BY <1>3, <1>4, <1>8, <2>1 DEF CallsFit, ledgerVars
  <2> QED
    BY <1>1, <1>2, <1>8, <2>1, <2>2, QuietSales, Stays DEF Fits
<1> QED
  BY <1>5, <1>6, <1>7, <1>8 DEF StaffStep

LEMMA EventFits ==
  ASSUME AccountingInv, AccountingInv', BookedInv, NEW d \in Desks, Event(d)
  PROVE  Fits(d)
<1>1. /\ LedgerInv /\ InventoryInv /\ SalesInv /\ CallsFit(d) /\ Bookkeeping
      /\ booking \in [Desks -> Bookings]
  BY DEF AccountingInv, BookingInv, BookedInv
<1>2. UNCHANGED << ledgerVars, inventoryVars >> /\ Free(d)
  BY DEF Event, OrderPaid, ProductEvent
<1>3. SalesInv' /\ NoNewSale /\ NoNewShipment
  BY <1>1, <1>2, QuietSales, QuietShipments
<1>4. CallsFit(d)'
  BY <1>2, IdleTyped, StockIdleTyped DEF CallsFit, Free, ledgerVars, inventoryVars, Inserting
<1>5. ASSUME NEW pay \in Payments, OrderPaid(d, pay) PROVE Bookkeeping'
  BY <1>1, <1>5, Begins
<1>6. ASSUME NEW r \in Restocks, ProductEvent(d, r[1], r[2], r[3], r[4]) PROVE Bookkeeping'
  <2> DEFINE todo == << << r[1], r[2], r[3] >> >>
             next == [NoBooking EXCEPT !.stage = "warehouse", !.fresh = r[4], !.todo = todo]
  <2>1. booking' = [booking EXCEPT ![d] = next] /\ UNCHANGED paid
    BY <1>6 DEF ProductEvent, Goes
  <2> HIDE DEF todo
  <2>2. next.order = NoOrder
    BY DEF NoBooking
  <2> HIDE DEF next
  <2>3. booking' = [booking EXCEPT ![d] = booking'[d]] /\ ~OfOrder(booking'[d])
    BY <1>1, <2>1, <2>2, AccountingAssumption DEF OfOrder
  <2> QED
    BY <1>1, <1>3, <2>1, <2>3, GoesOn
<1> QED
  BY <1>3, <1>4, <1>5, <1>6 DEF Fits, Event

LEMMA NextAlone ==
  ASSUME AccountingInv, NEW d \in Desks, NEW e \in Desks, e # d,
         Event(d) \/ AccountantAsks(d) \/ StorekeeperAsks(d) \/ BookingStep(d) \/ StaffStep(d)
  PROVE  booking'[e] = booking[e] /\ ledgerCall'[e] = ledgerCall[e] /\ stockCall'[e] = stockCall[e]
<1>1. LedgerInv /\ InventoryInv /\ booking \in [Desks -> Bookings]
  BY DEF AccountingInv, BookingInv
<1>2. booking'[e] = booking[e]
  BY <1>1 DEF Event, OrderPaid, ProductEvent, AccountantAsks, StorekeeperAsks, StaffStep, BookingStep,
     FindAccount, RecordIncome, IncomeRecorded, RecordCharge, ChargeRecorded, ApproveIncome,
     IncomeApproved, FindWarehouse, MoveItem, ItemMoves, ShipItem, AllMoved, LookupFails,
     LedgerFails, InventoryFails, Ends, Goes
<1>3. \/ LedgerStep(d) \/ LedgerRequest(d) \/ UNCHANGED ledgerVars
      \/ \E t : CreateTransaction(d, t)
      \/ \E i : ApproveTransaction(d, i)
  BY DEF Event, OrderPaid, ProductEvent, AccountantAsks, StorekeeperAsks, StaffStep, BookingStep,
     FindAccount, RecordIncome, IncomeRecorded, RecordCharge, ChargeRecorded, ApproveIncome,
     IncomeApproved, FindWarehouse, MoveItem, ItemMoves, ShipItem, AllMoved, LookupFails,
     LedgerFails, InventoryFails, LedgerStep
<1>4. \/ InventoryStep(d) \/ InventoryRequest(d) \/ UNCHANGED inventoryVars
      \/ \E m : CreateMovement(d, m)
      \/ \E i : ApproveMovement(d, i)
  BY DEF Event, OrderPaid, ProductEvent, AccountantAsks, StorekeeperAsks, StaffStep, BookingStep,
     FindAccount, RecordIncome, IncomeRecorded, RecordCharge, ChargeRecorded, ApproveIncome,
     IncomeApproved, FindWarehouse, MoveItem, ItemMoves, ShipItem, AllMoved, LookupFails,
     LedgerFails, InventoryFails, InventoryStep
<1>5. ledgerCall'[e] = ledgerCall[e]
  BY <1>1, <1>3, LedgerAlone
<1>6. stockCall'[e] = stockCall[e]
  BY <1>1, <1>4, InventoryAlone
<1> QED
  BY <1>2, <1>5, <1>6

LEMMA PaidStaysFinite ==
  ASSUME PaidFinite, paid \in [Payments -> Nat],
         UNCHANGED paid \/ \E pay \in Payments : paid' = [paid EXCEPT ![pay] = @ + 1]
  PROVE  PaidFinite'
<1> DEFINE P == { p \in Payments : paid[p] > 0 }
<1>1. ASSUME NEW pay \in Payments, paid' = [paid EXCEPT ![pay] = @ + 1]
      PROVE  PaidFinite'
  <2>1. { p \in Payments : paid'[p] > 0 } \subseteq P \cup {pay}
    BY <1>1
  <2>2. IsFiniteSet(P \cup {pay})
    BY FS_AddElement DEF PaidFinite
  <2> QED
    BY <2>1, <2>2, FS_Subset DEF PaidFinite
<1> QED
  BY <1>1 DEF PaidFinite

LEMMA BookedNext ==
  ASSUME AccountingInv, BookedInv, "update" \notin LedgerHandlers, [Next]_vars
  PROVE  BookedInv'
<1>1. AccountingInv'
  BY NextKeeps
<1>2. CASE UNCHANGED vars
  <2>1. UNCHANGED << ledgerVars, inventoryVars, booking, paid >>
    BY <1>2 DEF vars
  <2>2. SalesInv' /\ NoNewSale /\ NoNewShipment
    BY <2>1, QuietSales, QuietShipments DEF AccountingInv, BookedInv
  <2>3. \A d \in Desks : CallsFit(d)'
    BY <2>1 DEF BookedInv, CallsFit, ledgerVars, inventoryVars, MainIncome, Income
  <2>4. Bookkeeping'
    <3>1. CASE Desks = {}
      <4>1. PICK f \in [Shipped -> TxnIds \X Nat] : Assigned(f)
        BY DEF BookedInv, Bookkeeping
      <4>2. Shipped' = Shipped /\ \A o \in Orders : Sales(o)' = Sales(o)
        BY <2>1 DEF Shipped, Sales, ledgerVars, inventoryVars, MovementIds, TxnIds
      <4>3. Assigned(f)'
        <5>1. movement' = movement
          BY <2>1 DEF inventoryVars
        <5>2. \A i \in Shipped' :
                 /\ f[i][1] \in Sales(movement[i].order)'
                 /\ f[i][2] \in DOMAIN Items[movement'[i].order]
                 /\ Items[movement'[i].order][f[i][2]][1] = movement'[i].product
          BY <2>1, <4>1, <4>2, <5>1 DEF Assigned, Shipped, Sales, TxnIds, ledgerVars
        <5>3. \A i, j \in Shipped' : f[i] = f[j] => i = j
          BY <4>1, <4>2 DEF Assigned
        <5> QED
          BY <3>1, <5>2, <5>3 DEF Assigned
      <4>4. SalesPaid'
        BY <2>1, <4>2 DEF BookedInv, Bookkeeping, SalesPaid, PaidWith, ledgerVars
      <4>5. OneEvent'
        BY <3>1 DEF OneEvent
      <4>6. \A d \in Desks : BookingFits(booking[d])'
        BY <3>1
      <4>7. f \in [Shipped' -> TxnIds' \X Nat]
        BY <2>1, <4>1, <4>2 DEF TxnIds, ledgerVars
      <4> QED
        BY <4>3, <4>4, <4>5, <4>6, <4>7 DEF Bookkeeping
    <3>2. CASE Desks # {}
      BY <1>1, <2>1, <2>2, <3>2, Stays DEF BookedInv
    <3> QED
      BY <3>1, <3>2
  <2> QED
    BY <2>1, <2>2, <2>3, <2>4, PaidStaysFinite DEF BookedInv, AccountingInv, BookingInv
<1>3. ASSUME NEW d \in Desks,
             \/ Event(d)
             \/ (AccountantAsks(d) \/ StorekeeperAsks(d)) /\ UNCHANGED << paid, restocked >>
             \/ Step(d)
      PROVE  BookedInv'
  <2>1. Fits(d)
    BY <1>1, <1>3, EventFits, RecordFits, IncomeFits, GoodsFit, ErrorFits, StaffFits
    DEF Step, BookingStep
  <2>2. Event(d) \/ AccountantAsks(d) \/ StorekeeperAsks(d) \/ BookingStep(d) \/ StaffStep(d)
    BY <1>3 DEF Step
  <2>3. \A e \in Desks : CallsFit(e)'
    <3>1. ASSUME NEW e \in Desks, e # d PROVE CallsFit(e)'
      <4>1. CallsFit(e) /\ booking'[e] = booking[e] /\ ledgerCall'[e] = ledgerCall[e]
            /\ stockCall'[e] = stockCall[e]
        BY <2>2, <3>1, NextAlone DEF BookedInv
      <4> QED
        BY <4>1 DEF CallsFit, MainIncome, Income
    <3> QED
      BY <2>1, <3>1 DEF Fits
  <2>4. PaidFinite'
    <3>1. UNCHANGED paid \/ \E pay \in Payments : paid' = [paid EXCEPT ![pay] = @ + 1]
      BY <1>3 DEF Event, OrderPaid, ProductEvent, Step
    <3> QED
      BY <3>1, PaidStaysFinite DEF BookedInv, AccountingInv, BookingInv
  <2> QED
    BY <2>1, <2>3, <2>4 DEF BookedInv, Fits
<1> QED
  BY <1>2, <1>3 DEF Next

LEMMA InitBooked == Init => BookedInv
<1> SUFFICES ASSUME Init PROVE BookedInv
  OBVIOUS
<1>1. /\ TxnIds = {} /\ MovementIds = {} /\ \A d \in Desks : booking[d] = NoBooking
      /\ \A d \in Desks : ledgerCall[d] = LedgerIdle /\ stockCall[d] = StockIdle
  BY DEF Init, LedgerInit, InventoryInit, TxnIds, MovementIds
<1>2. SalesInv /\ \A d \in Desks : CallsFit(d)
  BY <1>1, IdleTyped, StockIdleTyped
  DEF SalesInv, SalesKept, SaleKept, RefsUnique, CallsFit, NoBooking, Inserting
<1>3. \A d \in Desks : ~OfOrder(booking[d])
  BY <1>1, AccountingAssumption DEF OfOrder, NoBooking
<1>4. Bookkeeping
  <2>1. Shipped = {} /\ \A o \in Orders : Sales(o) = {}
    BY <1>1 DEF Shipped, Sales
  <2>2. \E f : f \in [Shipped -> TxnIds \X Nat]
    <3>1. [i \in Shipped |-> << 0, 0 >>] \in [Shipped -> TxnIds \X Nat]
      BY <2>1
    <3> QED
      BY <3>1
  <2>3. \A f \in [Shipped -> TxnIds \X Nat] : Assigned(f)
    BY <2>1 DEF Assigned
  <2> QED
    BY <1>3, <2>1, <2>2, <2>3 DEF Bookkeeping, BookingFits, OneEvent, Recorded, SalesPaid
<1>5. PaidFinite
  <2>1. { pay \in Payments : paid[pay] > 0 } = {}
    BY DEF Init
  <2> QED
    BY <2>1, FS_EmptySet DEF PaidFinite
<1> QED
  BY <1>2, <1>4, <1>5 DEF BookedInv

LEMMA BookedInvHolds ==
  ASSUME "update" \notin LedgerHandlers
  PROVE  Spec => [](AccountingInv /\ BookedInv)
<1>1. Init => AccountingInv /\ BookedInv
  BY InitAccountingInv, InitBooked
<1>2. AccountingInv /\ BookedInv /\ [Next]_vars => (AccountingInv /\ BookedInv)'
  BY NextKeeps, BookedNext
<1> QED
  BY <1>1, <1>2, PTL DEF Spec

-----------------------------------------------------------------------------
(* What follows for the number of sales and of shipments.                   *)

LEMMA SalesCounted ==
  ASSUME BookedInv, NEW o \in Orders
  PROVE  /\ IsFiniteSet(PaidWith(o)) /\ IsFiniteSet(Sales(o))
         /\ Cardinality(Sales(o)) <= Cardinality(PaidWith(o))
<1>1. IsFiniteSet(PaidWith(o))
  <2>1. PaidWith(o) \subseteq { pay \in Payments : paid[pay] > 0 }
    BY DEF PaidWith
  <2> QED
    BY <2>1, FS_Subset DEF BookedInv, PaidFinite
<1> DEFINE g == [i \in Sales(o) |-> txn[i].ref[2]]
<1>2. \A i \in Sales(o) : g[i] \in PaidWith(o) /\ txn[i].ref = << "AUTHORITY", g[i] >>
  BY DEF BookedInv, Bookkeeping, SalesPaid
<1>3. \A i, j \in Sales(o) : txn[i].ref = txn[j].ref => i = j
  BY DEF BookedInv, SalesInv, RefsUnique, Sales
<1>4. g \in Injection(Sales(o), PaidWith(o))
  <2>1. g \in [Sales(o) -> PaidWith(o)]
    BY <1>2
  <2>2. \A i, j \in Sales(o) : g[i] = g[j] => i = j
    BY <1>2, <1>3
  <2> HIDE DEF g
  <2> QED
    BY <2>1, <2>2 DEF Injection, IsInjective
<1> QED
  BY <1>1, <1>4, FS_Injection DEF ExistsInjection

LEMMA ShipmentsCounted ==
  ASSUME BookedInv, NEW o \in Orders, NEW p \in Products
  PROVE  Cardinality({ i \in Shipments(o) : movement[i].product = p })
           <= Cardinality({ n \in DOMAIN Items[o] : Items[o][n][1] = p }) * Cardinality(PaidWith(o))
<1> DEFINE S == { i \in Shipments(o) : movement[i].product = p }
           N == { n \in DOMAIN Items[o] : Items[o][n][1] = p }
<1>1. PICK f \in [Shipped -> TxnIds \X Nat] : Assigned(f)
  BY DEF BookedInv, Bookkeeping
<1>2. S \subseteq Shipped /\ \A i \in S : movement[i].order = o /\ movement[i].product = p
  BY DEF Shipments, Shipped
<1> HIDE DEF S
<1>3. \A i \in S : /\ f[i] = << f[i][1], f[i][2] >> /\ f[i][1] \in Sales(o) /\ f[i][2] \in N
  BY <1>1, <1>2 DEF Assigned
<1> DEFINE g == [i \in S |-> << f[i][2], txn[f[i][1]].ref[2] >>]
<1>4. \A i \in S : txn[f[i][1]].ref[2] \in PaidWith(o)
                  /\ txn[f[i][1]].ref = << "AUTHORITY", txn[f[i][1]].ref[2] >>
  BY <1>3 DEF BookedInv, Bookkeeping, SalesPaid
<1>5. \A i, j \in Sales(o) : txn[i].ref = txn[j].ref => i = j
  BY DEF BookedInv, SalesInv, RefsUnique, Sales
<1>6. \A i, j \in S : f[i] = f[j] => i = j
  BY <1>1, <1>2 DEF Assigned
<1>7. g \in Injection(S, N \X PaidWith(o))
  <2>1. g \in [S -> N \X PaidWith(o)]
    BY <1>3, <1>4
  <2>2. ASSUME NEW i \in S, NEW j \in S, g[i] = g[j] PROVE i = j
    <3>1. f[i][2] = f[j][2] /\ txn[f[i][1]].ref[2] = txn[f[j][1]].ref[2]
      BY <2>2
    <3>2. f[i][1] = f[j][1]
      <4>1. f[i][1] \in Sales(o) /\ f[j][1] \in Sales(o)
        BY <1>3
      <4>2. txn[f[i][1]].ref = txn[f[j][1]].ref
        BY <1>4, <3>1
      <4> QED
        BY <1>5, <4>1, <4>2
    <3> QED
      BY <1>3, <1>6, <3>1, <3>2
  <2> HIDE DEF g
  <2> QED
    BY <2>1, <2>2 DEF Injection, IsInjective
<1>8. IsFiniteSet(N) /\ IsFiniteSet(PaidWith(o))
  <2>1. Items[o] \in Seq(Products \X (Nat \ {0}))
    BY OrderAccountingAssumption
  <2>2. DOMAIN Items[o] = 1 .. Len(Items[o]) /\ Len(Items[o]) \in Nat
    BY <2>1
  <2>3. IsFiniteSet(DOMAIN Items[o])
    BY <2>2, FS_Interval
  <2> QED
    BY <2>3, FS_Subset, SalesCounted
<1> HIDE DEF N, g
<1>9. /\ IsFiniteSet(N \X PaidWith(o))
      /\ Cardinality(N \X PaidWith(o)) = Cardinality(N) * Cardinality(PaidWith(o))
  BY <1>8, FS_Product
<1>10. Cardinality(S) <= Cardinality(N) * Cardinality(PaidWith(o))
  BY <1>7, <1>9, FS_Injection DEF ExistsInjection
<1> QED
  BY <1>10 DEF S, N

\* However often order.paid comes for a payment, and whatever the listeners and
\* the staff do at the same time, an order's total is recorded once for a
\* payment and each of its items leaves the warehouse once for it at most.  The
\* handler update may set a reference number and is left out.
THEOREM OrdersBookedOnce ==
  ASSUME "update" \notin LedgerHandlers
  PROVE  Spec => []BookedOnce
<1>1. BookedInv => BookedOnce
  BY SalesCounted, ShipmentsCounted DEF BookedOnce
<1> QED
  BY BookedInvHolds, <1>1, PTL

-----------------------------------------------------------------------------
(* Nothing is shipped before the order's income is approved.               *)

SaleApproved(o) == \E i \in Sales(o) : txn[i].status = "APPROVED"

\* The handlers of the books that are used do not take an approval back.
Approves(c) ==
  /\ c.op # "save"
  /\ c.op \in {"approve", "approving"} => c.txn.status = "APPROVED"
  /\ c.op = "approving" /\ c.base.status = "APPROVED" => txn[c.id].status = "APPROVED"

OnlyApprovals == \A d \in Desks : Approves(ledgerCall[d])

ApprovedStay ==
  \A i \in TxnIds : i \in TxnIds' /\ (txn[i].status = "APPROVED" => txn'[i].status = "APPROVED")

SalesGrow == \A o \in Orders : \A i \in Sales(o) : i \in Sales(o)'

\* What the listener that is past its income knows of it.
IncomeKnown(b, c) ==
  OfOrder(b) =>
    /\ b.stage \in {"charges", "approve"} => b.id \in Sales(b.order)
    /\ b.stage = "approve" => c.id = b.id
    /\ b.stage \in {"warehouse", "items", "ship"} => SaleApproved(b.order)

GoodsInv ==
  /\ OnlyApprovals
  /\ \A d \in Desks : IncomeKnown(booking[d], ledgerCall[d])
  /\ GoodsAfterMoney

OnlyApproving == {"update", "reject", "remove"} \cap LedgerHandlers = {}

LEMMA CallsApprove ==
  ASSUME LedgerInv, OnlyApprovals, ApprovedStay, NEW d \in Desks, NEW c,
         ledgerCall' = [ledgerCall EXCEPT ![d] = c], c.op # "save",
         c.op \in {"approve", "approving"} => c.txn.status = "APPROVED",
         c.op = "approving" /\ c.base.status = "APPROVED" => txn'[c.id].status = "APPROVED"
  PROVE  OnlyApprovals'
<1>1. ASSUME NEW e \in Desks PROVE Approves(ledgerCall[e])'
  <2>1. CASE ledgerCall'[e] = c
    BY <2>1 DEF Approves
  <2>2. CASE ledgerCall'[e] = ledgerCall[e]
    <3>1. Approves(ledgerCall[e])
      BY DEF OnlyApprovals
    <3>2. ledgerCall[e].op = "approving" => ledgerCall[e].id \in TxnIds
      BY DEF LedgerInv, CallKnown
    <3> QED
      BY <2>2, <3>1, <3>2 DEF Approves, ApprovedStay
  <2> QED
    BY <2>1, <2>2 DEF LedgerInv, LedgerTypeOK
<1> QED
  BY <1>1 DEF OnlyApprovals

LEMMA HungUpApproves ==
  ASSUME LedgerInv, OnlyApprovals, ApprovedStay, NEW d \in Desks, Hangup(d)
  PROVE  OnlyApprovals'
<1>1. LedgerIdle.op = "idle"
  BY DEF LedgerIdle
<1> QED
  BY <1>1, CallsApprove DEF Hangup

\* A transaction is written by the insert of a new one and by an approval.
LEMMA InsertApproves ==
  ASSUME LedgerInv, OnlyApprovals, NEW d \in Desks, InsertTransaction(d)
  PROVE  OnlyApprovals' /\ ApprovedStay
<1> DEFINE t == ledgerCall[d].txn
<1>1. txn' = Append(txn, t) /\ Hangup(d)
  BY DEF InsertTransaction
<1> HIDE DEF t
<1>2. ApprovedStay
  BY <1>1 DEF ApprovedStay, LedgerInv, LedgerTypeOK, TxnIds
<1> QED
  BY <1>1, <1>2, HungUpApproves

LEMMA MergedApproved ==
  ASSUME NEW base \in TxnRow, NEW t \in TxnRow, NEW stored \in TxnRow, t.status = "APPROVED",
         base.status = "APPROVED" => stored.status = "APPROVED"
  PROVE  Merged(base, t, stored).status = "APPROVED"
  BY DEF Merged, TxnRow

LEMMA CommitApproves ==
  ASSUME LedgerInv, OnlyApprovals, NEW d \in Desks, CommitApproval(d)
  PROVE  OnlyApprovals' /\ ApprovedStay /\ txn'[ledgerCall[d].id].status = "APPROVED"
<1> DEFINE c == ledgerCall[d]
           t == Merged(c.base, c.txn, txn[c.id])
<1>1. /\ c.id \in TxnIds /\ txn[c.id] \in TxnRow /\ c.base \in TxnRow /\ c.txn \in TxnRow
      /\ c.op = "approving"
  BY DEF CommitApproval, LedgerInv, CallKnown, CallTyped, LedgerCalls, KnownTxn
<1>2. t.status = "APPROVED"
  BY <1>1, MergedApproved DEF OnlyApprovals, Approves
<1>3. txn' = [txn EXCEPT ![c.id] = t] /\ Hangup(d)
  BY DEF CommitApproval
<1> HIDE DEF t
<1>4. ApprovedStay /\ txn'[c.id].status = "APPROVED"
  BY <1>1, <1>2, <1>3 DEF ApprovedStay, TxnIds, LedgerInv, LedgerTypeOK
<1> QED
  BY <1>3, <1>4, HungUpApproves

LEMMA QuietApproves ==
  ASSUME UNCHANGED txn
  PROVE  ApprovedStay
  BY DEF ApprovedStay, TxnIds

LEMMA BeginApproves ==
  ASSUME LedgerInv, OnlyApprovals, NEW d \in Desks, BeginApproval(d)
  PROVE  OnlyApprovals' /\ ApprovedStay
<1> DEFINE c == ledgerCall[d]
           next == ledgerCall'[d]
<1>1. c \in LedgerCalls /\ txn' = txn /\ c.txn.status = "APPROVED"
  BY DEF BeginApproval, LedgerInv, CallTyped, ledger, OnlyApprovals, Approves
<1>2. /\ next.op = "approving" /\ next.id = c.id /\ next.txn = c.txn /\ next.base = txn[c.id]
      /\ ledgerCall' = [ledgerCall EXCEPT ![d] = next]
  BY <1>1 DEF BeginApproval, LedgerInv, LedgerTypeOK, LedgerCalls
<1> HIDE DEF next
<1> QED
  BY <1>1, <1>2, CallsApprove, QuietApproves

\* A call that is not about a transaction's status.
LEMMA TakenApproves ==
  ASSUME LedgerInv, OnlyApprovals, UNCHANGED txn, NEW d \in Desks, NEW c,
         ledgerCall' = [ledgerCall EXCEPT ![d] = c], c.op \notin {"save", "approve", "approving"}
  PROVE  OnlyApprovals' /\ ApprovedStay
  BY CallsApprove, QuietApproves

LEMMA StepApproves ==
  ASSUME LedgerInv, OnlyApprovals, NEW d \in Desks, LedgerStep(d)
  PROVE  OnlyApprovals' /\ ApprovedStay
<1>1. CASE ClearOtherDefaults(d)
  <2>1. /\ ledgerCall' = [ledgerCall EXCEPT ![d] = ledgerCall'[d]] /\ txn' = txn
        /\ ledgerCall'[d].op = "storeAccount"
    BY <1>1 DEF ClearOtherDefaults, LedgerInv, LedgerTypeOK, LedgerCalls
  <2> QED
    BY <2>1, TakenApproves
<1>2. CASE \/ InsertRefused(d) \/ RollbackApproval(d) \/ InsertAccount(d) \/ StoreAccount(d)
           \/ DeleteAccount(d)
  <2>1. Hangup(d) /\ txn' = txn
    BY <1>2 DEF InsertRefused, RollbackApproval, InsertAccount, StoreAccount, DeleteAccount, ledger
  <2> QED
    BY <2>1, HungUpApproves, QuietApproves
<1>3. ~SaveTransaction(d)
  BY DEF SaveTransaction, OnlyApprovals, Approves
<1> QED
  BY <1>1, <1>2, <1>3, InsertApproves, BeginApproves, CommitApproves DEF LedgerStep

LEMMA AsksApproval ==
  ASSUME LedgerInv, OnlyApprovals, NEW d \in Desks, NEW i \in TxnIds, ApproveTransaction(d, i)
  PROVE  OnlyApprovals' /\ ApprovedStay /\ ledgerCall'[d].id = i
<1> DEFINE t == [txn[i] EXCEPT !.status = "APPROVED"]
           c == [LedgerIdle EXCEPT !.op = "approve", !.id = i, !.txn = t]
<1>1. txn[i] \in TxnRow
  BY DEF LedgerInv, KnownTxn
<1>2. t.status = "APPROVED"
  BY <1>1 DEF TxnRow
<1>3. ledgerCall' = [ledgerCall EXCEPT ![d] = c] /\ txn' = txn
  BY DEF ApproveTransaction, Takes, ledger
<1>4. c.op = "approve" /\ c.id = i /\ c.txn = t
  BY DEF LedgerIdle
<1> HIDE DEF c, t
<1>5. ledgerCall'[d] = c
  BY <1>3 DEF LedgerInv, LedgerTypeOK
<1> QED
  BY <1>2, <1>3, <1>4, <1>5, CallsApprove, QuietApproves

LEMMA CreateApproves ==
  ASSUME LedgerInv, OnlyApprovals, NEW d \in Desks, NEW t, CreateTransaction(d, t)
  PROVE  OnlyApprovals' /\ ApprovedStay
<1> DEFINE c == [LedgerIdle EXCEPT !.op = "insert", !.txn = Numbered(t)]
<1>1. ledgerCall' = [ledgerCall EXCEPT ![d] = c] /\ txn' = txn
  BY DEF CreateTransaction, Takes, ledger
<1>2. c.op = "insert"
  BY DEF LedgerIdle
<1> HIDE DEF c
<1> QED
  BY <1>1, <1>2, TakenApproves

LEMMA AccountRequestsApprove ==
  ASSUME LedgerInv, OnlyApprovals, NEW d \in Desks, NEW a \in Accounts,
         \/ \E opening \in Openings, default \in BOOLEAN : OpenAccount(d, a, opening, default)
         \/ \E active \in BOOLEAN, isDefault \in {"yes", "no", "keep"} :
              ChangeAccount(d, a, active, isDefault)
         \/ RemoveAccount(d, a)
  PROVE  OnlyApprovals' /\ ApprovedStay
<1>1. txn' = txn
  BY DEF OpenAccount, ChangeAccount, RemoveAccount, ledger
<1>2. ASSUME NEW op \in {"openAccount", "changeAccount", "storeAccount"}, NEW row,
             Takes(d, [LedgerIdle EXCEPT !.op = op, !.account = a, !.row = row])
      PROVE  OnlyApprovals' /\ ApprovedStay
  <2> DEFINE c == [LedgerIdle EXCEPT !.op = op, !.account = a, !.row = row]
  <2>1. c.op = op
    BY DEF LedgerIdle
  <2>2. ledgerCall' = [ledgerCall EXCEPT ![d] = c]
    BY <1>2 DEF Takes
  <2> HIDE DEF c
  <2> QED
    BY <1>1, <2>1, <2>2, TakenApproves
<1>3. CASE RemoveAccount(d, a)
  <2> DEFINE c == [LedgerIdle EXCEPT !.op = "removeAccount", !.account = a]
  <2>1. c.op = "removeAccount"
    BY DEF LedgerIdle
  <2>2. ledgerCall' = [ledgerCall EXCEPT ![d] = c]
    BY <1>3 DEF RemoveAccount, Takes
  <2> HIDE DEF c
  <2> QED
    BY <1>1, <2>1, <2>2, TakenApproves
<1> QED
  BY <1>2, <1>3 DEF OpenAccount, ChangeAccount

LEMMA RequestApproves ==
  ASSUME LedgerInv, OnlyApprovals, OnlyApproving, NEW d \in Desks, LedgerRequest(d)
  PROVE  OnlyApprovals' /\ ApprovedStay
  BY CreateApproves, AsksApproval, AccountRequestsApprove DEF LedgerRequest, OnlyApproving

LEMMA UseApproves ==
  ASSUME LedgerInv, OnlyApprovals, OnlyApproving, NEW d \in Desks, UsesLedger(d)
  PROVE  OnlyApprovals' /\ ApprovedStay
<1>1. CASE UNCHANGED ledgerVars
  BY <1>1, QuietApproves DEF ledgerVars, OnlyApprovals, Approves
<1> QED
  BY <1>1, StepApproves, RequestApproves, CreateApproves, AsksApproval
  DEF UsesLedger, ApproveIncome, ApproveTransaction

LEMMA UseSells ==
  ASSUME LedgerInv, SalesKept, "update" \notin LedgerHandlers, NEW d \in Desks, UsesLedger(d)
  PROVE  SalesGrow
<1>1. CASE InsertTransaction(d)
  <2>1. /\ TxnIds' = TxnIds \cup {Len(txn) + 1} /\ \A i \in TxnIds : txn'[i] = txn[i]
    BY <1>1, InsertSells
  <2> QED
    BY <2>1 DEF SalesGrow, Sales
<1>2. CASE NothingRecorded
  BY <1>2 DEF SalesGrow, Sales, NothingRecorded, SameSale
<1>3. CASE txn' = txn
  BY <1>3 DEF SalesGrow, Sales, TxnIds
<1>4. CASE LedgerStep(d) /\ ~InsertTransaction(d)
  BY <1>2, <1>4, StepSells
<1>5. CASE LedgerRequest(d)
  BY <1>2, <1>5, RequestSells
<1>6. CASE UNCHANGED ledgerVars \/ (\E t : CreateTransaction(d, t)) \/ ApproveIncome(d)
  BY <1>3, <1>6 DEF ledgerVars, CreateTransaction, ApproveIncome, ApproveTransaction, ledger
<1> QED
  BY <1>1, <1>4, <1>5, <1>6 DEF UsesLedger

\* What is approved and sold stays so.
LEMMA SaleStaysApproved ==
  ASSUME SalesGrow, ApprovedStay, NEW o \in Orders, SaleApproved(o)
  PROVE  SaleApproved(o)'
<1>1. PICK i \in Sales(o) : txn[i].status = "APPROVED"
  BY DEF SaleApproved
<1>2. i \in Sales(o)' /\ txn'[i].status = "APPROVED"
  BY <1>1 DEF SalesGrow, ApprovedStay, Sales
<1> QED
  BY <1>2 DEF SaleApproved

\* A shipment is an old one, or one of a listener that has reached the items.
LEMMA ShipsForSales ==
  ASSUME AccountingInv, BookedInv, GoodsInv, NEW d \in Desks, UsesInventory(d), NEW o \in Orders,
         Shipments(o)' # {}
  PROVE  SaleApproved(o)
<1>1. InventoryInv /\ CallsFit(d) /\ IncomeKnown(booking[d], ledgerCall[d])
  BY DEF AccountingInv, BookedInv, GoodsInv
<1>2. PICK i \in MovementIds' : movement'[i].order = o
  BY DEF Shipments
<1>3. CASE i \in MovementIds /\ movement[i].order = o
  BY <1>3 DEF GoodsInv, GoodsAfterMoney, Shipments, SaleApproved
<1>4. CASE InsertMovement(d)
  <2>1. /\ stockCall[d].op \in Inserting
        /\ MovementIds' = MovementIds \cup {Len(movement) + 1}
        /\ \A j \in MovementIds : movement'[j] = movement[j]
        /\ movement'[Len(movement) + 1] = stockCall[d].movement
    BY <1>1, <1>4, InsertMoves
  <2>2. CASE i \in MovementIds
    BY <1>2, <1>3, <2>1, <2>2
  <2>3. CASE i = Len(movement) + 1
    <3>1. stockCall[d].movement.order = o
      BY <1>2, <2>1, <2>3
    <3>2. booking[d].stage = "items" /\ booking[d].order = o
      BY <1>1, <2>1, <3>1 DEF CallsFit
    <3> QED
      BY <1>1, <3>2 DEF IncomeKnown, OfOrder
  <2> QED
    BY <2>1, <2>2, <2>3
<1>5. CASE NothingMoved
  BY <1>2, <1>3, <1>5 DEF NothingMoved, SameGoods
<1>6. NothingMoved \/ InsertMovement(d)
  BY <1>1, StepMoves, RequestMoves, CreateMoves, OtherRequestsMove, QuietMoves
  DEF UsesInventory, inventoryVars
<1> QED
  BY <1>4, <1>5, <1>6

\* What a listener knows of its income, after its own step.
LEMMA IncomeStays ==
  ASSUME AccountingInv, BookedInv, GoodsInv, OnlyApproving, NEW d \in Desks, SalesGrow, ApprovedStay,
         Event(d) \/ AccountantAsks(d) \/ StorekeeperAsks(d) \/ BookingStep(d) \/ StaffStep(d)
  PROVE  IncomeKnown(booking[d], ledgerCall[d])'
<1> DEFINE b == booking[d]
<1>1. /\ LedgerInv /\ SalesKept /\ OnlyApprovals /\ CallsFit(d) /\ IncomeKnown(b, ledgerCall[d])
      /\ BookingTyped(b) /\ booking \in [Desks -> Bookings]
  BY DEF AccountingInv, BookingInv, BookedInv, SalesInv, GoodsInv
<1>2. \A o \in Orders : SaleApproved(o) => SaleApproved(o)'
  BY SaleStaysApproved
<1>3. CASE booking'[d].order \notin Orders
  BY <1>3 DEF IncomeKnown, OfOrder
<1>4. CASE booking'[d].stage \in {"account", "income"}
  BY <1>4 DEF IncomeKnown
<1>5. CASE Event(d)
  BY <1>1, <1>3, <1>4, <1>5, AccountingAssumption DEF Event, OrderPaid, ProductEvent, Goes, NoBooking
<1>6. CASE AccountantAsks(d) \/ StorekeeperAsks(d) \/ StaffStep(d)
  BY <1>3, <1>6, AccountingAssumption DEF AccountantAsks, StorekeeperAsks, StaffStep, Free, NoBooking
<1>7. CASE LookupFails(d) \/ LedgerFails(d) \/ InventoryFails(d) \/ AllMoved(d)
  BY <1>1, <1>3, <1>7, AccountingAssumption
  DEF LookupFails, LedgerFails, InventoryFails, AllMoved, Ends, Goes, NoBooking
<1>8. CASE FindAccount(d)
  BY <1>4, <1>8, Reached DEF FindAccount, Turn, Reaches
<1>9. CASE RecordIncome(d)
  BY <1>4, <1>9 DEF RecordIncome, Turn
<1>10. CASE IncomeRecorded(d)
  <2> DEFINE n == Len(txn) + 1
             next == [b EXCEPT !.stage = "charges", !.id = n]
  <2>1. b.stage = "income" /\ InsertTransaction(d) /\ booking' = [booking EXCEPT ![d] = next]
    BY <1>10 DEF IncomeRecorded, Turn, Goes
  <2>2. ledgerCall[d].txn = MainIncome(b) /\ n \in TxnIds' /\ txn'[n] = ledgerCall[d].txn
    BY <1>1, <2>1, InsertSells DEF CallsFit, InsertTransaction
  <2>3. txn'[n].order = b.order /\ txn'[n].category = "PRODUCT_SALE"
    BY <2>2 DEF MainIncome, Income
  <2>4. next.stage = "charges" /\ next.id = n /\ next.order = b.order
    BY <1>1, Staged
  <2> HIDE DEF n, next
  <2> QED
    BY <1>1, <2>1, <2>2, <2>3, <2>4 DEF IncomeKnown, Sales
<1>11. CASE RecordCharge(d)
  BY <1>1, <1>11 DEF RecordCharge, Turn, IncomeKnown, SalesGrow, OfOrder
<1>12. CASE ChargeRecorded(d)
  <2> DEFINE next == [b EXCEPT !.charges = Tail(@)]
  <2>1. b.stage = "charges" /\ booking' = [booking EXCEPT ![d] = next]
    BY <1>12 DEF ChargeRecorded, Turn, Goes
  <2>2. next.stage = "charges" /\ next.id = b.id /\ next.order = b.order
    BY <1>1, <2>1 DEF Bookings
  <2> HIDE DEF next
  <2> QED
    BY <1>1, <2>1, <2>2 DEF IncomeKnown, SalesGrow, OfOrder
<1>13. CASE ApproveIncome(d)
  <2> DEFINE next == [b EXCEPT !.stage = "approve"]
  <2>1. b.stage = "charges" /\ booking' = [booking EXCEPT ![d] = next] /\ ApproveTransaction(d, b.id)
    BY <1>13 DEF ApproveIncome, Turn, Goes
  <2>2. next.stage = "approve" /\ next.id = b.id /\ next.order = b.order
    BY <1>1 DEF Bookings
  <2>3. ledgerCall'[d].id = b.id
    BY <1>1, <2>1, AsksApproval DEF ApproveTransaction
  <2> HIDE DEF next
  <2> QED
    BY <1>1, <2>1, <2>2, <2>3 DEF IncomeKnown, SalesGrow, OfOrder
<1>14. CASE Turn(d, "approve") /\ BeginApproval(d) /\ UNCHANGED booking
  <2>1. ledgerCall'[d].id = ledgerCall[d].id
    BY <1>1, <1>14, BeginSells
  <2> QED
    BY <1>1, <1>14, <2>1 DEF Turn, IncomeKnown, SalesGrow, OfOrder
<1>15. CASE /\ Turn(d, "approve") /\ CommitApproval(d)
            /\ Goes(d, [booking[d] EXCEPT !.stage = "warehouse", !.id = 0])
  <2> DEFINE next == [b EXCEPT !.stage = "warehouse", !.id = 0]
  <2>1. b.stage = "approve" /\ booking' = [booking EXCEPT ![d] = next]
    BY <1>15 DEF Turn, Goes
  <2>2. next.stage = "warehouse" /\ next.order = b.order
    BY <1>1, Staged
  <2>3. txn'[ledgerCall[d].id].status = "APPROVED"
    BY <1>1, <1>15, CommitApproves
  <2> HIDE DEF next
  <2> QED
    BY <1>1, <2>1, <2>2, <2>3 DEF IncomeKnown, SalesGrow, OfOrder, SaleApproved
<1>16. ASSUME booking'[d].order = b.order, b.stage \in {"warehouse", "items", "ship"},
              booking'[d].stage \in {"warehouse", "items", "ship"}
       PROVE  IncomeKnown(booking[d], ledgerCall[d])'
  BY <1>1, <1>2, <1>16 DEF IncomeKnown, OfOrder
<1>17. CASE FindWarehouse(d) \/ ItemMoves(d)
  BY <1>16, <1>17, Reached DEF FindWarehouse, ItemMoves, Turn, Reaches
<1>18. CASE MoveItem(d) \/ (ShipItem(d) /\ UNCHANGED booking)
  BY <1>16, <1>18 DEF MoveItem, ShipItem, Turn
<1>19. CASE /\ Turn(d, "ship")
            /\ Goes(d, [booking[d] EXCEPT !.stage = "items", !.id = 0, !.todo = Tail(@)])
  <2> DEFINE next == [b EXCEPT !.stage = "items", !.id = 0, !.todo = Tail(@)]
  <2>1. b.stage = "ship" /\ booking' = [booking EXCEPT ![d] = next]
    BY <1>19 DEF Turn, Goes
  <2>2. next.stage = "items" /\ next.order = b.order
    BY <1>1 DEF Bookings
  <2> HIDE DEF next
  <2> QED
    BY <1>1, <1>16, <2>1, <2>2
<1> QED
  BY <1>5, <1>6, <1>7, <1>8, <1>9, <1>10, <1>11, <1>12, <1>13, <1>14, <1>15, <1>17, <1>18, <1>19
  DEF BookingStep, IncomeApproved, ShipItem

LEMMA GoodsNext ==
  ASSUME AccountingInv, BookedInv, GoodsInv, OnlyApproving, [Next]_vars
  PROVE  GoodsInv'
<1>1. CASE UNCHANGED vars
  <2>1. UNCHANGED << ledgerVars, inventoryVars, booking >>
    BY <1>1 DEF vars
  <2> QED
    BY <2>1 DEF ledgerVars, inventoryVars, GoodsInv, OnlyApprovals, Approves, IncomeKnown, OfOrder,
       SaleApproved, Sales, Shipments, GoodsAfterMoney, TxnIds, MovementIds
<1>2. ASSUME NEW d \in Desks,
             Event(d) \/ AccountantAsks(d) \/ StorekeeperAsks(d) \/ BookingStep(d) \/ StaffStep(d)
      PROVE  GoodsInv'
  <2>1. LedgerInv /\ SalesKept /\ OnlyApprovals
    BY DEF AccountingInv, BookedInv, SalesInv, GoodsInv
  <2>2. OnlyApprovals' /\ ApprovedStay /\ SalesGrow
    BY <1>2, <2>1, StepUsesLedger, UseApproves, UseSells DEF OnlyApproving
  <2>3. ASSUME NEW o \in Orders, Shipments(o)' # {}
        PROVE  \E i \in Sales(o)' : txn'[i].status = "APPROVED"
    BY <1>2, <2>2, <2>3, StepUsesInventory, ShipsForSales, SaleStaysApproved DEF SaleApproved
  <2>4. ASSUME NEW e \in Desks PROVE IncomeKnown(booking[e], ledgerCall[e])'
    <3>1. CASE e = d
      BY <1>2, <2>2, <3>1, IncomeStays
    <3>2. CASE e # d
      <4>1. booking'[e] = booking[e] /\ ledgerCall'[e] = ledgerCall[e]
        BY <1>2, <3>2, NextAlone
      <4>2. IncomeKnown(booking[e], ledgerCall[e])
        BY DEF GoodsInv
      <4> QED
        BY <2>2, <4>1, <4>2, SaleStaysApproved DEF IncomeKnown, OfOrder, SalesGrow
    <3> QED
      BY <3>1, <3>2
  <2> QED
    BY <2>2, <2>3, <2>4 DEF GoodsInv, GoodsAfterMoney
<1> QED
  BY <1>1, <1>2 DEF Next, Step

LEMMA InitGoods == Init => GoodsInv
<1> SUFFICES ASSUME Init PROVE GoodsInv
  OBVIOUS
<1>1. /\ ledgerCall = [d \in Desks |-> LedgerIdle] /\ movement = << >>
      /\ booking = [d \in Desks |-> NoBooking]
  BY DEF Init, LedgerInit, InventoryInit
<1>2. OnlyApprovals
  BY <1>1, IdleTyped DEF OnlyApprovals, Approves
<1>3. \A d \in Desks : ~OfOrder(booking[d])
  BY <1>1, AccountingAssumption DEF OfOrder, NoBooking
<1>4. MovementIds = {}
  BY <1>1 DEF MovementIds
<1> QED
  BY <1>2, <1>3, <1>4 DEF GoodsInv, GoodsAfterMoney, IncomeKnown, Shipments

\* Nothing leaves the warehouse for an order whose income has not been approved,
\* whatever other listeners and the staff do: the handlers that could take an
\* approval back or give a row another reference are left out.
THEOREM GoodsLeaveAfterMoney ==
  ASSUME OnlyApproving
  PROVE  Spec => []GoodsAfterMoney
<1>1. "update" \notin LedgerHandlers
  BY DEF OnlyApproving
<1>2. Spec => [](AccountingInv /\ BookedInv)
  BY <1>1, BookedInvHolds
<1>3. AccountingInv /\ BookedInv /\ GoodsInv /\ [Next]_vars => GoodsInv'
  BY GoodsNext
<1>4. GoodsInv => GoodsAfterMoney
  BY DEF GoodsInv
<1> QED
  BY <1>2, <1>3, <1>4, InitGoods, PTL DEF Spec

-----------------------------------------------------------------------------
(* What an order earns is its total.                                       *)

\* Of the rows of an order, only its sales are approved.
SalesEarn ==
  \A i \in TxnIds : txn[i].order \in Orders =>
    /\ txn[i].category = "PRODUCT_SALE" => txn[i].amount = Total[txn[i].order]
    /\ txn[i].status = "APPROVED" => txn[i].category = "PRODUCT_SALE"

Earns(c) ==
  /\ c.op \in {"approve", "approving"} /\ txn[c.id].order \in Orders =>
       txn[c.id].category = "PRODUCT_SALE"
  /\ c.op \in {"insert", "save"} => c.txn.status # "APPROVED"

CallsEarn == \A d \in Desks : Earns(ledgerCall[d])

\* The listener approves the income it has recorded.
IncomeNoted(b) == b.stage = "charges" => OfOrder(b) /\ b.id \in Sales(b.order)

IncomeInv == SalesEarn /\ CallsEarn /\ \A d \in Desks : IncomeNoted(booking[d])

ApprovedByOrders == {"update", "approve"} \cap LedgerHandlers = {}

LEMMA CallsEarnKept ==
  ASSUME LedgerInv, CallsEarn, NEW d \in Desks, NEW c, ledgerCall' = [ledgerCall EXCEPT ![d] = c],
         \A i \in TxnIds : i \in TxnIds' /\ SameSale(txn'[i], txn[i]),
         c.op \in {"approve", "approving"} =>
           c.id \in TxnIds /\ (txn[c.id].order \in Orders => txn[c.id].category = "PRODUCT_SALE"),
         c.op \in {"insert", "save"} => c.txn.status # "APPROVED"
  PROVE  CallsEarn'
<1>1. ASSUME NEW e \in Desks PROVE Earns(ledgerCall[e])'
  <2>1. CASE ledgerCall'[e] = c
    BY <2>1 DEF Earns, SameSale
  <2>2. CASE ledgerCall'[e] = ledgerCall[e]
    <3>1. Earns(ledgerCall[e])
      BY DEF CallsEarn
    <3>2. ledgerCall[e].op \in {"approve", "approving"} => ledgerCall[e].id \in TxnIds
      BY DEF LedgerInv, CallKnown
    <3> QED
      BY <2>2, <3>1, <3>2 DEF Earns, SameSale
  <2> QED
    BY <2>1, <2>2 DEF LedgerInv, LedgerTypeOK
<1> QED
  BY <1>1 DEF CallsEarn

\* A step that writes no transaction and asks for nothing of one.
LEMMA QuietEarns ==
  ASSUME LedgerInv, SalesEarn, CallsEarn, UNCHANGED txn, NEW d \in Desks, NEW c,
         ledgerCall' = [ledgerCall EXCEPT ![d] = c],
         c.op \in {"approve", "approving"} =>
           c.id \in TxnIds /\ (txn[c.id].order \in Orders => txn[c.id].category = "PRODUCT_SALE"),
         c.op \in {"insert", "save"} => c.txn.status # "APPROVED"
  PROVE  SalesEarn' /\ CallsEarn'
<1>1. SalesEarn'
  BY DEF SalesEarn, TxnIds
<1> QED
  BY <1>1, CallsEarnKept DEF SameSale, TxnIds

LEMMA InsertEarns ==
  ASSUME LedgerInv, SalesKept, SalesEarn, CallsEarn, NEW d \in Desks, CallsFit(d),
         InsertTransaction(d)
  PROVE  SalesEarn' /\ CallsEarn'
<1> DEFINE t == ledgerCall[d].txn
           n == Len(txn) + 1
<1>1. /\ TxnIds' = TxnIds \cup {n} /\ \A i \in TxnIds : txn'[i] = txn[i]
      /\ txn'[n] = t /\ ledgerCall[d].op = "insert"
  BY InsertSells
<1>2. t.status # "APPROVED"
  BY <1>1 DEF CallsEarn, Earns
<1>3. t.order \in Orders /\ t.category = "PRODUCT_SALE" => t.amount = Total[t.order]
  BY <1>1 DEF CallsFit, MainIncome, Income
<1> HIDE DEF t, n
<1>4. SalesEarn'
  BY <1>1, <1>2, <1>3 DEF SalesEarn
<1>5. ledgerCall' = [ledgerCall EXCEPT ![d] = LedgerIdle] /\ LedgerIdle.op = "idle"
  BY IdleTyped DEF InsertTransaction, Hangup
<1> QED
  BY <1>1, <1>4, <1>5, CallsEarnKept DEF SameSale

\* A row is saved or approved as the row of the same order and category.
LEMMA WrittenEarns ==
  ASSUME LedgerInv, SalesKept, SalesEarn, CallsEarn, NEW d \in Desks,
         CommitApproval(d) \/ SaveTransaction(d)
  PROVE  SalesEarn' /\ CallsEarn'
<1> DEFINE c == ledgerCall[d]
           t == IF c.op = "approving" THEN Merged(c.base, c.txn, txn[c.id]) ELSE c.txn
<1>1. NothingRecorded /\ c.id \in TxnIds /\ c.op \in {"approving", "save"}
  BY CommitSells, SaveSells DEF CommitApproval, SaveTransaction, LedgerInv, CallKnown
<1>2. (txn' = txn \/ txn' = [txn EXCEPT ![c.id] = t]) /\ Hangup(d)
  BY DEF CommitApproval, SaveTransaction
<1>3. Earns(c)
  BY DEF CallsEarn
<1>4. c.op = "save" => t.status # "APPROVED"
  BY <1>3 DEF Earns
<1> HIDE DEF t
<1>5. \A i \in TxnIds : txn'[i] = txn[i] \/ (i = c.id /\ txn'[i] = t)
  BY <1>2 DEF LedgerInv, LedgerTypeOK, TxnIds
<1>6. SalesEarn'
  <2>1. ASSUME NEW i \in TxnIds, txn'[i].order \in Orders
        PROVE  /\ txn'[i].category = "PRODUCT_SALE" => txn'[i].amount = Total[txn'[i].order]
               /\ txn'[i].status = "APPROVED" => txn'[i].category = "PRODUCT_SALE"
    <3>1. SameSale(txn'[i], txn[i])
      BY <1>1 DEF NothingRecorded
    <3>2. /\ txn'[i].category = "PRODUCT_SALE" => txn'[i].amount = Total[txn'[i].order]
          /\ txn[i].status = "APPROVED" => txn'[i].category = "PRODUCT_SALE"
      BY <2>1, <3>1 DEF SameSale, SalesEarn
    <3>3. txn'[i].status = "APPROVED" =>
            txn[i].status = "APPROVED" \/ (i = c.id /\ c.op = "approving")
      BY <1>1, <1>4, <1>5
    <3>4. c.op = "approving" /\ i = c.id => txn'[i].category = "PRODUCT_SALE"
      BY <1>3, <2>1, <3>1 DEF Earns, SameSale
    <3> QED
      BY <3>2, <3>3, <3>4
  <2>2. TxnIds' = TxnIds
    BY <1>1 DEF NothingRecorded
  <2> QED
    BY <2>1, <2>2 DEF SalesEarn
<1>7. ledgerCall' = [ledgerCall EXCEPT ![d] = LedgerIdle] /\ LedgerIdle.op = "idle"
  BY <1>2, IdleTyped DEF Hangup
<1> QED
  BY <1>1, <1>6, <1>7, CallsEarnKept DEF NothingRecorded

LEMMA StepEarns ==
  ASSUME LedgerInv, SalesKept, SalesEarn, CallsEarn, NEW d \in Desks, CallsFit(d), LedgerStep(d)
  PROVE  SalesEarn' /\ CallsEarn'
<1>1. CASE ClearOtherDefaults(d)
  <2>1. /\ ledgerCall' = [ledgerCall EXCEPT ![d] = ledgerCall'[d]] /\ txn' = txn
        /\ ledgerCall'[d].op = "storeAccount"
    BY <1>1 DEF ClearOtherDefaults, LedgerInv, LedgerTypeOK, LedgerCalls
  <2> QED
    BY <2>1, QuietEarns
<1>2. CASE \/ InsertRefused(d) \/ RollbackApproval(d) \/ InsertAccount(d) \/ StoreAccount(d)
           \/ DeleteAccount(d)
  <2>1. /\ ledgerCall' = [ledgerCall EXCEPT ![d] = LedgerIdle] /\ txn' = txn
        /\ LedgerIdle.op = "idle"
    BY <1>2, IdleTyped DEF InsertRefused, RollbackApproval, InsertAccount, StoreAccount,
       DeleteAccount, ledger, Hangup
  <2> QED
    BY <2>1, QuietEarns
<1>3. CASE BeginApproval(d)
  <2>1. /\ ledgerCall[d].op = "approve" /\ ledgerCall[d].id \in TxnIds /\ txn' = txn
        /\ ledgerCall[d] \in LedgerCalls /\ Earns(ledgerCall[d])
    BY <1>3 DEF BeginApproval, LedgerInv, CallTyped, CallKnown, ledger, CallsEarn
  <2>2. /\ ledgerCall' = [ledgerCall EXCEPT ![d] = ledgerCall'[d]]
        /\ ledgerCall'[d].op = "approving" /\ ledgerCall'[d].id = ledgerCall[d].id
    BY <1>3, <2>1 DEF BeginApproval, LedgerInv, LedgerTypeOK, LedgerCalls
  <2> QED
    BY <2>1, <2>2, QuietEarns DEF Earns
<1> QED
  BY <1>1, <1>2, <1>3, InsertEarns, WrittenEarns DEF LedgerStep


LEMMA CreateEarns ==
  ASSUME LedgerInv, SalesEarn, CallsEarn, NEW d \in Desks, NEW t, t.status # "APPROVED",
         Numbered(t).status = t.status, CreateTransaction(d, t)
  PROVE  SalesEarn' /\ CallsEarn'
<1> DEFINE u == Numbered(t)
           c == [LedgerIdle EXCEPT !.op = "insert", !.txn = u]
<1>1. ledgerCall' = [ledgerCall EXCEPT ![d] = c] /\ txn' = txn
  BY DEF CreateTransaction, Takes, ledger
<1>2. c.op = "insert" /\ c.txn = u
  BY DEF LedgerIdle
<1> HIDE DEF c
<1> QED
  BY <1>1, <1>2, QuietEarns

LEMMA EditEarns ==
  ASSUME LedgerInv, SalesEarn, CallsEarn, NEW d \in Desks, NEW i \in TxnIds,
         \/ RejectTransaction(d, i) \/ RemoveTransaction(d, i)
         \/ /\ ApproveTransaction(d, i)
            /\ txn[i].order \in Orders => txn[i].category = "PRODUCT_SALE"
  PROVE  SalesEarn' /\ CallsEarn'
<1>1. PICK status \in Status, op \in {"approve", "save"} :
        /\ ledgerCall' = [ledgerCall EXCEPT ![d] =
             [LedgerIdle EXCEPT !.op = op, !.id = i, !.txn = [txn[i] EXCEPT !.status = status]]]
        /\ op = "save" => status # "APPROVED"
        /\ op = "approve" /\ txn[i].order \in Orders => txn[i].category = "PRODUCT_SALE"
  BY DEF ApproveTransaction, RejectTransaction, RemoveTransaction, Edit, Takes, Status
<1> DEFINE t == [txn[i] EXCEPT !.status = status]
           c == [LedgerIdle EXCEPT !.op = op, !.id = i, !.txn = t]
<1>2. c.op = op /\ c.id = i /\ c.txn = t
  BY DEF LedgerIdle
<1>3. t.status = status
  BY DEF LedgerInv, KnownTxn, TxnRow
<1>4. txn' = txn
  BY DEF ApproveTransaction, RejectTransaction, RemoveTransaction, Edit, ledger
<1>5. ledgerCall' = [ledgerCall EXCEPT ![d] = c]
  BY <1>1
<1> HIDE DEF c, t
<1> QED
  BY <1>1, <1>2, <1>3, <1>4, <1>5, QuietEarns

LEMMA RequestEarns ==
  ASSUME LedgerInv, SalesEarn, CallsEarn, ApprovedByOrders, NEW d \in Desks, LedgerRequest(d)
  PROVE  SalesEarn' /\ CallsEarn'
<1>1. ASSUME NEW t \in NewTransactions, CreateTransaction(d, t) PROVE SalesEarn' /\ CallsEarn'
  <2>1. t.status = "PENDING" /\ Numbered(t).status = t.status
    BY LedgerAssumption DEF NewTransactions, Numbered
  <2> QED
    BY <1>1, <2>1, CreateEarns
<1>2. ASSUME NEW a \in Accounts,
         \/ \E opening \in Openings, default \in BOOLEAN : OpenAccount(d, a, opening, default)
         \/ \E active \in BOOLEAN, isDefault \in {"yes", "no", "keep"} :
              ChangeAccount(d, a, active, isDefault)
         \/ RemoveAccount(d, a)
      PROVE  SalesEarn' /\ CallsEarn'
  <2>1. txn' = txn
    BY <1>2 DEF OpenAccount, ChangeAccount, RemoveAccount, ledger
  <2>2. ASSUME NEW op \in {"openAccount", "changeAccount", "storeAccount"}, NEW row,
               Takes(d, [LedgerIdle EXCEPT !.op = op, !.account = a, !.row = row])
        PROVE  SalesEarn' /\ CallsEarn'
    <3> DEFINE c == [LedgerIdle EXCEPT !.op = op, !.account = a, !.row = row]
    <3>1. c.op = op
      BY DEF LedgerIdle
    <3>2. ledgerCall' = [ledgerCall EXCEPT ![d] = c]
      BY <2>2 DEF Takes
    <3> HIDE DEF c
    <3> QED
      BY <2>1, <3>1, <3>2, QuietEarns
  <2>3. CASE RemoveAccount(d, a)
    <3> DEFINE c == [LedgerIdle EXCEPT !.op = "removeAccount", !.account = a]
    <3>1. c.op = "removeAccount"
      BY DEF LedgerIdle
    <3>2. ledgerCall' = [ledgerCall EXCEPT ![d] = c]
      BY <2>3 DEF RemoveAccount, Takes
    <3> HIDE DEF c
    <3> QED
      BY <2>1, <3>1, <3>2, QuietEarns
  <2> QED
    BY <1>2, <2>2, <2>3 DEF OpenAccount, ChangeAccount
<1> QED
  BY <1>1, <1>2, EditEarns DEF LedgerRequest, ApprovedByOrders

LEMMA UseEarns ==
  ASSUME LedgerInv, SalesKept, SalesEarn, CallsEarn, ApprovedByOrders, NEW d \in Desks,
         CallsFit(d), UsesLedger(d), IncomeNoted(booking[d])
  PROVE  SalesEarn' /\ CallsEarn'
<1>1. CASE UNCHANGED ledgerVars
  BY <1>1 DEF ledgerVars, SalesEarn, CallsEarn, Earns, TxnIds
<1>2. ASSUME NEW t, t.status = "PENDING", CreateTransaction(d, t) PROVE SalesEarn' /\ CallsEarn'
  <2>1. CASE t.ref # NoReference
    BY <1>2, <2>1, CreateEarns DEF Numbered
  <2>2. CASE t.ref = NoReference
    <3>1. Numbered(t).status = t.status
      BY <2>2 DEF Numbered
    <3> QED
      BY <1>2, <3>1, CreateEarns
  <2> QED
    BY <2>1, <2>2
<1>3. CASE ApproveIncome(d)
  <2> DEFINE i == booking[d].id
  <2>1. ApproveTransaction(d, i) /\ booking[d].stage = "charges" /\ i \in TxnIds
    BY <1>3 DEF ApproveIncome, ApproveTransaction, Turn
  <2>2. txn[i].order \in Orders => txn[i].category = "PRODUCT_SALE"
    BY <2>1 DEF IncomeNoted, Sales
  <2> QED
    BY <2>1, <2>2, EditEarns
<1> QED
  BY <1>1, <1>2, <1>3, StepEarns, RequestEarns DEF UsesLedger

\* The income a listener has noted, after its own step.
LEMMA NoteStays ==
  ASSUME AccountingInv, BookedInv, NEW d \in Desks, IncomeNoted(booking[d]), SalesGrow,
         Event(d) \/ AccountantAsks(d) \/ StorekeeperAsks(d) \/ BookingStep(d) \/ StaffStep(d)
  PROVE  IncomeNoted(booking[d])'
<1> DEFINE b == booking[d]
<1>1. /\ LedgerInv /\ SalesKept /\ CallsFit(d) /\ BookingTyped(b) /\ booking \in [Desks -> Bookings]
  BY DEF AccountingInv, BookingInv, BookedInv, SalesInv
<1>2. CASE booking'[d].stage \in {"none", "account", "income", "approve", "warehouse", "items", "ship"}
  BY <1>2 DEF IncomeNoted
<1>3. CASE UNCHANGED booking
  BY <1>3 DEF IncomeNoted, OfOrder, SalesGrow
<1>4. CASE Event(d)
  BY <1>1, <1>2, <1>4, AccountingAssumption DEF Event, OrderPaid, ProductEvent, Goes, NoBooking
<1>5. CASE LookupFails(d) \/ LedgerFails(d) \/ InventoryFails(d) \/ AllMoved(d)
  BY <1>1, <1>2, <1>5, AccountingAssumption
  DEF LookupFails, LedgerFails, InventoryFails, AllMoved, Ends, Goes, NoBooking
<1>6. CASE FindAccount(d) \/ FindWarehouse(d) \/ ItemMoves(d) \/ ApproveIncome(d)
  BY <1>2, <1>6, Reached DEF FindAccount, FindWarehouse, ItemMoves, ApproveIncome, Reaches
<1>7. CASE IncomeRecorded(d)
  <2> DEFINE n == Len(txn) + 1
             next == [b EXCEPT !.stage = "charges", !.id = n]
  <2>1. b.stage = "income" /\ InsertTransaction(d) /\ booking' = [booking EXCEPT ![d] = next]
    BY <1>7 DEF IncomeRecorded, Turn, Goes
  <2>2. ledgerCall[d].txn = MainIncome(b) /\ n \in TxnIds' /\ txn'[n] = ledgerCall[d].txn
    BY <1>1, <2>1, InsertSells DEF CallsFit, InsertTransaction
  <2>3. txn'[n].order = b.order /\ txn'[n].category = "PRODUCT_SALE"
    BY <2>2 DEF MainIncome, Income
  <2>4. next.stage = "charges" /\ next.id = n /\ next.order = b.order
    BY <1>1, Staged
  <2> HIDE DEF n, next
  <2> QED
    BY <1>1, <2>1, <2>2, <2>3, <2>4 DEF IncomeNoted, Sales, OfOrder, BookingTyped
<1>8. CASE ChargeRecorded(d)
  <2> DEFINE next == [b EXCEPT !.charges = Tail(@)]
  <2>1. b.stage = "charges" /\ booking' = [booking EXCEPT ![d] = next]
    BY <1>8 DEF ChargeRecorded, Turn, Goes
  <2>2. next.stage = "charges" /\ next.id = b.id /\ next.order = b.order
    BY <1>1, <2>1 DEF Bookings
  <2> HIDE DEF next
  <2> QED
    BY <1>1, <2>1, <2>2 DEF IncomeNoted, SalesGrow, OfOrder
<1>9. CASE Goes(d, [booking[d] EXCEPT !.stage = "warehouse", !.id = 0])
  BY <1>2, <1>9, Reached DEF Reaches
<1>10. CASE Goes(d, [booking[d] EXCEPT !.stage = "items", !.id = 0, !.todo = Tail(@)])
  <2> DEFINE next == [b EXCEPT !.stage = "items", !.id = 0, !.todo = Tail(@)]
  <2>1. booking' = [booking EXCEPT ![d] = next] /\ next.stage = "items"
    BY <1>1, <1>10 DEF Goes, Bookings
  <2> HIDE DEF next
  <2> QED
    BY <1>1, <1>2, <2>1
<1> QED
  BY <1>3, <1>4, <1>5, <1>6, <1>7, <1>8, <1>9, <1>10
  DEF BookingStep, RecordIncome, RecordCharge, IncomeApproved, MoveItem, ShipItem, AccountantAsks,
      StorekeeperAsks, StaffStep

LEMMA IncomeNext ==
  ASSUME AccountingInv, BookedInv, IncomeInv, ApprovedByOrders, [Next]_vars
  PROVE  IncomeInv'
<1>1. CASE UNCHANGED vars
  <2>1. UNCHANGED << ledgerVars, booking >>
    BY <1>1 DEF vars
  <2> QED
    BY <2>1 DEF ledgerVars, IncomeInv, SalesEarn, CallsEarn, Earns, IncomeNoted, OfOrder, Sales,
       TxnIds
<1>2. ASSUME NEW d \in Desks,
             Event(d) \/ AccountantAsks(d) \/ StorekeeperAsks(d) \/ BookingStep(d) \/ StaffStep(d)
      PROVE  IncomeInv'
  <2>1. /\ LedgerInv /\ SalesKept /\ SalesEarn /\ CallsEarn /\ CallsFit(d)
        /\ IncomeNoted(booking[d])
    BY DEF AccountingInv, BookingInv, BookedInv, SalesInv, IncomeInv
  <2>2. SalesEarn' /\ CallsEarn' /\ SalesGrow
    BY <1>2, <2>1, StepUsesLedger, UseEarns, UseSells DEF ApprovedByOrders
  <2>3. ASSUME NEW e \in Desks PROVE IncomeNoted(booking[e])'
    <3>1. CASE e = d
      BY <1>2, <2>1, <2>2, <3>1, NoteStays
    <3>2. CASE e # d
      <4>1. booking'[e] = booking[e]
        BY <1>2, <3>2, NextAlone
      <4>2. IncomeNoted(booking[e])
        BY DEF IncomeInv
      <4> QED
        BY <2>2, <4>1, <4>2 DEF IncomeNoted, OfOrder, SalesGrow
    <3> QED
      BY <3>1, <3>2
  <2> QED
    BY <2>2, <2>3 DEF IncomeInv
<1> QED
  BY <1>1, <1>2 DEF Next, Step

LEMMA InitIncome == Init => IncomeInv
<1> SUFFICES ASSUME Init PROVE IncomeInv
  OBVIOUS
<1>1. /\ ledgerCall = [d \in Desks |-> LedgerIdle] /\ txn = << >>
      /\ booking = [d \in Desks |-> NoBooking]
  BY DEF Init, LedgerInit
<1>2. CallsEarn
  BY <1>1, IdleTyped DEF CallsEarn, Earns
<1>3. \A d \in Desks : IncomeNoted(booking[d])
  BY <1>1, AccountingAssumption DEF OfOrder, NoBooking, IncomeNoted
<1>4. TxnIds = {}
  BY <1>1 DEF TxnIds
<1> QED
  BY <1>2, <1>3, <1>4 DEF IncomeInv, SalesEarn

\* An order adds its total to the balances, once for each of its payments, as
\* long as only the listeners approve what is recorded of an order.
THEOREM OrderEarnsItsTotal ==
  ASSUME ApprovedByOrders
  PROVE  Spec => []IncomeIsTotal
<1>1. "update" \notin LedgerHandlers
  BY DEF ApprovedByOrders
<1>2. Spec => [](AccountingInv /\ BookedInv)
  BY <1>1, BookedInvHolds
<1>3. AccountingInv /\ BookedInv /\ IncomeInv /\ [Next]_vars => IncomeInv'
  BY IncomeNext
<1>4. BookedInv /\ IncomeInv => IncomeIsTotal
  <2> SUFFICES ASSUME BookedInv, IncomeInv, NEW o \in Orders
               PROVE  LET earned == { i \in Approved : txn[i].order = o }
                      IN  /\ \A i \in earned : txn[i].amount = Total[o]
                          /\ Cardinality(earned) <= Cardinality(PaidWith(o))
    BY DEF IncomeIsTotal
  <2> DEFINE earned == { i \in Approved : txn[i].order = o }
  <2>1. earned \subseteq Sales(o) /\ \A i \in earned : txn[i].amount = Total[o]
    BY DEF IncomeInv, SalesEarn, Approved, Sales
  <2>2. /\ IsFiniteSet(PaidWith(o)) /\ IsFiniteSet(Sales(o))
        /\ Cardinality(Sales(o)) <= Cardinality(PaidWith(o))
    BY SalesCounted
  <2> HIDE DEF earned
  <2>3. IsFiniteSet(earned) /\ Cardinality(earned) <= Cardinality(Sales(o))
    BY <2>1, <2>2, FS_Subset
  <2>4. /\ Cardinality(earned) \in Nat /\ Cardinality(Sales(o)) \in Nat
        /\ Cardinality(PaidWith(o)) \in Nat
    BY <2>2, <2>3, FS_CardinalityType
  <2> QED
    BY <2>1, <2>2, <2>3, <2>4 DEF earned
<1> QED
  BY <1>2, <1>3, <1>4, InitIncome, PTL DEF Spec

=============================================================================
