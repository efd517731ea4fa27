--------------------------- MODULE AccountingProofs ---------------------------
(***************************************************************************)
(* The theorems of BooksProofs for the books and the warehouses            *)
(* together, when the listeners use them as well as the staff; and what    *)
(* holds of them as long as no two requests work on the same row.          *)
(***************************************************************************)
EXTENDS WatchedAccounting, BooksProofs, SequenceTheorems

\* An event that is being processed names an order as long as its income is to
\* be recorded, and a warehouse as soon as there is something to move.
BookingTyped(b) ==
  /\ b \in Bookings
  /\ b.stage \in {"account", "income"} => b.order \in Orders
  /\ b.stage \in {"items", "ship"} => b.warehouse \in Warehouses
  /\ b.stage = "ship" => b.todo # << >>

BookingInv ==
  /\ booking \in [Desks -> Bookings]
  /\ \A d \in Desks : BookingTyped(booking[d])
  /\ paid \in [Payments -> Nat]
  /\ restocked \in Nat

AccountingInv == LedgerInv /\ InventoryInv /\ BookingInv

LEMMA NoBookingTyped == BookingTyped(NoBooking)
  BY DEF BookingTyped, NoBooking, Bookings, Stages, References, NoReference

LEMMA InitAccountingInv == Init => AccountingInv
  BY InitLedgerInv, InitInventoryInv, NoBookingTyped
  DEF Init, AccountingInv, BookingInv, BookingTyped

LEMMA BookingGoes ==
  ASSUME BookingInv, NEW d \in Desks, NEW b, BookingTyped(b), Goes(d, b),
         paid' \in [Payments -> Nat], restocked' \in Nat
  PROVE  BookingInv'
  BY DEF BookingInv, BookingTyped, Goes

LEMMA BookingStays ==
  ASSUME BookingInv, UNCHANGED << booking, paid, restocked >>
  PROVE  BookingInv'
  BY DEF BookingInv

\* The next stage of an event, and its next item.
LEMMA StageTyped ==
  ASSUME NEW b, BookingTyped(b), NEW stage \in {"approve", "charges", "warehouse"}, NEW i \in Nat
  PROVE  /\ BookingTyped([b EXCEPT !.stage = stage])
         /\ BookingTyped([b EXCEPT !.stage = stage, !.id = i])
<1> DEFINE next == [b EXCEPT !.stage = stage]
<1>1. next \in Bookings /\ next.stage = stage
  BY DEF BookingTyped, Bookings, Stages
<1> HIDE DEF next
<1>2. BookingTyped(next) /\ BookingTyped([next EXCEPT !.id = i])
  BY <1>1 DEF BookingTyped, Bookings
<1> QED
  BY <1>2 DEF next

LEMMA AccountFound ==
  ASSUME NEW b, BookingTyped(b), b.stage = "account", NEW a \in Accounts
  PROVE  BookingTyped([b EXCEPT !.stage = "income", !.account = a])
<1> DEFINE next == [b EXCEPT !.stage = "income"]
<1>1. next \in Bookings /\ next.stage = "income" /\ next.order \in Orders
  BY DEF BookingTyped, Bookings, Stages
<1> HIDE DEF next
<1>2. BookingTyped([next EXCEPT !.account = a])
  BY <1>1 DEF BookingTyped, Bookings
<1> QED
  BY <1>2 DEF next

LEMMA WarehouseFound ==
  ASSUME NEW b, BookingTyped(b), NEW w \in Warehouses
  PROVE  BookingTyped([b EXCEPT !.stage = "items", !.warehouse = w])
<1> DEFINE next == [b EXCEPT !.stage = "items"]
<1>1. next \in Bookings /\ next.stage = "items"
  BY DEF BookingTyped, Bookings, Stages
<1> HIDE DEF next
<1>2. BookingTyped([next EXCEPT !.warehouse = w])
  BY <1>1 DEF BookingTyped, Bookings
<1> QED
  BY <1>2 DEF next

LEMMA ItemInserted ==
  ASSUME NEW b, BookingTyped(b), b.stage = "items", b.todo # << >>, NEW i \in Nat
  PROVE  BookingTyped([b EXCEPT !.stage = "ship", !.id = i])
<1> DEFINE next == [b EXCEPT !.stage = "ship"]
<1>1. /\ next \in Bookings /\ next.stage = "ship" /\ next.warehouse \in Warehouses
      /\ next.todo # << >>
  BY DEF BookingTyped, Bookings, Stages
<1> HIDE DEF next
<1>2. BookingTyped([next EXCEPT !.id = i])
  BY <1>1 DEF BookingTyped, Bookings
<1> QED
  BY <1>2 DEF next

LEMMA ItemShipped ==
  ASSUME NEW b, BookingTyped(b), b.stage = "ship"
  PROVE  BookingTyped([b EXCEPT !.stage = "items", !.id = 0, !.todo = Tail(@)])
<1> DEFINE next == [b EXCEPT !.stage = "items"]
           cleared == [next EXCEPT !.id = 0]
           rest == Tail(b.todo)
<1>1. rest \in Seq({"IN", "OUT"} \X Products \X Nat)
  BY DEF BookingTyped, Bookings
<1>2. next \in Bookings /\ next.stage = "items" /\ next.warehouse \in Warehouses
      /\ next.todo = b.todo
  BY DEF BookingTyped, Bookings, Stages
<1> HIDE DEF next
<1>3. cleared \in Bookings /\ cleared.stage = "items" /\ cleared.warehouse \in Warehouses
      /\ cleared.todo = b.todo
  BY <1>2 DEF Bookings
<1> HIDE DEF cleared, rest
<1>4. BookingTyped([cleared EXCEPT !.todo = rest])
  BY <1>1, <1>3 DEF BookingTyped, Bookings
<1> QED
  BY <1>3, <1>4 DEF next, cleared, rest

LEMMA ChargeInserted ==
  ASSUME NEW b, BookingTyped(b), b.stage = "charges", b.charges # << >>
  PROVE  BookingTyped([b EXCEPT !.charges = Tail(@)])
<1> DEFINE rest == Tail(b.charges)
<1>1. rest \in Seq(Costs \X Nat)
  BY DEF BookingTyped, Bookings
<1> HIDE DEF rest
<1>2. BookingTyped([b EXCEPT !.charges = rest])
  BY <1>1 DEF BookingTyped, Bookings
<1> QED
  BY <1>2 DEF rest

LEMMA EventKeeps ==
  ASSUME BookingInv, NEW d \in Desks, Event(d)
  PROVE  BookingInv'
<1> USE OrderAccountingAssumption
<1>1. ASSUME NEW pay \in Payments, OrderPaid(d, pay) PROVE BookingInv'
  <2> DEFINE o == OrderOf[pay]
             ref == << "AUTHORITY", pay >>
             charges == Charges[o]
             todo == [n \in DOMAIN Items[o] |-> << "OUT", Items[o][n][1], Items[o][n][2] >>]
             b == [NoBooking EXCEPT !.stage = "account", !.order = o, !.ref = ref,
                                    !.charges = charges, !.todo = todo]
  <2>1. o \in Orders /\ ref \in References
    BY DEF References
  <2>2. charges \in Seq(Costs \X Nat)
    BY <2>1
  <2>3. todo \in Seq({"IN", "OUT"} \X Products \X Nat)
    <3> DEFINE T == {"IN", "OUT"} \X Products \X Nat
    <3>1. Items[o] \in Seq(Products \X (Nat \ {0}))
      BY <2>1
    <3>2. Len(Items[o]) \in Nat /\ DOMAIN Items[o] = 1 .. Len(Items[o])
      BY <3>1
    <3>3. \A n \in DOMAIN Items[o] : << "OUT", Items[o][n][1], Items[o][n][2] >> \in T
      BY <3>1
    <3> HIDE DEF T
    <3>4. todo \in [1 .. Len(Items[o]) -> T]
      BY <3>2, <3>3
    <3>5. todo \in Seq(T)
      BY <3>2, <3>4, SeqDef
    <3> QED
      BY <3>5 DEF T
  <2>4. Goes(d, b) /\ UNCHANGED restocked /\ paid' = [paid EXCEPT ![pay] = @ + 1]
    BY <1>1 DEF OrderPaid
  <2> HIDE DEF o, ref, charges, todo
  <2>5. BookingTyped(b)
    BY <2>1, <2>2, <2>3 DEF BookingTyped, NoBooking, Bookings, Stages
  <2> HIDE DEF b
  <2>6. paid' \in [Payments -> Nat]
    BY <2>4 DEF BookingInv
  <2> QED
    BY <2>4, <2>5, <2>6, BookingGoes DEF BookingInv
<1>2. ASSUME NEW r \in Restocks, ProductEvent(d, r[1], r[2], r[3], r[4]) PROVE BookingInv'
  <2> DEFINE fresh == r[4]
             todo == << << r[1], r[2], r[3] >> >>
             b == [NoBooking EXCEPT !.stage = "warehouse", !.fresh = fresh, !.todo = todo]
  <2>1. fresh \in BOOLEAN /\ todo \in Seq({"IN", "OUT"} \X Products \X Nat)
    <3>1. r \in {"IN", "OUT"} \X Products \X (Nat \ {0}) \X BOOLEAN
      OBVIOUS
    <3>2. << r[1], r[2], r[3] >> \in {"IN", "OUT"} \X Products \X Nat /\ r[4] \in BOOLEAN
      BY <3>1
    <3> QED
      BY <3>2
  <2>2. Goes(d, b) /\ restocked' = restocked + 1 /\ UNCHANGED paid
    BY <1>2 DEF ProductEvent
  <2> HIDE DEF fresh, todo
  <2>3. BookingTyped(b)
    <3> DEFINE found == [NoBooking EXCEPT !.stage = "warehouse"]
               new == [found EXCEPT !.fresh = fresh]
    <3>1. found \in Bookings /\ found.stage = "warehouse"
      BY NoBookingTyped DEF BookingTyped, Bookings, Stages
    <3> HIDE DEF found
    <3>2. new \in Bookings /\ new.stage = "warehouse"
      BY <2>1, <3>1 DEF Bookings
    <3> HIDE DEF new
    <3>3. BookingTyped([new EXCEPT !.todo = todo])
      BY <2>1, <3>2 DEF BookingTyped, Bookings
    <3> QED
      BY <3>3 DEF found, new
  <2> HIDE DEF b
  <2> QED
    BY <2>2, <2>3, BookingGoes DEF BookingInv
<1> QED
  BY <1>1, <1>2 DEF Event

-----------------------------------------------------------------------------
(* The listeners use the requests of the services.                         *)

LEMMA LedgerUnchanged ==
  ASSUME LedgerInv, UNCHANGED ledgerVars
  PROVE  LedgerInv'
  BY LedgerStutters

LEMMA InventoryUnchanged ==
  ASSUME InventoryInv, UNCHANGED inventoryVars
  PROVE  InventoryInv'
  BY InventoryStutters

LEMMA IncomeTyped ==
  ASSUME NEW b, BookingTyped(b), NEW category \in Categories, NEW amount \in Nat,
         NEW ref \in References
  PROVE  Income(b, category, amount, ref) \in TxnRow
  BY DEF Income, BookingTyped, Bookings, TxnRow, Types, Status

LEMMA NextMovementTyped ==
  ASSUME NEW b, BookingTyped(b), b.stage = "items", b.todo # << >>
  PROVE  /\ NextMovement(b) \in MovementRow
         /\ NextMovement(b).product \in Products /\ NextMovement(b).warehouse \in Warehouses
<1>1. Head(b.todo) \in {"IN", "OUT"} \X Products \X Nat
  BY DEF BookingTyped, Bookings
<1>2. /\ Head(b.todo)[1] \in {"IN", "OUT"} /\ Head(b.todo)[2] \in Products
      /\ Head(b.todo)[3] \in Nat
  BY <1>1
<1>3. b.warehouse \in Warehouses /\ b.order \in Orders \cup {NoOrder}
  BY DEF BookingTyped, Bookings
<1> QED
  BY <1>2, <1>3 DEF NextMovement, MovementRow, MovementTypes, MovementStatus

LEMMA MainIncomeTyped ==
  ASSUME NEW b, BookingTyped(b), b.stage = "income"
  PROVE  MainIncome(b) \in TxnRow
<1>1. b.order \in Orders /\ b.ref \in References
  BY DEF BookingTyped, Bookings
<1> QED
  BY <1>1, IncomeTyped, OrderAccountingAssumption DEF MainIncome, Categories

LEMMA ChargeIncomeTyped ==
  ASSUME NEW b, BookingTyped(b), b.charges # << >>
  PROVE  ChargeIncome(b) \in TxnRow /\ ChargeIncome(b).category \in Costs
<1>1. Head(b.charges) \in Costs \X Nat
  BY DEF BookingTyped, Bookings
<1>2. Head(b.charges)[1] \in Costs /\ Head(b.charges)[1] \in Categories /\ Head(b.charges)[2] \in Nat
  BY <1>1 DEF Costs, Categories
<1> QED
  BY <1>2, IncomeTyped DEF ChargeIncome, Income, References, NoReference

LEMMA RecordKeeps ==
  ASSUME AccountingInv, NEW d \in Desks, RecordIncome(d) \/ RecordCharge(d),
         UNCHANGED << paid, restocked >>
  PROVE  AccountingInv'
<1> DEFINE b == booking[d]
<1>1. BookingTyped(b) /\ BookingInv /\ LedgerInv /\ InventoryInv
  BY DEF AccountingInv, BookingInv
<1>2. UNCHANGED << booking, inventoryVars >>
  BY DEF RecordIncome, RecordCharge
<1>3. LedgerInv'
  <2>1. CASE RecordIncome(d)
    BY <1>1, <2>1, MainIncomeTyped, CreateKeeps DEF RecordIncome, Turn
  <2>2. CASE RecordCharge(d)
    BY <1>1, <2>2, ChargeIncomeTyped, CreateKeeps DEF RecordCharge
  <2> QED
    BY <2>1, <2>2
<1> QED
  BY <1>1, <1>2, <1>3, BookingStays, InventoryUnchanged DEF AccountingInv

LEMMA IncomeKeeps ==
  ASSUME AccountingInv, NEW d \in Desks,
         FindAccount(d) \/ IncomeRecorded(d) \/ ChargeRecorded(d) \/ ApproveIncome(d)
           \/ IncomeApproved(d),
         UNCHANGED << paid, restocked >>
  PROVE  AccountingInv'
<1> DEFINE b == booking[d]
<1>1. BookingTyped(b) /\ BookingInv /\ LedgerInv /\ InventoryInv
  BY DEF AccountingInv, BookingInv
<1>2. InventoryInv'
  BY <1>1, InventoryUnchanged
  DEF FindAccount, IncomeRecorded, ChargeRecorded, ApproveIncome, IncomeApproved
<1>3. LedgerInv'
  BY <1>1, LedgerUnchanged, InsertKeeps, RequestKeeps, BeginKeeps, CommitKeeps
  DEF FindAccount, IncomeRecorded, ChargeRecorded, ApproveIncome, IncomeApproved,
      ApproveTransaction
<1>4. paid' \in [Payments -> Nat] /\ restocked' \in Nat
  BY <1>1 DEF BookingInv
<1>5. Len(txn) + 1 \in Nat
  BY <1>1 DEF LedgerInv, LedgerTypeOK
<1>6. BookingInv'
  <2>1. CASE FindAccount(d)
    <3>1. b.stage = "account" /\ Postable \subseteq Accounts
      BY <2>1 DEF FindAccount, Turn, Postable
    <3> QED
      BY <1>1, <1>4, <2>1, <3>1, AccountFound, BookingGoes DEF FindAccount
  <2>2. CASE IncomeRecorded(d)
    BY <1>1, <1>4, <1>5, <2>2, StageTyped, BookingGoes DEF IncomeRecorded
  <2>3. CASE ChargeRecorded(d)
    BY <1>1, <1>4, <2>3, ChargeInserted, BookingGoes DEF ChargeRecorded, Turn
  <2>4. CASE ApproveIncome(d)
    BY <1>1, <1>4, <2>4, StageTyped, BookingGoes DEF ApproveIncome
  <2>5. CASE IncomeApproved(d)
    BY <1>1, <1>4, <2>5, StageTyped, BookingGoes, BookingStays DEF IncomeApproved
  <2> QED
    BY <2>1, <2>2, <2>3, <2>4, <2>5
<1> QED
  BY <1>2, <1>3, <1>6 DEF AccountingInv

LEMMA GoodsKeep ==
  ASSUME AccountingInv, NEW d \in Desks,
         FindWarehouse(d) \/ MoveItem(d) \/ ItemMoves(d) \/ ShipItem(d) \/ AllMoved(d),
         UNCHANGED << paid, restocked >>
  PROVE  AccountingInv'
<1> DEFINE b == booking[d]
<1>1. BookingTyped(b) /\ BookingInv /\ LedgerInv /\ InventoryInv
  BY DEF AccountingInv, BookingInv
<1>2. LedgerInv'
  BY <1>1, LedgerUnchanged DEF FindWarehouse, MoveItem, ItemMoves, ShipItem, AllMoved
<1>3. InventoryInv'
  <2>1. CASE MoveItem(d)
    <3>1. /\ NextMovement(b) \in MovementRow
          /\ NextMovement(b).product \in Products /\ NextMovement(b).warehouse \in Warehouses
      BY <1>1, <2>1, NextMovementTyped DEF MoveItem, Turn
    <3> QED
      BY <1>1, <2>1, <3>1, CreateMovementKeeps DEF MoveItem
  <2>2. CASE ItemMoves(d)
    BY <1>1, <2>2, InsertMovementKeeps DEF ItemMoves
  <2>3. CASE ShipItem(d)
    BY <1>1, <2>3, MovementRequestKeeps, BeginMovementKeeps, CommitMovementKeeps
    DEF ShipItem, ApproveMovement
  <2>4. CASE FindWarehouse(d) \/ AllMoved(d)
    BY <1>1, <2>4, InventoryUnchanged DEF FindWarehouse, AllMoved
  <2> QED
    BY <2>1, <2>2, <2>3, <2>4
<1>4. paid' \in [Payments -> Nat] /\ restocked' \in Nat
  BY <1>1 DEF BookingInv
<1>5. Len(movement) + 1 \in Nat
  BY <1>1 DEF InventoryInv, InventoryTypeOK
<1>6. BookingInv'
  <2>1. CASE FindWarehouse(d)
    BY <1>1, <1>4, <2>1, WarehouseFound, BookingGoes DEF FindWarehouse, Serving
  <2>2. CASE MoveItem(d)
    BY <1>1, <2>2, BookingStays DEF MoveItem
  <2>3. CASE ItemMoves(d)
    BY <1>1, <1>4, <1>5, <2>3, ItemInserted, BookingGoes DEF ItemMoves, Turn
  <2>4. CASE ShipItem(d)
    BY <1>1, <1>4, <2>4, ItemShipped, BookingGoes, BookingStays DEF ShipItem, Turn
  <2>5. CASE AllMoved(d)
    BY <1>1, <1>4, <2>5, NoBookingTyped, BookingGoes DEF AllMoved, Ends
  <2> QED
    BY <2>1, <2>2, <2>3, <2>4, <2>5
<1> QED
  BY <1>2, <1>3, <1>6 DEF AccountingInv

\* An error ends the listener, whatever it was in the middle of.
LEMMA ErrorKeeps ==
  ASSUME AccountingInv, NEW d \in Desks,
         LookupFails(d) \/ LedgerFails(d) \/ InventoryFails(d), UNCHANGED << paid, restocked >>
  PROVE  AccountingInv'
<1>1. BookingInv /\ LedgerInv /\ InventoryInv
  BY DEF AccountingInv
<1>2. BookingInv'
  BY <1>1, NoBookingTyped, BookingGoes
  DEF LookupFails, LedgerFails, InventoryFails, Ends, BookingInv
<1>3. LedgerInv'
  BY <1>1, LedgerUnchanged, LedgerStepKeeps
  DEF LookupFails, LedgerFails, InventoryFails, LedgerStep
<1>4. InventoryInv'
  BY <1>1, InventoryUnchanged, InventoryStepKeeps
  DEF LookupFails, LedgerFails, InventoryFails, InventoryStep
<1> QED
  BY <1>2, <1>3, <1>4 DEF AccountingInv

LEMMA NextKeeps ==
  ASSUME AccountingInv, [Next]_vars
  PROVE  AccountingInv'
<1>1. BookingInv /\ LedgerInv /\ InventoryInv
  BY DEF AccountingInv
<1>2. ASSUME NEW d \in Desks, Event(d) PROVE AccountingInv'
  <2>1. UNCHANGED << ledgerVars, inventoryVars >>
    BY <1>2 DEF Event, OrderPaid, ProductEvent
  <2> QED
    BY <1>1, <1>2, <2>1, EventKeeps, LedgerUnchanged, InventoryUnchanged DEF AccountingInv
<1>3. ASSUME NEW d \in Desks, AccountantAsks(d) \/ StorekeeperAsks(d),
             UNCHANGED << paid, restocked >>
      PROVE  AccountingInv'
  BY <1>1, <1>3, LedgerRequestKeeps, InventoryRequestKeeps, LedgerUnchanged, InventoryUnchanged,
     BookingStays
  DEF AccountantAsks, StorekeeperAsks, AccountingInv
<1>4. ASSUME NEW d \in Desks, StaffStep(d), UNCHANGED << paid, restocked >>
      PROVE  AccountingInv'
  BY <1>1, <1>4, LedgerStepKeeps, InventoryStepKeeps, LedgerUnchanged, InventoryUnchanged,
     BookingStays
  DEF StaffStep, AccountingInv
<1>5. ASSUME NEW d \in Desks, BookingStep(d), UNCHANGED << paid, restocked >>
      PROVE  AccountingInv'
  BY <1>5, RecordKeeps, IncomeKeeps, GoodsKeep, ErrorKeeps DEF BookingStep
<1>6. CASE UNCHANGED vars
  BY <1>1, <1>6, LedgerUnchanged, InventoryUnchanged, BookingStays DEF vars, AccountingInv
<1> QED
  BY <1>2, <1>3, <1>4, <1>5, <1>6 DEF Next, Step

LEMMA AccountingInvHolds == Spec => []AccountingInv
<1>1. AccountingInv /\ [Next]_vars => AccountingInv'
  BY NextKeeps
<1> QED
  BY InitAccountingInv, <1>1, PTL DEF Spec

\* Rows and requests in progress are well typed, however often the events of
\* the shop come and whatever the staff do in between.
THEOREM AccountingTypeCorrect == Spec => []TypeOK
<1>1. AccountingInv => TypeOK
  BY DEF AccountingInv, LedgerInv, InventoryInv, BookingInv, TypeOK
<1> QED
  BY AccountingInvHolds, <1>1, PTL

\* Whatever the staff and the listeners do at the same time, no balance
\* becomes negative.
THEOREM BalancesStayNonNegative == Spec => []BalanceNonNegative
<1>1. AccountingInv => BalanceNonNegative
  BY DEF AccountingInv, LedgerInv
<1> QED
  BY AccountingInvHolds, <1>1, PTL

\* No warehouse gives out what it does not have, and what is available is what
\* is there, although the two columns are saved each on its own.
THEOREM StockStaysSound == Spec => [](StockNotOverdrawn /\ AvailableMatches)
<1>1. AccountingInv => StockNotOverdrawn /\ AvailableMatches
  BY DEF AccountingInv, InventoryInv, StockNotOverdrawn, AvailableMatches, Sound
<1> QED
  BY AccountingInvHolds, <1>1, PTL

-----------------------------------------------------------------------------
(* Sums that are counted unit by unit.                                      *)

LEMMA UnitsFinite ==
  ASSUME NEW f, NEW S, IsFiniteSet(S), \A i \in S : f[i] \in Nat
  PROVE  IsFiniteSet(UNION { {i} \X (1 .. f[i]) : i \in S })
<1> DEFINE units == [i \in S |-> {i} \X (1 .. f[i])]
           all == { {i} \X (1 .. f[i]) : i \in S }
<1>1. units \in Surjection(S, all)
  BY DEF Surjection
<1>2. \A u \in all : IsFiniteSet(u)
  <2> SUFFICES ASSUME NEW i \in S PROVE IsFiniteSet({i} \X (1 .. f[i]))
    OBVIOUS
  <2>1. 1 \in Int /\ f[i] \in Int
    OBVIOUS
  <2>2. IsFiniteSet({i}) /\ IsFiniteSet(1 .. f[i])
    BY <2>1, FS_Singleton, FS_Interval
  <2> QED
    BY <2>2, FS_Product
<1> HIDE DEF units
<1>3. IsFiniteSet(all)
  <2> HIDE DEF all
  <2> QED
    BY <1>1, FS_Surjection
<1> QED
  BY <1>2, <1>3, FS_UNION

LEMMA SumSame ==
  ASSUME NEW f, NEW g, NEW S, \A i \in S : f[i] = g[i]
  PROVE  SumOver(f, S) = SumOver(g, S)
<1>1. { {i} \X (1 .. f[i]) : i \in S } = { {i} \X (1 .. g[i]) : i \in S }
  OBVIOUS
<1> QED
  BY <1>1 DEF SumOver

LEMMA SumOfNone ==
  ASSUME NEW f
  PROVE  SumOver(f, {}) = 0
<1>1. UNION { {i} \X (1 .. f[i]) : i \in {} } = {}
  OBVIOUS
<1> QED
  BY <1>1, FS_EmptySet DEF SumOver

LEMMA SumNat ==
  ASSUME NEW f, NEW S, IsFiniteSet(S), \A i \in S : f[i] \in Nat
  PROVE  SumOver(f, S) \in Nat
  BY UnitsFinite, FS_CardinalityType DEF SumOver

LEMMA SumAdds ==
  ASSUME NEW f, NEW S, IsFiniteSet(S), NEW n, n \notin S, \A i \in S \cup {n} : f[i] \in Nat
  PROVE  SumOver(f, S \cup {n}) = SumOver(f, S) + f[n]
<1> DEFINE U == UNION { {i} \X (1 .. f[i]) : i \in S }
           V == {n} \X (1 .. f[n])
<1>1. IsFiniteSet(U)
  BY UnitsFinite
<1>2. f[n] \in Nat /\ 1 \in Int /\ f[n] \in Int
  OBVIOUS
<1>3. IsFiniteSet({n}) /\ Cardinality({n}) = 1
  BY FS_Singleton
<1>4. /\ IsFiniteSet(1 .. f[n])
      /\ Cardinality(1 .. f[n]) = IF 1 > f[n] THEN 0 ELSE f[n] - 1 + 1
  BY <1>2, FS_Interval
<1>5. IsFiniteSet(V) /\ Cardinality(V) = Cardinality({n}) * Cardinality(1 .. f[n])
  BY <1>3, <1>4, FS_Product
<1>6. Cardinality(V) = f[n]
  <2>1. Cardinality(1 .. f[n]) = f[n]
    BY <1>2, <1>4
  <2> QED
    BY <1>2, <1>3, <1>5, <2>1
<1>7. U \cap V = {}
  OBVIOUS
<1>8. UNION { {i} \X (1 .. f[i]) : i \in S \cup {n} } = U \cup V
  OBVIOUS
<1> HIDE DEF U, V
<1>9. Cardinality(U \cup V) = Cardinality(U) + Cardinality(V) - Cardinality(U \cap V)
  BY <1>1, <1>5, FS_Union
<1>10. Cardinality({}) = 0 /\ Cardinality(U) \in Nat
  BY <1>1, FS_EmptySet, FS_CardinalityType
<1>11. Cardinality(U \cup V) = Cardinality(U) + f[n]
  <2>1. Cardinality(U \cap V) = 0
    BY <1>7, <1>10
  <2> QED
    BY <1>2, <1>6, <1>9, <1>10, <2>1
<1> QED
  BY <1>8, <1>11 DEF U, SumOver

-----------------------------------------------------------------------------
(***************************************************************************)
(* The books while requests are orderly.                                   *)
(***************************************************************************)

\* The accounts of a transaction.
AccountsOf(t) == {t.account, t.dest} \ {NoAccount}

DestFits(t) == t.type # "TRANSFER" => t.dest = NoAccount

\* What a request at the books goes by is what is stored.
BookCall(c) ==
  /\ c.op = "insert" => c.txn.status = "PENDING" /\ DestFits(c.txn)
  /\ c.op \in {"approve", "approving"} =>
       txn[c.id].status = "PENDING" /\ c.txn = [txn[c.id] EXCEPT !.status = "APPROVED"]
  /\ c.op = "approving" =>
       /\ c.base = txn[c.id]
       /\ c.from = account[c.txn.account].balance
       /\ c.txn.type = "TRANSFER" => c.to = account[c.txn.dest].balance
  /\ c.op = "save" => txn[c.id].status # "APPROVED"
  /\ c.op = "openAccount" =>
       /\ c.row.exists /\ c.row.balance = c.row.opening
       /\ c.row.default => \A a \in Accounts : ~account[a].default
  /\ c.op \in {"changeAccount", "storeAccount"} =>
       /\ account[c.account].exists /\ c.row.exists
       /\ c.row.balance = account[c.account].balance /\ c.row.opening = account[c.account].opening
  /\ c.op = "storeAccount" /\ c.row.default =>
       \A a \in Accounts \ {c.account} : ~account[a].default

TxnsFit == \A i \in TxnIds : DestFits(txn[i]) /\ \A a \in AccountsOf(txn[i]) : account[a].exists

OnlyDefault == \A a, b \in Accounts : account[a].default /\ account[b].default => a = b

BooksInv ==
  /\ OrderlyBooks
  /\ TxnsFit
  /\ \A d \in Desks : BookCall(ledgerCall[d])
  /\ BooksBalance
  /\ OnlyDefault

\* A step that writes no other rows of the books than R.
WritesOnly(R) ==
  /\ \A i \in TxnIds : i \in TxnIds' /\ (<< "txn", i >> \notin R => txn'[i] = txn[i])
  /\ \A a \in Accounts : a \notin R => account'[a] = account[a]

LEMMA Undisturbed ==
  ASSUME LedgerInv, NEW e \in Desks, BookCall(ledgerCall[e]), NEW R, WritesOnly(R),
         R \cap LedgerRows(ledgerCall[e]) = {}, ledgerCall'[e] = ledgerCall[e]
  PROVE  BookCall(ledgerCall[e])'
<1> DEFINE c == ledgerCall[e]
<1>1. c \in LedgerCalls /\ CallTyped(c) /\ CallKnown(c)
  BY DEF LedgerInv, CallTyped
<1>2. CASE c.op \in {"approve", "approving"}
  <2>1. c.id \in TxnIds /\ << "txn", c.id >> \in LedgerRows(c)
    BY <1>1, <1>2 DEF LedgerRows, CallKnown
  <2>2. txn'[c.id] = txn[c.id]
    BY <2>1 DEF WritesOnly
  <2>3. \A a \in Accounts : a \in {c.txn.account, c.txn.dest} => account'[a] = account[a]
    BY <1>2, LedgerAssumption DEF LedgerRows, WritesOnly
  <2>4. c.txn.account \in Accounts /\ (c.txn.type = "TRANSFER" => c.txn.dest \in Accounts)
    BY <1>1, <1>2 DEF CallTyped, KnownTxn
  <2> QED
    BY <1>2, <2>2, <2>3, <2>4 DEF BookCall
<1>3. CASE c.op = "save"
  <2>1. c.id \in TxnIds /\ << "txn", c.id >> \in LedgerRows(c)
    BY <1>1, <1>3 DEF LedgerRows, CallKnown
  <2> QED
    BY <1>3, <2>1 DEF WritesOnly, BookCall
<1>4. CASE c.op \in {"openAccount", "changeAccount"}
  <2>1. \A a \in Accounts : account'[a] = account[a]
    BY <1>4 DEF LedgerRows, WritesOnly
  <2>2. c.account \in Accounts
    BY <1>1, <1>4 DEF CallTyped
  <2> QED
    BY <1>4, <2>1, <2>2 DEF BookCall
<1>5. CASE c.op = "storeAccount"
  <2>1. c.account \in Accounts
    BY <1>1, <1>5 DEF CallTyped
  <2>2. c.account \in LedgerRows(c) /\ (c.row.default => LedgerRows(c) = Accounts)
    BY <1>5, <2>1 DEF LedgerRows
  <2>3. account'[c.account] = account[c.account]
    BY <2>1, <2>2 DEF WritesOnly
  <2>4. c.row.default => \A a \in Accounts : account'[a] = account[a]
    BY <2>2 DEF WritesOnly
  <2> QED
    BY <1>5, <2>1, <2>3, <2>4 DEF BookCall
<1>6. CASE c.op \in {"insert", "idle", "removeAccount"}
  BY <1>6 DEF BookCall
<1> QED
  BY <1>1, <1>2, <1>3, <1>4, <1>5, <1>6 DEF LedgerCalls, LedgerOps

\* A step of one request: it keeps to the rows it may write, before or after it.
LEMMA BooksStep ==
  ASSUME LedgerInv, BooksInv, OrderlyBooks', NEW d \in Desks, NEW c,
         ledgerCall' = [ledgerCall EXCEPT ![d] = c], BookCall(c)',
         NEW R, WritesOnly(R), R \subseteq LedgerRows(ledgerCall[d]) \/ R \subseteq LedgerRows(c),
         TxnsFit', BooksBalance', OnlyDefault'
  PROVE  BooksInv'
<1>1. ASSUME NEW e \in Desks, e # d PROVE BookCall(ledgerCall[e])'
  <2>1. ledgerCall'[e] = ledgerCall[e] /\ ledgerCall'[d] = c
    BY <1>1 DEF LedgerInv, LedgerTypeOK
  <2>2. LedgerRows(ledgerCall[d]) \cap LedgerRows(ledgerCall[e]) = {}
    BY <1>1 DEF BooksInv, OrderlyBooks
  <2>3. LedgerRows(ledgerCall'[d]) \cap LedgerRows(ledgerCall'[e]) = {}
    BY <1>1 DEF OrderlyBooks
  <2>4. R \cap LedgerRows(ledgerCall[e]) = {}
    BY <2>1, <2>2, <2>3
  <2> QED
    BY <2>1, <2>4, Undisturbed DEF BooksInv
<1>2. BookCall(ledgerCall[d])'
  <2>1. ledgerCall'[d] = c
    BY DEF LedgerInv, LedgerTypeOK
  <2> QED
    BY <2>1 DEF BookCall
<1> QED
  BY <1>1, <1>2 DEF BooksInv

LEMMA ApprovedFinite ==
  ASSUME LedgerInv
  PROVE  /\ IsFiniteSet(Approved)
         /\ \A a : IsFiniteSet(Credits(a)) /\ IsFiniteSet(Debits(a))
         /\ \A i \in Approved : AmountOf[i] \in Nat
         /\ \A a : Booked(a) \in Int
<1>1. Len(txn) \in Nat /\ TxnIds = 1 .. Len(txn)
  BY DEF LedgerInv, LedgerTypeOK, TxnIds
<1>2. IsFiniteSet(1 .. Len(txn))
  <2>1. 1 \in Int /\ Len(txn) \in Int
    BY <1>1
  <2> QED
    BY <2>1, FS_Interval
<1>3. IsFiniteSet(Approved)
  <2>1. Approved \in SUBSET (1 .. Len(txn))
    BY <1>1 DEF Approved
  <2> QED
    BY <1>2, <2>1, FS_Subset
<1>4. ASSUME NEW a PROVE IsFiniteSet(Credits(a)) /\ IsFiniteSet(Debits(a))
  <2>1. Credits(a) \in SUBSET Approved /\ Debits(a) \in SUBSET Approved
    BY DEF Credits, Debits
  <2> QED
    BY <1>3, <2>1, FS_Subset
<1>5. \A i \in Approved : AmountOf[i] \in Nat
  BY DEF Approved, AmountOf, LedgerInv, KnownTxn, TxnRow
<1>6. ASSUME NEW a PROVE Booked(a) \in Int
  <2>1. \A i \in Credits(a) \cup Debits(a) : AmountOf[i] \in Nat
    BY <1>5 DEF Credits, Debits
  <2>2. SumOver(AmountOf, Credits(a)) \in Nat /\ SumOver(AmountOf, Debits(a)) \in Nat
    BY <1>4, <2>1, SumNat
  <2> QED
    BY <2>2 DEF Booked
<1> QED
  BY <1>3, <1>4, <1>5, <1>6

LEMMA BookedSame ==
  ASSUME Approved' = Approved, \A i \in Approved : txn'[i] = txn[i]
  PROVE  \A a : Booked(a)' = Booked(a)
<1> SUFFICES ASSUME NEW a PROVE Booked(a)' = Booked(a)
  OBVIOUS
<1>1. Credits(a)' = Credits(a) /\ Debits(a)' = Debits(a)
  BY DEF Credits, Debits
<1>2. \A i \in Approved : AmountOf[i] = AmountOf'[i]
  BY DEF Approved, AmountOf
<1>3. \A i \in Credits(a) : AmountOf[i] = AmountOf'[i]
  BY <1>2 DEF Credits
<1>4. \A i \in Debits(a) : AmountOf[i] = AmountOf'[i]
  BY <1>2 DEF Debits
<1>5. SumOver(AmountOf, Credits(a)) = SumOver(AmountOf', Credits(a))
  BY <1>3, SumSame
<1>6. SumOver(AmountOf, Debits(a)) = SumOver(AmountOf', Debits(a))
  BY <1>4, SumSame
<1> QED
  BY <1>1, <1>5, <1>6 DEF Booked

\* Where transaction t adds its amount, and where it takes it from.
CreditedBy(t) == IF t.type = "INCOME" THEN t.account ELSE t.dest

LEMMA BookedOne ==
  ASSUME LedgerInv, NEW i \in TxnIds, NEW t \in TxnRow,
         txn[i].status # "APPROVED", t.status = "APPROVED", txn' = [txn EXCEPT ![i] = t], NEW a
  PROVE  Booked(a)' = Booked(a) + (IF a = CreditedBy(t) THEN t.amount ELSE 0)
                                - (IF t.type # "INCOME" /\ a = t.account THEN t.amount ELSE 0)
<1>1. TxnIds' = TxnIds /\ txn'[i] = t /\ \A j \in TxnIds \ {i} : txn'[j] = txn[j]
  BY DEF TxnIds, LedgerInv, LedgerTypeOK
<1>2. Approved' = Approved \cup {i} /\ i \notin Approved
  BY <1>1 DEF Approved
<1>3. /\ IsFiniteSet(Credits(a)) /\ IsFiniteSet(Debits(a))
      /\ \A j \in Approved : AmountOf[j] \in Nat
  BY ApprovedFinite
<1>4. \A j \in Approved : AmountOf'[j] = AmountOf[j]
  BY <1>1, <1>2 DEF AmountOf, Approved
<1>5. AmountOf'[i] = t.amount /\ t.amount \in Nat
  BY <1>1 DEF AmountOf, TxnRow
<1>6. Credits(a) \subseteq Approved /\ Debits(a) \subseteq Approved
  BY DEF Credits, Debits
<1>7. SumOver(AmountOf', Credits(a)) = SumOver(AmountOf, Credits(a))
  <2>1. \A j \in Credits(a) : AmountOf'[j] = AmountOf[j]
    BY <1>4, <1>6
  <2> QED
    BY <2>1, SumSame
<1>8. SumOver(AmountOf', Debits(a)) = SumOver(AmountOf, Debits(a))
  <2>1. \A j \in Debits(a) : AmountOf'[j] = AmountOf[j]
    BY <1>4, <1>6
  <2> QED
    BY <2>1, SumSame
<1>9. SumOver(AmountOf', Credits(a)') = SumOver(AmountOf, Credits(a)) + IF a = CreditedBy(t) THEN t.amount ELSE 0
  <2>1. SumOver(AmountOf, Credits(a)) \in Nat
    <3>1. \A j \in Credits(a) : AmountOf[j] \in Nat
      BY <1>3, <1>6
    <3> QED
      BY <1>3, <3>1, SumNat
  <2>2. CASE a = CreditedBy(t)
    <3>1. Credits(a)' = Credits(a) \cup {i} /\ i \notin Credits(a)
      BY <1>1, <1>2, <2>2 DEF Credits, CreditedBy
    <3>2. \A j \in Credits(a) \cup {i} : AmountOf'[j] \in Nat
      BY <1>3, <1>4, <1>5, <1>6
    <3>3. SumOver(AmountOf', Credits(a) \cup {i}) = SumOver(AmountOf', Credits(a)) + AmountOf'[i]
      BY <1>3, <3>1, <3>2, SumAdds
    <3> QED
      BY <1>5, <1>7, <2>2, <3>1, <3>3
  <2>3. CASE a # CreditedBy(t)
    <3>1. Credits(a)' = Credits(a)
      BY <1>1, <1>2, <2>3 DEF Credits, CreditedBy
    <3> QED
      BY <1>7, <2>1, <2>3, <3>1
  <2> QED
    BY <2>2, <2>3
<1>10. SumOver(AmountOf', Debits(a)')
         = SumOver(AmountOf, Debits(a)) + IF t.type # "INCOME" /\ a = t.account THEN t.amount ELSE 0
  <2>1. SumOver(AmountOf, Debits(a)) \in Nat
    <3>1. \A j \in Debits(a) : AmountOf[j] \in Nat
      BY <1>3, <1>6
    <3> QED
      BY <1>3, <3>1, SumNat
  <2>2. CASE t.type # "INCOME" /\ a = t.account
    <3>1. Debits(a)' = Debits(a) \cup {i} /\ i \notin Debits(a)
      BY <1>1, <1>2, <2>2 DEF Debits
    <3>2. \A j \in Debits(a) \cup {i} : AmountOf'[j] \in Nat
      BY <1>3, <1>4, <1>5, <1>6
    <3>3. SumOver(AmountOf', Debits(a) \cup {i}) = SumOver(AmountOf', Debits(a)) + AmountOf'[i]
      BY <1>3, <3>1, <3>2, SumAdds
    <3> QED
      BY <1>5, <1>8, <2>2, <3>1, <3>3
  <2>3. CASE ~(t.type # "INCOME" /\ a = t.account)
    <3>1. Debits(a)' = Debits(a)
      BY <1>1, <1>2, <2>3 DEF Debits
    <3> QED
      BY <1>8, <2>1, <2>3, <3>1
  <2> QED
    BY <2>2, <2>3
<1>11. /\ SumOver(AmountOf, Credits(a)) \in Nat /\ SumOver(AmountOf, Debits(a)) \in Nat
  <2>1. \A j \in Credits(a) \cup Debits(a) : AmountOf[j] \in Nat
    BY <1>3, <1>6
  <2> QED
    BY <1>3, <2>1, SumNat
<1> QED
  BY <1>5, <1>9, <1>10, <1>11 DEF Booked

-----------------------------------------------------------------------------
\* A request asks, or goes on with what it has read.
LEMMA BookAsks ==
  ASSUME LedgerInv, BooksInv, OrderlyBooks', NEW d \in Desks, NEW c, UNCHANGED ledger,
         ledgerCall' = [ledgerCall EXCEPT ![d] = c], BookCall(c)
  PROVE  BooksInv'
<1>1. txn' = txn /\ account' = account /\ TxnIds' = TxnIds
  BY DEF ledger, TxnIds
<1>2. BookCall(c)'
  BY <1>1 DEF BookCall
<1>3. WritesOnly({})
  BY <1>1 DEF WritesOnly
<1>4. TxnsFit' /\ OnlyDefault'
  BY <1>1 DEF TxnsFit, OnlyDefault, BooksInv
<1>5. BooksBalance'
  <2>1. Approved' = Approved
    BY <1>1 DEF Approved
  <2>2. \A a : Booked(a)' = Booked(a)
    BY <1>1, <2>1, BookedSame
  <2> QED
    BY <1>1, <2>2 DEF BooksBalance, BooksInv
<1> QED
  BY <1>2, <1>3, <1>4, <1>5, BooksStep

LEMMA BookHangsUp ==
  ASSUME LedgerInv, BooksInv, OrderlyBooks', NEW d \in Desks, Hangup(d), UNCHANGED ledger
  PROVE  BooksInv'
<1>1. BookCall(LedgerIdle)
  BY IdleTyped DEF BookCall
<1> QED
  BY <1>1, BookAsks DEF Hangup

Used(a) == \E i \in TxnIds : a \in AccountsOf(txn[i])

LEMMA UnusedIsEmpty ==
  ASSUME NEW a \in Accounts, ~Used(a)
  PROVE  Booked(a) = 0
<1>1. a # NoAccount
  BY LedgerAssumption
<1>2. Credits(a) = {}
  BY <1>1 DEF Used, AccountsOf, Credits, Approved
<1>3. Debits(a) = {}
  BY <1>1 DEF Used, AccountsOf, Debits, Approved
<1> QED
  BY <1>2, <1>3, SumOfNone DEF Booked

LEMMA AccountsMove ==
  ASSUME LedgerInv, LedgerInv', BooksInv, OrderlyBooks', NEW d \in Desks, NEW c,
         ledgerCall' = [ledgerCall EXCEPT ![d] = c], UNCHANGED txn, BookCall(c)',
         NEW R, WritesOnly(R), R \subseteq LedgerRows(ledgerCall[d]) \/ R \subseteq LedgerRows(c),
         \A a \in Accounts : account[a].exists /\ Used(a) => account'[a].exists,
         \A a \in Accounts : account'[a].exists =>
           \/ /\ account[a].exists
              /\ account'[a].balance = account[a].balance /\ account'[a].opening = account[a].opening
           \/ ~Used(a) /\ account'[a].balance = account'[a].opening,
         OnlyDefault'
  PROVE  BooksInv'
<1>1. TxnIds' = TxnIds /\ Approved' = Approved
  BY DEF TxnIds, Approved
<1>2. \A a : Booked(a)' = Booked(a)
  BY <1>1, BookedSame
<1>3. TxnsFit'
  <2> SUFFICES ASSUME NEW i \in TxnIds, NEW a \in AccountsOf(txn[i])
               PROVE  account'[a].exists
    BY <1>1 DEF TxnsFit, BooksInv
  <2>1. a \in Accounts
    BY DEF AccountsOf, LedgerInv, KnownTxn, TxnRow
  <2> QED
    BY <2>1 DEF Used, BooksInv, TxnsFit
<1>4. BooksBalance'
  <2> SUFFICES ASSUME NEW a \in Accounts, account'[a].exists
               PROVE  account'[a].balance = account'[a].opening + Booked(a)
    BY <1>2 DEF BooksBalance
  <2>1. CASE /\ account[a].exists
             /\ account'[a].balance = account[a].balance /\ account'[a].opening = account[a].opening
    BY <2>1 DEF BooksInv, BooksBalance
  <2>2. CASE ~Used(a) /\ account'[a].balance = account'[a].opening
    <3>1. account'[a].opening \in Int
      BY DEF LedgerInv, LedgerTypeOK, AccountRow
    <3> QED
      BY <2>2, <3>1, UnusedIsEmpty
  <2> QED
    BY <2>1, <2>2
<1> QED
  BY <1>3, <1>4, BooksStep

LEMMA CreateBooks ==
  ASSUME LedgerInv, BooksInv, OrderlyBooks', NEW d \in Desks, NEW t \in TxnRow,
         t.status = "PENDING", DestFits(t), CreateTransaction(d, t)
  PROVE  BooksInv'
<1> DEFINE u == Numbered(t)
           c == [LedgerIdle EXCEPT !.op = "insert", !.txn = u]
<1>1. u.status = t.status /\ u.type = t.type /\ u.dest = t.dest
  BY DEF Numbered, TxnRow
<1> HIDE DEF u
<1>2. c.op = "insert" /\ c.txn = u
  BY DEF LedgerIdle
<1>3. BookCall(c)
  <2> HIDE DEF c
  <2> QED
    BY <1>1, <1>2 DEF BookCall, DestFits
<1>4. ledgerCall' = [ledgerCall EXCEPT ![d] = c] /\ UNCHANGED ledger
  BY DEF CreateTransaction, Takes, u
<1> HIDE DEF c
<1> QED
  BY <1>3, <1>4, BookAsks

LEMMA InsertBooks ==
  ASSUME LedgerInv, BooksInv, OrderlyBooks', NEW d \in Desks, InsertTransaction(d)
  PROVE  BooksInv'
<1> DEFINE t == ledgerCall[d].txn
<1>1. /\ t \in TxnRow /\ txn' = Append(txn, t) /\ Insertable(t) /\ account' = account
      /\ Hangup(d)
  BY DEF InsertTransaction, LedgerInv, CallTyped, KnownTxn
<1>2. t.status = "PENDING" /\ DestFits(t)
  BY DEF InsertTransaction, BooksInv, BookCall
<1> HIDE DEF t
<1>3. /\ TxnIds' = TxnIds \cup {Len(txn) + 1} /\ Len(txn) + 1 \notin TxnIds
      /\ \A i \in TxnIds : txn'[i] = txn[i]
      /\ txn'[Len(txn) + 1] = t
  BY <1>1 DEF TxnIds, LedgerInv, LedgerTypeOK
<1>4. Approved' = Approved
  BY <1>2, <1>3 DEF Approved
<1>5. \A a : Booked(a)' = Booked(a)
  BY <1>3, <1>4, BookedSame DEF Approved
<1>6. BooksBalance' /\ OnlyDefault'
  BY <1>1, <1>5 DEF BooksInv, BooksBalance, OnlyDefault
<1>7. TxnsFit'
  BY <1>1, <1>2, <1>3 DEF TxnsFit, BooksInv, Insertable, AccountsOf
<1>8. WritesOnly({})
  BY <1>1, <1>3 DEF WritesOnly
<1>9. BookCall(LedgerIdle)'
  BY IdleTyped DEF BookCall
<1> QED
  BY <1>1, <1>6, <1>7, <1>8, <1>9, BooksStep DEF Hangup

LEMMA ApproveBooks ==
  ASSUME LedgerInv, BooksInv, OrderlyBooks', NEW d \in Desks, NEW i \in TxnIds,
         ApproveTransaction(d, i)
  PROVE  BooksInv'
<1> DEFINE t == [txn[i] EXCEPT !.status = "APPROVED"]
           c == [LedgerIdle EXCEPT !.op = "approve", !.id = i, !.txn = t]
<1>1. c.op = "approve" /\ c.id = i /\ c.txn = t
  BY DEF LedgerIdle
<1>2. ledgerCall' = [ledgerCall EXCEPT ![d] = c] /\ UNCHANGED ledger /\ txn[i].status = "PENDING"
  BY DEF ApproveTransaction, Takes
<1> HIDE DEF c
<1>3. BookCall(c)
  BY <1>1, <1>2 DEF BookCall
<1> QED
  BY <1>2, <1>3, BookAsks

LEMMA EditBooks ==
  ASSUME LedgerInv, BooksInv, OrderlyBooks', NEW d \in Desks, NEW i \in TxnIds, NEW t,
         txn[i].status # "APPROVED", Edit(d, i, t)
  PROVE  BooksInv'
<1> DEFINE c == [LedgerIdle EXCEPT !.op = "save", !.id = i, !.txn = t]
<1>1. c.op = "save" /\ c.id = i
  BY DEF LedgerIdle
<1>2. ledgerCall' = [ledgerCall EXCEPT ![d] = c] /\ UNCHANGED ledger
  BY DEF Edit, Takes
<1> HIDE DEF c
<1>3. BookCall(c)
  BY <1>1 DEF BookCall
<1> QED
  BY <1>2, <1>3, BookAsks

LEMMA BeginBooks ==
  ASSUME LedgerInv, BooksInv, OrderlyBooks', NEW d \in Desks, BeginApproval(d)
  PROVE  BooksInv'
<1> DEFINE c == ledgerCall[d]
           n == ledgerCall'[d]
<1>1. /\ c.op = "approve" /\ UNCHANGED ledger
      /\ n.op = "approving" /\ n.id = c.id /\ n.txn = c.txn /\ n.base = txn[c.id]
      /\ n.from = account[c.txn.account].balance
      /\ c.txn.type = "TRANSFER" => n.to = account[c.txn.dest].balance
      /\ ledgerCall' = [ledgerCall EXCEPT ![d] = n]
  BY DEF BeginApproval, LedgerInv, LedgerTypeOK, LedgerCalls
<1>2. BookCall(c)
  BY DEF BooksInv
<1>3. PICK m : m = n
  OBVIOUS
<1>4. BookCall(m)
  BY <1>1, <1>2, <1>3 DEF BookCall
<1> QED
  BY <1>1, <1>3, <1>4, BookAsks

LEMMA SaveBooks ==
  ASSUME LedgerInv, BooksInv, OrderlyBooks', NEW d \in Desks, SaveTransaction(d)
  PROVE  BooksInv'
<1> DEFINE c == ledgerCall[d]
<1>1. /\ c.op = "save" /\ Hangup(d) /\ account' = account
      /\ txn' = txn \/ txn' = [txn EXCEPT ![c.id] = c.txn]
  BY DEF SaveTransaction
<1>2. /\ c.id \in TxnIds /\ KnownTxn(c.txn) /\ SameDeal(c.txn, txn[c.id])
      /\ c.txn.status # "APPROVED" /\ txn[c.id].status # "APPROVED"
  BY <1>1 DEF LedgerInv, CallTyped, CallKnown, BooksInv, BookCall, OrderlyBooks
<1>3. CASE txn' = txn
  BY <1>1, <1>3, BookHangsUp DEF ledger
<1>4. CASE txn' = [txn EXCEPT ![c.id] = c.txn]
  <2>1. /\ TxnIds' = TxnIds /\ \A i \in TxnIds \ {c.id} : txn'[i] = txn[i]
        /\ txn'[c.id] = c.txn
    BY <1>2, <1>4 DEF TxnIds, LedgerInv, LedgerTypeOK
  <2>2. Approved' = Approved /\ \A i \in Approved : txn'[i] = txn[i]
    BY <1>2, <2>1 DEF Approved
  <2>3. \A a : Booked(a)' = Booked(a)
    BY <2>2, BookedSame
  <2>4. BooksBalance' /\ OnlyDefault'
    BY <1>1, <2>3 DEF BooksInv, BooksBalance, OnlyDefault
  <2>5. TxnsFit'
    <3>1. \A i \in TxnIds : /\ AccountsOf(txn'[i]) = AccountsOf(txn[i])
                            /\ DestFits(txn[i]) => DestFits(txn'[i])
      BY <1>2, <2>1 DEF AccountsOf, SameDeal, DestFits
    <3> QED
      BY <1>1, <2>1, <3>1 DEF TxnsFit, BooksInv
  <2>6. WritesOnly({<< "txn", c.id >>}) /\ {<< "txn", c.id >>} \subseteq LedgerRows(c)
    BY <1>1, <2>1 DEF WritesOnly, LedgerRows
  <2>7. BookCall(LedgerIdle)'
    BY IdleTyped DEF BookCall
  <2>8. PICK R : R = {<< "txn", c.id >>}
    OBVIOUS
  <2>9. WritesOnly(R) /\ R \subseteq LedgerRows(ledgerCall[d])
    BY <2>6, <2>8
  <2> HIDE DEF c
  <2> QED
    BY <1>1, <2>4, <2>5, <2>7, <2>9, BooksStep DEF Hangup
<1> QED
  BY <1>1, <1>3, <1>4

LEMMA CommitBooks ==
  ASSUME LedgerInv, LedgerInv', BooksInv, OrderlyBooks', NEW d \in Desks, CommitApproval(d)
  PROVE  BooksInv'
<1> DEFINE c == ledgerCall[d]
           t == c.txn
<1>1. c.op = "approving" /\ Hangup(d) /\ account' = Posted(c)
      /\ txn' = [txn EXCEPT ![c.id] = Merged(c.base, c.txn, txn[c.id])]
  BY DEF CommitApproval
<1>2. /\ c.id \in TxnIds /\ KnownTxn(t) /\ SameDeal(t, txn[c.id]) /\ txn[c.id] \in TxnRow
      /\ c.base = txn[c.id] /\ t = [txn[c.id] EXCEPT !.status = "APPROVED"]
      /\ c.from = account[t.account].balance
      /\ t.type = "TRANSFER" => c.to = account[t.dest].balance
      /\ txn[c.id].status = "PENDING"
      /\ DestFits(t)
  BY <1>1 DEF LedgerInv, CallTyped, CallKnown, KnownTxn, BooksInv, BookCall, TxnsFit, DestFits, SameDeal
<1>3. Merged(c.base, t, txn[c.id]) = t
  BY <1>2 DEF Merged, TxnRow
<1>4. txn' = [txn EXCEPT ![c.id] = t]
  BY <1>1, <1>3
<1>5. t.account \in Accounts /\ (t.type = "TRANSFER" => t.dest \in Accounts) /\ t.account # t.dest
      /\ t.amount \in Nat /\ t.type \in Types /\ t.status = "APPROVED" /\ t \in TxnRow
  BY <1>2 DEF KnownTxn, TxnRow, BooksInv, OrderlyBooks, SameDeal
<1>6. /\ TxnIds' = TxnIds /\ txn'[c.id] = t /\ \A i \in TxnIds \ {c.id} : txn'[i] = txn[i]
  BY <1>2, <1>4 DEF TxnIds, LedgerInv, LedgerTypeOK
<1>7. \A a \in Accounts :
        /\ account'[a].exists = account[a].exists /\ account'[a].opening = account[a].opening
        /\ account'[a].default = account[a].default
        /\ account'[a].balance = account[a].balance + (IF a = CreditedBy(t) THEN t.amount ELSE 0)
                                - (IF t.type # "INCOME" /\ a = t.account THEN t.amount ELSE 0)
        /\ a \notin AccountsOf(t) => account'[a] = account[a]
  <2> SUFFICES ASSUME NEW a \in Accounts
               PROVE  /\ account'[a].exists = account[a].exists /\ account'[a].opening = account[a].opening
                      /\ account'[a].default = account[a].default
                      /\ account'[a].balance = account[a].balance + (IF a = CreditedBy(t) THEN t.amount ELSE 0)
                                - (IF t.type # "INCOME" /\ a = t.account THEN t.amount ELSE 0)
                      /\ a \notin AccountsOf(t) => account'[a] = account[a]
    OBVIOUS
  <2>1. account \in [Accounts -> AccountRow] /\ account[a].balance \in Int
    BY DEF LedgerInv, LedgerTypeOK, AccountRow
  <2>2. a # NoAccount
    BY LedgerAssumption
  <2> HIDE DEF c
  <2>3. CASE t.amount = 0
    <3>1. account' = account
      BY <1>1, <2>3 DEF Posted
    <3> QED
      BY <2>1, <2>3, <3>1
  <2>4. CASE t.amount # 0 /\ t.type = "INCOME"
    <3>1. account' = [account EXCEPT ![t.account].balance = c.from + t.amount]
      BY <1>1, <2>4 DEF Posted, NewBalance
    <3>2. CreditedBy(t) = t.account
      BY <2>4 DEF CreditedBy
    <3> QED
      BY <1>2, <1>5, <2>1, <2>2, <2>4, <3>1, <3>2 DEF AccountsOf, AccountRow
  <2>5. CASE t.amount # 0 /\ t.type = "EXPENSE"
    <3>1. account' = [account EXCEPT ![t.account].balance = c.from - t.amount]
      BY <1>1, <2>5 DEF Posted, NewBalance
    <3>2. CreditedBy(t) = NoAccount
      BY <1>2, <2>5 DEF CreditedBy, DestFits
    <3> QED
      BY <1>2, <1>5, <2>1, <2>2, <2>5, <3>1, <3>2 DEF AccountsOf, AccountRow
  <2>6. CASE t.amount # 0 /\ t.type = "TRANSFER"
    <3>1. account' = [[account EXCEPT ![t.dest].balance = c.to + t.amount]
                        EXCEPT ![t.account].balance = c.from - t.amount]
      BY <1>1, <2>6 DEF Posted, NewBalance
    <3>2. CreditedBy(t) = t.dest
      BY <2>6 DEF CreditedBy
    <3> QED
      BY <1>2, <1>5, <2>1, <2>2, <2>6, <3>1, <3>2 DEF AccountsOf, AccountRow
  <2> QED
    BY <1>5, <2>3, <2>4, <2>5, <2>6 DEF Types
<1>8. \A a : Booked(a)' = Booked(a) + (IF a = CreditedBy(t) THEN t.amount ELSE 0)
                                - (IF t.type # "INCOME" /\ a = t.account THEN t.amount ELSE 0)
  BY <1>2, <1>4, <1>5, BookedOne
<1>9. BooksBalance'
  <2> SUFFICES ASSUME NEW a \in Accounts, account'[a].exists
               PROVE  account'[a].balance = account'[a].opening + Booked(a)'
    BY DEF BooksBalance
  <2>1. account[a].balance = account[a].opening + Booked(a)
    BY <1>7 DEF BooksInv, BooksBalance
  <2>2. account[a].opening \in Int /\ Booked(a) \in Int
    BY ApprovedFinite DEF LedgerInv, LedgerTypeOK, AccountRow
  <2> DEFINE plus == IF a = CreditedBy(t) THEN t.amount ELSE 0
             minus == IF t.type # "INCOME" /\ a = t.account THEN t.amount ELSE 0
  <2>3. plus \in Int /\ minus \in Int
    BY <1>5
  <2>4. account'[a].balance = account[a].balance + plus - minus /\ account'[a].opening = account[a].opening
    BY <1>7
  <2>5. Booked(a)' = Booked(a) + plus - minus
    BY <1>8
  <2> HIDE DEF plus, minus
  <2> QED
    BY <2>1, <2>2, <2>3, <2>4, <2>5
<1>10. OnlyDefault'
  BY <1>7 DEF OnlyDefault, BooksInv
<1>11. TxnsFit'
  <2>1. \A i \in TxnIds : AccountsOf(txn'[i]) = AccountsOf(txn[i]) /\ (DestFits(txn[i]) => DestFits(txn'[i]))
    BY <1>2, <1>6 DEF AccountsOf, SameDeal, DestFits
  <2>2. \A i \in TxnIds : AccountsOf(txn[i]) \subseteq Accounts
    BY DEF AccountsOf, LedgerInv, KnownTxn, TxnRow
  <2> QED
    BY <1>6, <1>7, <2>1, <2>2 DEF TxnsFit, BooksInv
<1>12. PICK R : R = LedgerRows(c)
  OBVIOUS
<1>13. WritesOnly(R) /\ R \subseteq LedgerRows(ledgerCall[d])
  <2>1. << "txn", c.id >> \in R /\ AccountsOf(t) \subseteq R
    BY <1>1, <1>12 DEF LedgerRows, AccountsOf
  <2> QED
    BY <1>6, <1>7, <1>12, <2>1 DEF WritesOnly
<1>14. BookCall(LedgerIdle)'
  BY IdleTyped DEF BookCall
<1> HIDE DEF c
<1> QED
  BY <1>1, <1>9, <1>10, <1>11, <1>13, <1>14, BooksStep DEF Hangup

-----------------------------------------------------------------------------
\* Accounts.

LEMMA ClearedRows ==
  ASSUME LedgerInv, NEW others
  PROVE  \A a \in Accounts :
           /\ Cleared(others)[a].exists = account[a].exists
           /\ Cleared(others)[a].balance = account[a].balance
           /\ Cleared(others)[a].opening = account[a].opening
           /\ Cleared(others)[a].default => account[a].default /\ a \notin others
           /\ a \notin others => Cleared(others)[a] = account[a]
  BY DEF Cleared, LedgerInv, LedgerTypeOK, AccountRow

LEMMA OpenBooks ==
  ASSUME LedgerInv, LedgerInv', BooksInv, OrderlyBooks', NEW d \in Desks, NEW a \in Accounts,
         NEW opening, NEW default \in BOOLEAN, OpenAccount(d, a, opening, default)
  PROVE  BooksInv'
<1> DEFINE row == [ exists |-> TRUE, opening |-> opening, balance |-> opening,
                    active |-> TRUE, default |-> default ]
           c == [LedgerIdle EXCEPT !.op = "openAccount", !.account = a, !.row = row]
           R == IF default THEN Accounts ELSE {}
<1>1. c.op = "openAccount" /\ c.row = row /\ row.exists /\ row.balance = row.opening
      /\ row.default = default
  BY DEF LedgerIdle
<1>2. /\ ledgerCall' = [ledgerCall EXCEPT ![d] = c] /\ txn' = txn
      /\ account' = IF default THEN Cleared(Accounts) ELSE account
  BY DEF OpenAccount, Takes
<1> HIDE DEF c, row
<1>3. R \subseteq LedgerRows(c)
  BY <1>1 DEF LedgerRows
<1>4. \A b \in Accounts :
        /\ account'[b].exists = account[b].exists
        /\ account'[b].balance = account[b].balance /\ account'[b].opening = account[b].opening
        /\ account'[b].default => account[b].default /\ ~default
        /\ b \notin R => account'[b] = account[b]
  BY <1>2, ClearedRows
<1>5. BookCall(c)'
  BY <1>1, <1>4 DEF BookCall
<1>6. WritesOnly(R)
  BY <1>2, <1>4 DEF WritesOnly, TxnIds
<1>7. OnlyDefault'
  BY <1>4 DEF OnlyDefault, BooksInv
<1> HIDE DEF R
<1> QED
  BY <1>2, <1>3, <1>4, <1>5, <1>6, <1>7, AccountsMove

LEMMA InsertAccountBooks ==
  ASSUME LedgerInv, LedgerInv', BooksInv, OrderlyBooks', NEW d \in Desks, InsertAccount(d)
  PROVE  BooksInv'
<1> DEFINE c == ledgerCall[d]
<1>1. /\ c.op = "openAccount" /\ Hangup(d) /\ txn' = txn
      /\ account' = IF account[c.account].exists THEN account
                    ELSE [account EXCEPT ![c.account] = c.row]
  BY DEF InsertAccount
<1>2. /\ c.account \in Accounts /\ c.row.exists /\ c.row.balance = c.row.opening
      /\ c.row.default => \A a \in Accounts : ~account[a].default
  BY <1>1 DEF LedgerInv, CallTyped, BooksInv, BookCall
<1>3. CASE account[c.account].exists
  BY <1>1, <1>3, BookHangsUp DEF ledger
<1>4. CASE ~account[c.account].exists
  <2>0. PICK a \in Accounts : a = c.account
    BY <1>2
  <2>1. PICK R : a = c.account /\ R = {a}
    BY <2>0
  <2>2. account'[a] = c.row /\ \A b \in Accounts \ {a} : account'[b] = account[b]
    BY <1>1, <1>4, <2>1 DEF LedgerInv, LedgerTypeOK
  <2>3. WritesOnly(R) /\ R \subseteq LedgerRows(ledgerCall[d])
    BY <1>1, <2>1, <2>2 DEF WritesOnly, TxnIds, LedgerRows
  <2>4. ~Used(a)
    BY <1>4, <2>1 DEF Used, BooksInv, TxnsFit
  <2>5. OnlyDefault'
    BY <1>2, <2>2 DEF OnlyDefault, BooksInv
  <2>6. BookCall(LedgerIdle)'
    BY IdleTyped DEF BookCall
  <2>7. \A b \in Accounts : account[b].exists /\ Used(b) => account'[b].exists
    BY <1>2, <2>2
  <2>8. \A b \in Accounts : account'[b].exists =>
           \/ /\ account[b].exists
              /\ account'[b].balance = account[b].balance /\ account'[b].opening = account[b].opening
           \/ ~Used(b) /\ account'[b].balance = account'[b].opening
    BY <1>2, <2>2, <2>4
  <2> HIDE DEF c
  <2> QED
    BY <1>1, <2>3, <2>5, <2>6, <2>7, <2>8, AccountsMove DEF Hangup
<1> QED
  BY <1>3, <1>4

LEMMA ChangeBooks ==
  ASSUME LedgerInv, BooksInv, OrderlyBooks', NEW d \in Desks, NEW a \in Accounts,
         NEW active \in BOOLEAN, NEW isDefault \in {"yes", "no", "keep"},
         ChangeAccount(d, a, active, isDefault)
  PROVE  BooksInv'
<1> DEFINE default == isDefault = "yes" \/ (isDefault = "keep" /\ account[a].default)
           row == [account[a] EXCEPT !.active = active, !.default = default]
           op == IF isDefault = "yes" THEN "changeAccount" ELSE "storeAccount"
           c == [LedgerIdle EXCEPT !.op = op, !.account = a, !.row = row]
<1>1. /\ ledgerCall' = [ledgerCall EXCEPT ![d] = c] /\ UNCHANGED ledger /\ account[a].exists
  BY DEF ChangeAccount, Takes, LedgerInv, LedgerTypeOK, AccountRow
<1>2. /\ row.exists = account[a].exists /\ row.balance = account[a].balance
      /\ row.opening = account[a].opening /\ row.default = default
  <2>1. account[a] \in AccountRow
    BY DEF LedgerInv, LedgerTypeOK
  <2> HIDE DEF default
  <2> QED
    BY <2>1 DEF AccountRow
<1>3. op = "storeAccount" /\ default => \A b \in Accounts \ {a} : ~account[b].default
  BY DEF BooksInv, OnlyDefault
<1>4. op \in {"changeAccount", "storeAccount"}
  OBVIOUS
<1> HIDE DEF row, op, default
<1>5. c.op = op /\ c.account = a /\ c.row = row
  BY DEF LedgerIdle
<1> HIDE DEF c
<1>6. BookCall(c)
  BY <1>1, <1>2, <1>3, <1>4, <1>5 DEF BookCall
<1> QED
  BY <1>1, <1>6, BookAsks

LEMMA ClearBooks ==
  ASSUME LedgerInv, LedgerInv', BooksInv, OrderlyBooks', NEW d \in Desks, ClearOtherDefaults(d)
  PROVE  BooksInv'
<1> DEFINE c == ledgerCall[d]
           n == [c EXCEPT !.op = "storeAccount"]
<1>1. /\ c.op = "changeAccount" /\ txn' = txn /\ account' = Cleared(Accounts \ {c.account})
      /\ ledgerCall' = [ledgerCall EXCEPT ![d] = n]
      /\ n.op = "storeAccount" /\ n.account = c.account /\ n.row = c.row
  BY DEF ClearOtherDefaults, LedgerInv, LedgerTypeOK, LedgerCalls
<1>2. /\ c.account \in Accounts /\ account[c.account].exists /\ c.row.exists
      /\ c.row.balance = account[c.account].balance /\ c.row.opening = account[c.account].opening
  BY <1>1 DEF LedgerInv, CallTyped, BooksInv, BookCall
<1>3. \A b \in Accounts :
        /\ account'[b].exists = account[b].exists
        /\ account'[b].balance = account[b].balance /\ account'[b].opening = account[b].opening
        /\ account'[b].default => account[b].default /\ b = c.account
  BY <1>1, ClearedRows
<1>4. PICK m, R : m = n /\ R = Accounts
  OBVIOUS
<1>5. BookCall(m)'
  BY <1>1, <1>2, <1>3, <1>4 DEF BookCall
<1>6. WritesOnly(R) /\ R \subseteq LedgerRows(ledgerCall[d])
  BY <1>1, <1>4 DEF WritesOnly, TxnIds, LedgerRows
<1>7. OnlyDefault'
  BY <1>3 DEF OnlyDefault, BooksInv
<1> HIDE DEF c, n
<1> QED
  BY <1>1, <1>3, <1>4, <1>5, <1>6, <1>7, AccountsMove

LEMMA StoreBooks ==
  ASSUME LedgerInv, LedgerInv', BooksInv, OrderlyBooks', NEW d \in Desks, StoreAccount(d)
  PROVE  BooksInv'
<1> DEFINE c == ledgerCall[d]
<1>1. /\ c.op = "storeAccount" /\ Hangup(d) /\ txn' = txn
      /\ account' = [account EXCEPT ![c.account] = c.row]
  BY DEF StoreAccount
<1>2. /\ c.account \in Accounts /\ account[c.account].exists /\ c.row.exists
      /\ c.row.balance = account[c.account].balance /\ c.row.opening = account[c.account].opening
      /\ c.row.default => \A a \in Accounts \ {c.account} : ~account[a].default
  BY <1>1 DEF LedgerInv, CallTyped, BooksInv, BookCall
<1>0. PICK a \in Accounts : a = c.account
  BY <1>2
<1>3. PICK R : a = c.account /\ R = {a}
  BY <1>0
<1>4. account'[a] = c.row /\ \A b \in Accounts \ {a} : account'[b] = account[b]
  BY <1>1, <1>3 DEF LedgerInv, LedgerTypeOK
<1>5. WritesOnly(R) /\ R \subseteq LedgerRows(ledgerCall[d])
  BY <1>1, <1>3, <1>4 DEF WritesOnly, TxnIds, LedgerRows
<1>6. OnlyDefault'
  BY <1>2, <1>3, <1>4 DEF OnlyDefault, BooksInv
<1>7. BookCall(LedgerIdle)'
  BY IdleTyped DEF BookCall
<1>8. \A b \in Accounts :
        /\ account[b].exists => account'[b].exists
        /\ account'[b].exists => account[b].exists
        /\ account'[b].balance = account[b].balance /\ account'[b].opening = account[b].opening
  BY <1>2, <1>3, <1>4
<1> HIDE DEF c
<1> QED
  BY <1>1, <1>5, <1>6, <1>7, <1>8, AccountsMove DEF Hangup

LEMMA RemoveBooks ==
  ASSUME LedgerInv, BooksInv, OrderlyBooks', NEW d \in Desks, NEW a, RemoveAccount(d, a)
  PROVE  BooksInv'
<1> DEFINE c == [LedgerIdle EXCEPT !.op = "removeAccount", !.account = a]
<1>1. c.op = "removeAccount"
  BY DEF LedgerIdle
<1>2. ledgerCall' = [ledgerCall EXCEPT ![d] = c] /\ UNCHANGED ledger
  BY DEF RemoveAccount, Takes
<1> HIDE DEF c
<1>3. BookCall(c)
  BY <1>1 DEF BookCall
<1> QED
  BY <1>2, <1>3, BookAsks

LEMMA DeleteBooks ==
  ASSUME LedgerInv, LedgerInv', BooksInv, OrderlyBooks', NEW d \in Desks, DeleteAccount(d)
  PROVE  BooksInv'
<1> DEFINE c == ledgerCall[d]
<1>1. /\ c.op = "removeAccount" /\ Hangup(d) /\ txn' = txn /\ c.account \in Accounts
      /\ \/ account' = account
         \/ /\ account' = [account EXCEPT ![c.account] = NoAccountRow]
            /\ ~\E i \in TxnIds : c.account \in {txn[i].account, txn[i].dest}
  BY DEF DeleteAccount, LedgerInv, CallTyped
<1>2. CASE account' = account
  BY <1>1, <1>2, BookHangsUp DEF ledger
<1>3. CASE /\ account' = [account EXCEPT ![c.account] = NoAccountRow]
           /\ ~\E i \in TxnIds : c.account \in {txn[i].account, txn[i].dest}
  <2>0. PICK a \in Accounts : a = c.account
    BY <1>1
  <2>1. PICK R : a = c.account /\ R = {a}
    BY <2>0
  <2>2. account'[a] = NoAccountRow /\ \A b \in Accounts \ {a} : account'[b] = account[b]
    BY <1>3, <2>1 DEF LedgerInv, LedgerTypeOK
  <2>3. ~NoAccountRow.exists /\ ~NoAccountRow.default
    BY DEF NoAccountRow
  <2>4. WritesOnly(R) /\ R \subseteq LedgerRows(ledgerCall[d])
    BY <1>1, <2>1, <2>2 DEF WritesOnly, TxnIds, LedgerRows
  <2>5. ~Used(a)
    BY <1>3, <2>1 DEF Used, AccountsOf
  <2>6. OnlyDefault'
    BY <2>2, <2>3 DEF OnlyDefault, BooksInv
  <2>7. BookCall(LedgerIdle)'
    BY IdleTyped DEF BookCall
  <2>8. \A b \in Accounts :
          /\ account[b].exists /\ Used(b) => account'[b].exists
          /\ account'[b].exists =>
                /\ account[b].exists /\ account'[b].balance = account[b].balance
                /\ account'[b].opening = account[b].opening
    BY <2>2, <2>3, <2>5
  <2> HIDE DEF c
  <2> QED
    BY <1>1, <2>4, <2>6, <2>7, <2>8, AccountsMove DEF Hangup
<1> QED
  BY <1>1, <1>2, <1>3

\* What a step does with the books: it asks for something, it goes on with what
\* has been asked for, or it leaves them alone.
UsesLedger(d) ==
  \/ UNCHANGED ledgerVars
  \/ LedgerStep(d)
  \/ LedgerRequest(d)
  \/ \E t \in TxnRow : t.status = "PENDING" /\ DestFits(t) /\ CreateTransaction(d, t)
  \/ ApproveIncome(d)

LEMMA StepUsesLedger ==
  ASSUME AccountingInv, NEW d \in Desks,
         Event(d) \/ AccountantAsks(d) \/ StorekeeperAsks(d) \/ BookingStep(d) \/ StaffStep(d)
  PROVE  UsesLedger(d)
<1>1. CASE Event(d) \/ AccountantAsks(d) \/ StorekeeperAsks(d) \/ StaffStep(d)
  BY <1>1 DEF Event, OrderPaid, ProductEvent, AccountantAsks, StorekeeperAsks, StaffStep, UsesLedger
<1>2. CASE FindAccount(d) \/ FindWarehouse(d) \/ MoveItem(d) \/ ItemMoves(d) \/ ShipItem(d)
             \/ AllMoved(d) \/ LookupFails(d) \/ InventoryFails(d)
  BY <1>2 DEF FindAccount, FindWarehouse, MoveItem, ItemMoves, ShipItem, AllMoved, LookupFails,
     InventoryFails, UsesLedger
<1>3. CASE IncomeRecorded(d) \/ ChargeRecorded(d) \/ IncomeApproved(d) \/ LedgerFails(d)
  BY <1>3 DEF IncomeRecorded, ChargeRecorded, IncomeApproved, LedgerFails, LedgerStep, UsesLedger
<1>4. CASE RecordIncome(d) \/ RecordCharge(d)
  <2>1. BookingTyped(booking[d])
    BY DEF AccountingInv, BookingInv
  <2>2. CASE RecordIncome(d)
    <3>1. /\ MainIncome(booking[d]) \in TxnRow /\ MainIncome(booking[d]).status = "PENDING"
          /\ DestFits(MainIncome(booking[d]))
      BY <2>1, <2>2, MainIncomeTyped DEF RecordIncome, Turn, MainIncome, Income, DestFits
    <3> QED
      BY <2>2, <3>1 DEF RecordIncome, UsesLedger
  <2>3. CASE RecordCharge(d)
    <3>1. /\ ChargeIncome(booking[d]) \in TxnRow /\ ChargeIncome(booking[d]).status = "PENDING"
          /\ DestFits(ChargeIncome(booking[d]))
      BY <2>1, <2>3, ChargeIncomeTyped DEF RecordCharge, ChargeIncome, Income, DestFits
    <3> QED
      BY <2>3, <3>1 DEF RecordCharge, UsesLedger
  <2> QED
    BY <1>4, <2>2, <2>3
<1>5. CASE ApproveIncome(d)
  BY <1>5 DEF UsesLedger
<1> QED
  BY <1>1, <1>2, <1>3, <1>4, <1>5 DEF BookingStep

LEMMA StepBooks ==
  ASSUME LedgerInv, LedgerInv', BooksInv, OrderlyBooks', NEW d \in Desks, LedgerStep(d)
  PROVE  BooksInv'
<1>1. CASE InsertRefused(d) \/ RollbackApproval(d)
  BY <1>1, BookHangsUp DEF InsertRefused, RollbackApproval
<1>2. CASE InsertTransaction(d) \/ BeginApproval(d) \/ CommitApproval(d) \/ SaveTransaction(d)
  BY <1>2, InsertBooks, BeginBooks, CommitBooks, SaveBooks
<1>3. CASE InsertAccount(d) \/ ClearOtherDefaults(d) \/ StoreAccount(d) \/ DeleteAccount(d)
  BY <1>3, InsertAccountBooks, ClearBooks, StoreBooks, DeleteBooks
<1> QED
  BY <1>1, <1>2, <1>3 DEF LedgerStep

LEMMA RequestBooks ==
  ASSUME LedgerInv, LedgerInv', BooksInv, OrderlyBooks', NEW d \in Desks, LedgerRequest(d)
  PROVE  BooksInv'
<1>1. ASSUME NEW t \in NewTransactions, CreateTransaction(d, t) PROVE BooksInv'
  <2>1. t \in TxnRow /\ t.status = "PENDING" /\ DestFits(t)
    BY LedgerAssumption
    DEF NewTransactions, TxnRow, DestFits, Status, Categories, References, NoReference
  <2> QED
    BY <1>1, <2>1, CreateBooks
<1>2. ASSUME NEW i \in TxnIds, ApproveTransaction(d, i) PROVE BooksInv'
  BY <1>2, ApproveBooks
<1>3. ASSUME NEW i \in TxnIds, RejectTransaction(d, i) PROVE BooksInv'
  BY <1>3, EditBooks DEF RejectTransaction
<1>4. ASSUME NEW i \in TxnIds, NEW status \in Status, NEW amount \in Amounts,
             NEW ref \in NewReferences \cup {txn[i].ref}, UpdateTransaction(d, i, status, amount, ref)
      PROVE BooksInv'
  BY <1>4, EditBooks DEF UpdateTransaction
<1>5. ASSUME NEW i \in TxnIds, RemoveTransaction(d, i) PROVE BooksInv'
  BY <1>5, EditBooks DEF RemoveTransaction
<1>6. ASSUME NEW a \in Accounts, NEW opening \in Openings, NEW default \in BOOLEAN,
             OpenAccount(d, a, opening, default)
      PROVE  BooksInv'
  BY <1>6, OpenBooks
<1>7. ASSUME NEW a \in Accounts, NEW active \in BOOLEAN, NEW isDefault \in {"yes", "no", "keep"},
             ChangeAccount(d, a, active, isDefault)
      PROVE  BooksInv'
  BY <1>7, ChangeBooks
<1>8. ASSUME NEW a \in Accounts, RemoveAccount(d, a) PROVE BooksInv'
  BY <1>8, RemoveBooks
<1> QED
  BY <1>1, <1>2, <1>3, <1>4, <1>5, <1>6, <1>7, <1>8 DEF LedgerRequest

LEMMA BooksStay ==
  ASSUME BooksInv, UNCHANGED ledgerVars
  PROVE  BooksInv'
<1>1. txn' = txn /\ account' = account /\ ledgerCall' = ledgerCall
  BY DEF ledgerVars
<1>2. Approved' = Approved /\ TxnIds' = TxnIds
  BY <1>1 DEF Approved, TxnIds
<1>3. \A a : Booked(a)' = Booked(a)
  BY <1>1, <1>2, BookedSame
<1>4. BooksBalance'
  BY <1>1, <1>3 DEF BooksInv, BooksBalance
<1>5. OrderlyBooks' /\ TxnsFit' /\ OnlyDefault'
  BY <1>1, <1>2 DEF BooksInv, OrderlyBooks, TxnsFit, OnlyDefault
<1>6. \A d \in Desks : BookCall(ledgerCall[d])'
  BY <1>1 DEF BooksInv, BookCall
<1> QED
  BY <1>4, <1>5, <1>6 DEF BooksInv

LEMMA UseBooks ==
  ASSUME LedgerInv, LedgerInv', BooksInv, OrderlyBooks', NEW d \in Desks, UsesLedger(d)
  PROVE  BooksInv'
<1>1. CASE UNCHANGED ledgerVars
  BY <1>1, BooksStay
<1>2. CASE LedgerStep(d) \/ LedgerRequest(d)
  BY <1>2, StepBooks, RequestBooks
<1>3. ASSUME NEW t \in TxnRow, t.status = "PENDING", DestFits(t), CreateTransaction(d, t)
      PROVE  BooksInv'
  BY <1>3, CreateBooks
<1>4. CASE ApproveIncome(d)
  BY <1>4, ApproveBooks DEF ApproveIncome, ApproveTransaction
<1> QED
  BY <1>1, <1>2, <1>3, <1>4 DEF UsesLedger

\* What is approved stays approved.
LEMMA UseKeepsApproved ==
  ASSUME LedgerInv, BooksInv, NEW d \in Desks, UsesLedger(d), NEW i \in Approved
  PROVE  txn'[i].status = "APPROVED"
<1>1. i \in TxnIds /\ txn[i].status = "APPROVED"
  BY DEF Approved
<1>2. CASE txn' = txn
  BY <1>1, <1>2
<1>3. CASE InsertTransaction(d)
  <2>1. txn'[i] = txn[i]
    BY <1>1, <1>3 DEF InsertTransaction, TxnIds, LedgerInv, LedgerTypeOK, CallTyped, KnownTxn
  <2> QED
    BY <1>1, <2>1
<1>4. CASE SaveTransaction(d)
  <2> DEFINE c == ledgerCall[d]
  <2>1. /\ c.id \in TxnIds /\ txn[c.id].status # "APPROVED"
        /\ txn' = txn \/ txn' = [txn EXCEPT ![c.id] = c.txn]
    BY <1>4 DEF SaveTransaction, LedgerInv, CallKnown, BooksInv, BookCall
  <2>2. txn'[i] = txn[i]
    BY <1>1, <2>1 DEF TxnIds, LedgerInv, LedgerTypeOK
  <2> QED
    BY <1>1, <2>2
<1>5. CASE CommitApproval(d)
  <2> DEFINE c == ledgerCall[d]
  <2>1. /\ c.id \in TxnIds /\ txn[c.id].status = "PENDING"
        /\ txn' = [txn EXCEPT ![c.id] = Merged(c.base, c.txn, txn[c.id])]
    BY <1>5 DEF CommitApproval, LedgerInv, CallKnown, BooksInv, BookCall
  <2>2. txn'[i] = txn[i]
    BY <1>1, <2>1 DEF TxnIds, LedgerInv, LedgerTypeOK
  <2> QED
    BY <1>1, <2>2
<1>6. LedgerRequest(d) => txn' = txn
  BY DEF LedgerRequest, CreateTransaction, ApproveTransaction, RejectTransaction, UpdateTransaction,
     RemoveTransaction, OpenAccount, ChangeAccount, RemoveAccount, Edit, ledger
<1>7. ~InsertTransaction(d) /\ ~SaveTransaction(d) /\ ~CommitApproval(d) /\ LedgerStep(d) => txn' = txn
  BY DEF LedgerStep, InsertRefused, BeginApproval, RollbackApproval, InsertAccount, ClearOtherDefaults,
     StoreAccount, DeleteAccount, ledger
<1>8. (\E t \in TxnRow : CreateTransaction(d, t)) \/ ApproveIncome(d) \/ UNCHANGED ledgerVars => txn' = txn
  BY DEF CreateTransaction, ApproveIncome, ApproveTransaction, ledger, ledgerVars
<1> QED
  BY <1>2, <1>3, <1>4, <1>5, <1>6, <1>7, <1>8 DEF UsesLedger

LEMMA InitBooks ==
  ASSUME LedgerInit
  PROVE  BooksInv
<1>1. txn = << >> /\ TxnIds = {} /\ \A d \in Desks : ledgerCall[d] = LedgerIdle
  BY DEF LedgerInit, TxnIds
<1>2. LedgerRows(LedgerIdle) = {} /\ BookCall(LedgerIdle)
  BY IdleTyped DEF LedgerRows, BookCall
<1>3. OrderlyBooks
  BY <1>1, <1>2, IdleTyped DEF OrderlyBooks
<1>4. PICK opening \in [Opened -> Openings], default \in Opened :
        account = [a \in Accounts |->
                     IF a \in Opened
                     THEN [ exists |-> TRUE, opening |-> opening[a], balance |-> opening[a],
                            active |-> TRUE, default |-> a = default ]
                     ELSE NoAccountRow]
  BY DEF LedgerInit
<1>5. \A a \in Accounts : ~Used(a)
  BY <1>1 DEF Used
<1>6. \A a \in Accounts : Booked(a) = 0
  BY <1>5, UnusedIsEmpty
<1>7. BooksBalance
  <2>1. \A a \in Accounts : account[a].exists => a \in Opened
    BY <1>4 DEF NoAccountRow
  <2>2. \A a \in Opened : opening[a] \in Nat /\ account[a].balance = opening[a] /\ account[a].opening = opening[a]
    BY <1>4, LedgerAssumption
  <2> QED
    BY <1>6, <2>1, <2>2 DEF BooksBalance
<1>8. OnlyDefault
  BY <1>4 DEF OnlyDefault, NoAccountRow
<1>9. TxnsFit
  BY <1>1 DEF TxnsFit
<1> QED
  BY <1>1, <1>2, <1>3, <1>7, <1>8, <1>9 DEF BooksInv

\* No two elements: at most one.
LEMMA AtMostOne ==
  ASSUME NEW S, \A x, y \in S : x = y
  PROVE  Cardinality(S) <= 1
<1>1. CASE S = {}
  BY <1>1, FS_EmptySet
<1>2. CASE S # {}
  <2>1. PICK x \in S : TRUE
    BY <1>2
  <2>2. S = {x}
    BY <2>1
  <2> QED
    BY <2>2, FS_Singleton
<1> QED
  BY <1>1, <1>2

-----------------------------------------------------------------------------
(***************************************************************************)
(* The stock while requests are orderly.                                   *)
(***************************************************************************)
Source(m) == << m.product, m.warehouse >>
Target(m) == << m.product, m.dest >>

\* Only a transfer has a destination, and it is another warehouse.
WayFits(m) ==
  /\ m.type = "TRANSFER" => m.dest \in Warehouses /\ m.dest # m.warehouse
  /\ m.type # "TRANSFER" => m.dest = NoWarehouse

\* What a transfer makes of the row of its destination.
Received(row, quantity) ==
  [row EXCEPT !.quantity = @ + quantity, !.available = @ + quantity]

\* What a request at the warehouses goes by is what is stored.
StockCall(c) ==
  /\ c.op \in {"insert", "adjust"} =>
       c.movement.status = "PENDING" /\ WayFits(c.movement) /\ stock[Source(c.movement)].exists
  /\ c.op = "approve" =>
       movement[c.id].status = "PENDING" /\ c.movement = [movement[c.id] EXCEPT !.status = "APPROVED"]
  /\ c.op \in {"reaching", "moving"} =>
       /\ movement[c.id].status = "PENDING"
       /\ c.movement = [movement[c.id] EXCEPT !.status = "APPROVED", !.after = c.movement.after]
       /\ c.base = movement[c.id]
       /\ c.stockBase = stock[Source(c.movement)]
       /\ c.stock = StockAfter(c.stockBase, c.movement)
       /\ c.movement.type = "TRANSFER" /\ c.destBase.exists =>
            c.destBase = stock[Target(c.movement)]
  /\ c.op = "moving" /\ c.movement.type = "TRANSFER" =>
       /\ c.destBase.exists
       /\ c.dest = Received(c.destBase, c.movement.quantity)
  /\ c.op = "save" => movement[c.id].status # "APPROVED"
  /\ c.op = "openWarehouse" /\ c.row.default => \A w \in Warehouses : ~warehouse[w].default
  /\ c.op = "storeWarehouse" /\ c.row.default =>
       \A w \in Warehouses \ {c.warehouse} : ~warehouse[w].default

MovementsFit == \A i \in MovementIds : WayFits(movement[i]) /\ stock[Source(movement[i])].exists

AbsentIsEmpty == \A x \in Places : ~stock[x].exists => stock[x].quantity = 0

OnlyDefaultWarehouse ==
  \A v, w \in Warehouses : warehouse[v].default /\ warehouse[w].default => v = w

StockInv ==
  /\ OrderlyStock
  /\ MovementsFit
  /\ AbsentIsEmpty
  /\ \A d \in Desks : StockCall(stockCall[d])
  /\ StockAddsUp /\ EmptyIsFlagged
  /\ OnlyDefaultWarehouse

\* A step that writes no other rows than R, except that it can make stock rows.
StockOnly(R) ==
  /\ \A i \in MovementIds :
       i \in MovementIds' /\ (<< "movement", i >> \notin R => movement'[i] = movement[i])
  /\ \A x \in Places : stock[x].exists =>
       stock'[x].exists /\ (x \notin R => stock'[x] = stock[x])
  /\ \A w \in Warehouses : w \notin R => warehouse'[w] = warehouse[w]

LEMMA StockUndisturbed ==
  ASSUME InventoryInv, MovementsFit, NEW e \in Desks, StockCall(stockCall[e]),
         NEW R, StockOnly(R),
         R \cap InventoryRows(stockCall[e]) = {}, stockCall'[e] = stockCall[e]
  PROVE  StockCall(stockCall[e])'
<1> DEFINE c == stockCall[e]
           m == c.movement
<1>1. c \in StockCalls /\ StockCallTyped(c) /\ StockCallKnown(c)
  BY DEF InventoryInv, StockCallTyped
<1>2. CASE c.op \in {"insert", "adjust"}
  <2>1. Source(m) \in Places
    BY <1>1, <1>2 DEF StockCallTyped, KnownMovement, Source, Places
  <2> QED
    BY <1>2, <2>1 DEF StockCall, StockOnly
<1>3. CASE c.op \in {"approve", "reaching", "moving"}
  <2>1. c.id \in MovementIds /\ << "movement", c.id >> \in InventoryRows(c)
    BY <1>1, <1>3 DEF InventoryRows, StockCallKnown
  <2>2. movement'[c.id] = movement[c.id]
    BY <2>1 DEF StockOnly
  <2>3. CASE c.op = "approve"
    BY <2>2, <2>3 DEF StockCall
  <2>4. CASE c.op \in {"reaching", "moving"}
    <3>1. /\ m.product \in Products /\ m.warehouse \in Warehouses
          /\ m.type = "TRANSFER" => m.dest \in Warehouses
      BY <1>1, <2>4 DEF StockCallTyped, KnownMovement
    <3>2. Source(m) \in Places /\ Source(m) \in InventoryRows(c)
      BY <2>4, <3>1, InventoryAssumption DEF Source, Places, InventoryRows
    <3>3. m.type = "TRANSFER" => Target(m) \in Places /\ Target(m) \in InventoryRows(c)
      BY <2>4, <3>1, InventoryAssumption DEF Target, Places, InventoryRows
    <3>4. stock[Source(m)].exists
      <4>1. Source(m) = Source(movement[c.id])
        BY <1>1, <2>4 DEF StockCallKnown, SameGoods, Source
      <4> QED
        BY <2>1, <4>1 DEF MovementsFit
    <3>5. stock'[Source(m)] = stock[Source(m)]
      BY <3>2, <3>4 DEF StockOnly
    <3>6. m.type = "TRANSFER" /\ c.destBase.exists =>
            c.destBase = stock[Target(m)] /\ stock'[Target(m)] = stock[Target(m)]
      BY <2>4, <3>3 DEF StockOnly, StockCall
    <3> QED
      BY <2>2, <2>4, <3>5, <3>6 DEF StockCall
  <2> QED
    BY <1>3, <2>3, <2>4
<1>4. CASE c.op = "save"
  <2>1. c.id \in MovementIds /\ << "movement", c.id >> \in InventoryRows(c)
    BY <1>1, <1>4 DEF InventoryRows, StockCallKnown
  <2> QED
    BY <1>4, <2>1 DEF StockOnly, StockCall
<1>5. CASE c.op \in {"openWarehouse", "storeWarehouse"}
  <2>1. c.op = "openWarehouse" \/ c.row.default => InventoryRows(c) = Warehouses
    BY <1>5 DEF InventoryRows
  <2>2. c.op = "openWarehouse" \/ c.row.default => \A w \in Warehouses : warehouse'[w] = warehouse[w]
    BY <2>1 DEF StockOnly
  <2>3. c.warehouse \in Warehouses
    BY <1>1, <1>5 DEF StockCallTyped
  <2> QED
    BY <1>5, <2>2, <2>3 DEF StockCall
<1>6. CASE c.op \in {"check", "idle", "changeWarehouse", "removeWarehouse"}
  BY <1>6 DEF StockCall
<1> QED
  BY <1>1, <1>2, <1>3, <1>4, <1>5, <1>6 DEF StockCalls, StockOps

LEMMA StockStep ==
  ASSUME InventoryInv, StockInv, OrderlyStock', NEW d \in Desks, NEW c,
         stockCall' = [stockCall EXCEPT ![d] = c], StockCall(c)',
         NEW R, StockOnly(R), R \subseteq InventoryRows(stockCall[d]) \/ R \subseteq InventoryRows(c),
         MovementsFit', AbsentIsEmpty', StockAddsUp', EmptyIsFlagged', OnlyDefaultWarehouse'
  PROVE  StockInv'
<1>1. ASSUME NEW e \in Desks, e # d PROVE StockCall(stockCall[e])'
  <2>1. stockCall'[e] = stockCall[e] /\ stockCall'[d] = c
    BY <1>1 DEF InventoryInv, InventoryTypeOK
  <2>2. InventoryRows(stockCall[d]) \cap InventoryRows(stockCall[e]) = {}
    BY <1>1 DEF StockInv, OrderlyStock
  <2>3. InventoryRows(stockCall'[d]) \cap InventoryRows(stockCall'[e]) = {}
    BY <1>1 DEF OrderlyStock
  <2>4. R \cap InventoryRows(stockCall[e]) = {}
    BY <2>1, <2>2, <2>3
  <2> QED
    BY <2>1, <2>4, StockUndisturbed DEF StockInv
<1>2. StockCall(stockCall[d])'
  <2>1. stockCall'[d] = c
    BY DEF InventoryInv, InventoryTypeOK
  <2> QED
    BY <2>1 DEF StockCall
<1> QED
  BY <1>1, <1>2 DEF StockInv

-----------------------------------------------------------------------------
LEMMA ApprovedMovesFinite ==
  ASSUME InventoryInv
  PROVE  /\ IsFiniteSet(ApprovedMovements)
         /\ \A x : IsFiniteSet(Arrivals(x)) /\ IsFiniteSet(Departures(x))
         /\ \A i \in ApprovedMovements : QuantityOf[i] \in Nat
         /\ \A x : MovedIn(x) \in Int
<1>1. Len(movement) \in Nat /\ MovementIds = 1 .. Len(movement)
  BY DEF InventoryInv, InventoryTypeOK, MovementIds
<1>2. IsFiniteSet(1 .. Len(movement))
  <2>1. 1 \in Int /\ Len(movement) \in Int
    BY <1>1
  <2> QED
    BY <2>1, FS_Interval
<1>3. IsFiniteSet(ApprovedMovements)
  <2>1. ApprovedMovements \in SUBSET (1 .. Len(movement))
    BY <1>1 DEF ApprovedMovements
  <2> QED
    BY <1>2, <2>1, FS_Subset
<1>4. ASSUME NEW x PROVE IsFiniteSet(Arrivals(x)) /\ IsFiniteSet(Departures(x))
  <2>1. Arrivals(x) \in SUBSET ApprovedMovements /\ Departures(x) \in SUBSET ApprovedMovements
    BY DEF Arrivals, Departures
  <2> QED
    BY <1>3, <2>1, FS_Subset
<1>5. \A i \in ApprovedMovements : QuantityOf[i] \in Nat
  BY DEF ApprovedMovements, QuantityOf, InventoryInv, KnownMovement, MovementRow
<1>6. ASSUME NEW x PROVE MovedIn(x) \in Int
  <2>1. \A i \in Arrivals(x) \cup Departures(x) : QuantityOf[i] \in Nat
    BY <1>5 DEF Arrivals, Departures
  <2>2. SumOver(QuantityOf, Arrivals(x)) \in Nat /\ SumOver(QuantityOf, Departures(x)) \in Nat
    BY <1>4, <2>1, SumNat
  <2> QED
    BY <2>2 DEF MovedIn
<1> QED
  BY <1>3, <1>4, <1>5, <1>6

LEMMA MovedSame ==
  ASSUME ApprovedMovements' = ApprovedMovements,
         \A i \in ApprovedMovements : movement'[i] = movement[i]
  PROVE  \A x : MovedIn(x)' = MovedIn(x)
<1> SUFFICES ASSUME NEW x PROVE MovedIn(x)' = MovedIn(x)
  OBVIOUS
<1>1. Arrivals(x)' = Arrivals(x) /\ Departures(x)' = Departures(x)
  BY DEF Arrivals, Departures
<1>2. \A i \in ApprovedMovements : QuantityOf[i] = QuantityOf'[i]
  BY DEF ApprovedMovements, QuantityOf
<1>3. \A i \in Arrivals(x) : QuantityOf[i] = QuantityOf'[i]
  BY <1>2 DEF Arrivals
<1>4. \A i \in Departures(x) : QuantityOf[i] = QuantityOf'[i]
  BY <1>2 DEF Departures
<1>5. SumOver(QuantityOf, Arrivals(x)) = SumOver(QuantityOf', Arrivals(x))
  BY <1>3, SumSame
<1>6. SumOver(QuantityOf, Departures(x)) = SumOver(QuantityOf', Departures(x))
  BY <1>4, SumSame
<1> QED
  BY <1>1, <1>5, <1>6 DEF MovedIn

\* Where movement m adds its quantity, and where it takes it from.
Adds(m, x) ==
  /\ m.product = x[1] /\ m.type # "OUT"
  /\ x[2] = IF m.type = "TRANSFER" THEN m.dest ELSE m.warehouse
Removes(m, x) == m.type \in {"OUT", "TRANSFER"} /\ m.product = x[1] /\ m.warehouse = x[2]

LEMMA MovedOne ==
  ASSUME InventoryInv, NEW i \in MovementIds, NEW m \in MovementRow,
         movement[i].status # "APPROVED", m.status = "APPROVED",
         movement' = [movement EXCEPT ![i] = m], NEW x
  PROVE  MovedIn(x)' = MovedIn(x) + (IF Adds(m, x) THEN m.quantity ELSE 0)
                                  - (IF Removes(m, x) THEN m.quantity ELSE 0)
<1>1. /\ MovementIds' = MovementIds /\ movement'[i] = m
      /\ \A j \in MovementIds \ {i} : movement'[j] = movement[j]
  BY DEF MovementIds, InventoryInv, InventoryTypeOK
<1>2. ApprovedMovements' = ApprovedMovements \cup {i} /\ i \notin ApprovedMovements
  BY <1>1 DEF ApprovedMovements
<1>3. /\ IsFiniteSet(Arrivals(x)) /\ IsFiniteSet(Departures(x))
      /\ \A j \in ApprovedMovements : QuantityOf[j] \in Nat
  BY ApprovedMovesFinite
<1>4. \A j \in ApprovedMovements : QuantityOf'[j] = QuantityOf[j]
  BY <1>1, <1>2 DEF QuantityOf, ApprovedMovements
<1>5. QuantityOf'[i] = m.quantity /\ m.quantity \in Nat
  BY <1>1 DEF QuantityOf, MovementRow
<1>6. Arrivals(x) \subseteq ApprovedMovements /\ Departures(x) \subseteq ApprovedMovements
  BY DEF Arrivals, Departures
<1>7. SumOver(QuantityOf', Arrivals(x)) = SumOver(QuantityOf, Arrivals(x))
  <2>1. \A j \in Arrivals(x) : QuantityOf'[j] = QuantityOf[j]
    BY <1>4, <1>6
  <2> QED
    BY <2>1, SumSame
<1>8. SumOver(QuantityOf', Departures(x)) = SumOver(QuantityOf, Departures(x))
  <2>1. \A j \in Departures(x) : QuantityOf'[j] = QuantityOf[j]
    BY <1>4, <1>6
  <2> QED
    BY <2>1, SumSame
<1>9. /\ SumOver(QuantityOf, Arrivals(x)) \in Nat /\ SumOver(QuantityOf, Departures(x)) \in Nat
  <2>1. \A j \in Arrivals(x) \cup Departures(x) : QuantityOf[j] \in Nat
    BY <1>3, <1>6
  <2> QED
    BY <1>3, <2>1, SumNat
<1>10. SumOver(QuantityOf', Arrivals(x)')
         = SumOver(QuantityOf, Arrivals(x)) + IF Adds(m, x) THEN m.quantity ELSE 0
  <2>1. CASE Adds(m, x)
    <3>1. Arrivals(x)' = Arrivals(x) \cup {i} /\ i \notin Arrivals(x)
      BY <1>1, <1>2, <2>1 DEF Arrivals, Adds
    <3>2. \A j \in Arrivals(x) \cup {i} : QuantityOf'[j] \in Nat
      BY <1>3, <1>4, <1>5, <1>6
    <3>3. SumOver(QuantityOf', Arrivals(x) \cup {i}) = SumOver(QuantityOf', Arrivals(x)) + QuantityOf'[i]
      BY <1>3, <3>1, <3>2, SumAdds
    <3> QED
      BY <1>5, <1>7, <2>1, <3>1, <3>3
  <2>2. CASE ~Adds(m, x)
    <3>1. Arrivals(x)' = Arrivals(x)
      BY <1>1, <1>2, <2>2 DEF Arrivals, Adds
    <3> QED
      BY <1>7, <1>9, <2>2, <3>1
  <2> QED
    BY <2>1, <2>2
<1>11. SumOver(QuantityOf', Departures(x)')
         = SumOver(QuantityOf, Departures(x)) + IF Removes(m, x) THEN m.quantity ELSE 0
  <2>1. CASE Removes(m, x)
    <3>1. Departures(x)' = Departures(x) \cup {i} /\ i \notin Departures(x)
      BY <1>1, <1>2, <2>1 DEF Departures, Removes
    <3>2. \A j \in Departures(x) \cup {i} : QuantityOf'[j] \in Nat
      BY <1>3, <1>4, <1>5, <1>6
    <3>3. SumOver(QuantityOf', Departures(x) \cup {i})
            = SumOver(QuantityOf', Departures(x)) + QuantityOf'[i]
      BY <1>3, <3>1, <3>2, SumAdds
    <3> QED
      BY <1>5, <1>8, <2>1, <3>1, <3>3
  <2>2. CASE ~Removes(m, x)
    <3>1. Departures(x)' = Departures(x)
      BY <1>1, <1>2, <2>2 DEF Departures, Removes
    <3> QED
      BY <1>8, <1>9, <2>2, <3>1
  <2> QED
    BY <2>1, <2>2
<1> QED
  BY <1>5, <1>9, <1>10, <1>11 DEF MovedIn

-----------------------------------------------------------------------------
\* Stock rows are made, empty, and nothing else happens to the stock.
RowsMade ==
  \A x \in Places : stock'[x] = stock[x] \/ (~stock[x].exists /\ stock'[x] = EmptyStock)

LEMMA RowMade ==
  ASSUME InventoryInv, NEW x \in Places, stock' = WithStock(x)
  PROVE  RowsMade /\ stock'[x].exists
  BY DEF RowsMade, WithStock, EmptyStock, InventoryInv, InventoryTypeOK

\* No movement is written.
LEMMA StockAsks ==
  ASSUME InventoryInv, StockInv, OrderlyStock', NEW d \in Desks, NEW c,
         stockCall' = [stockCall EXCEPT ![d] = c], StockCall(c)', UNCHANGED movement, RowsMade,
         NEW R, \A w \in Warehouses : w \notin R => warehouse'[w] = warehouse[w],
         R \subseteq InventoryRows(stockCall[d]) \/ R \subseteq InventoryRows(c),
         OnlyDefaultWarehouse'
  PROVE  StockInv'
<1>1. MovementIds' = MovementIds /\ ApprovedMovements' = ApprovedMovements
  BY DEF MovementIds, ApprovedMovements
<1>2. \A x : MovedIn(x)' = MovedIn(x)
  BY <1>1, MovedSame
<1>3. EmptyStock.exists /\ EmptyStock.quantity = 0 /\ EmptyStock.alert = "OUT_OF_STOCK"
  BY DEF EmptyStock
<1>4. \A x \in Places : /\ stock'[x].quantity = stock[x].quantity
                        /\ stock[x].exists => stock'[x] = stock[x]
                        /\ ~stock'[x].exists => stock'[x] = stock[x]
                        /\ stock'[x].alert \in {stock[x].alert, "OUT_OF_STOCK"}
  BY <1>3 DEF RowsMade, StockInv, AbsentIsEmpty
<1>5. StockOnly(R)
  BY <1>1, <1>4 DEF StockOnly
<1>6. MovementsFit'
  <2>1. \A i \in MovementIds : Source(movement[i]) \in Places
    BY DEF InventoryInv, KnownMovement, Source, Places
  <2> QED
    BY <1>1, <1>4, <2>1 DEF MovementsFit, StockInv, WayFits, Source
<1>7. AbsentIsEmpty' /\ EmptyIsFlagged'
  BY <1>4 DEF AbsentIsEmpty, EmptyIsFlagged, StockInv
<1>8. StockAddsUp'
  BY <1>1, <1>2, <1>4 DEF StockAddsUp, StockInv
<1> QED
  BY <1>5, <1>6, <1>7, <1>8, StockStep

\* Nothing is written.
LEMMA StockReads ==
  ASSUME InventoryInv, StockInv, OrderlyStock', NEW d \in Desks, NEW c, UNCHANGED inventory,
         stockCall' = [stockCall EXCEPT ![d] = c], StockCall(c)
  PROVE  StockInv'
<1>1. stock' = stock /\ warehouse' = warehouse /\ movement' = movement
  BY DEF inventory
<1>2. StockCall(c)'
  BY <1>1 DEF StockCall
<1>3. RowsMade /\ OnlyDefaultWarehouse'
  BY <1>1 DEF RowsMade, OnlyDefaultWarehouse, StockInv
<1>4. PICK R : R = {}
  OBVIOUS
<1> QED
  BY <1>1, <1>2, <1>3, <1>4, StockAsks

LEMMA StockFinishes ==
  ASSUME InventoryInv, StockInv, OrderlyStock', NEW d \in Desks, Finish(d), UNCHANGED inventory
  PROVE  StockInv'
<1>1. StockCall(StockIdle)
  BY StockIdleTyped DEF StockCall
<1> QED
  BY <1>1, StockReads DEF Finish

-----------------------------------------------------------------------------
(* create and adjustStock.                                                 *)

LEMMA NewMovementAsks ==
  ASSUME InventoryInv, StockInv, OrderlyStock', NEW d \in Desks, NEW op \in {"insert", "adjust"}, NEW m,
         m.status = "PENDING", WayFits(m), Source(m) \in Places, stock' = WithStock(Source(m)),
         UNCHANGED << warehouse, movement >>,
         stockCall' = [stockCall EXCEPT ![d] = [StockIdle EXCEPT !.op = op, !.movement = m]]
  PROVE  StockInv'
<1> DEFINE c == [StockIdle EXCEPT !.op = op, !.movement = m]
<1>1. c.op = op /\ c.movement = m
  BY DEF StockIdle
<1>2. RowsMade /\ stock'[Source(m)].exists
  BY RowMade
<1>3. stockCall' = [stockCall EXCEPT ![d] = c]
  OBVIOUS
<1> HIDE DEF c
<1>4. StockCall(c)'
  BY <1>1, <1>2 DEF StockCall, WayFits, Source
<1>5. OnlyDefaultWarehouse'
  BY DEF OnlyDefaultWarehouse, StockInv
<1>6. PICK R : R = {}
  OBVIOUS
<1> QED
  BY <1>2, <1>3, <1>4, <1>5, <1>6, StockAsks

LEMMA CreateStock ==
  ASSUME InventoryInv, StockInv, OrderlyStock', NEW d \in Desks, NEW m \in MovementRow,
         m.product \in Products, m.warehouse \in Warehouses, m.status = "PENDING",
         m.type # "TRANSFER" => m.dest = NoWarehouse, CreateMovement(d, m)
  PROVE  StockInv'
<1> DEFINE number == Numbering(m.type)
           after == stock'[<< m.product, m.warehouse >>].quantity
           n == [m EXCEPT !.number = number, !.after = after]
<1>1. /\ stock' = WithStock(<< m.product, m.warehouse >>) /\ UNCHANGED << warehouse, movement >>
      /\ stockCall' = [stockCall EXCEPT ![d] = [StockIdle EXCEPT !.op = "insert", !.movement = n]]
      /\ CreatableMovement(m)
  BY DEF CreateMovement, Handles
<1> HIDE DEF number, after
<1>2. /\ n.status = m.status /\ n.type = m.type /\ n.dest = m.dest
      /\ n.warehouse = m.warehouse /\ n.product = m.product
  BY DEF MovementRow
<1>3. PICK k : k = n
  OBVIOUS
<1> HIDE DEF n
<1>4. WayFits(k) /\ Source(k) \in Places /\ k.status = "PENDING"
  BY <1>1, <1>2, <1>3 DEF WayFits, CreatableMovement, Source, Places
<1>5. Source(k) = << m.product, m.warehouse >>
  BY <1>2, <1>3 DEF Source
<1> QED
  BY <1>1, <1>3, <1>4, <1>5, NewMovementAsks

LEMMA AdjustStocks ==
  ASSUME InventoryInv, StockInv, OrderlyStock', NEW d \in Desks, NEW p \in Products,
         NEW w \in Warehouses,
         \/ \E q \in Nat : AdjustStock(d, p, w, q)
         \/ AdjustNothing(d, p, w)
  PROVE  StockInv'
<1> DEFINE x == << p, w >>
<1>1. x \in Places
  BY DEF Places
<1>2. ASSUME NEW q \in Nat, AdjustStock(d, p, w, q) PROVE StockInv'
  <2> DEFINE before == WithStock(x)[x].quantity
             m == [ type |-> "ADJUSTMENT", status |-> "PENDING", product |-> p,
                    warehouse |-> w, dest |-> NoWarehouse,
                    quantity |-> IF q > before THEN q - before ELSE before - q,
                    after |-> q, number |-> Numbering("ADJUSTMENT"), order |-> NoOrder ]
  <2>1. /\ stock' = WithStock(x) /\ UNCHANGED << warehouse, movement >>
        /\ stockCall' = [stockCall EXCEPT ![d] = [StockIdle EXCEPT !.op = "adjust", !.movement = m]]
    BY <1>2 DEF AdjustStock, Handles
  <2>2. PICK k : k = m
    OBVIOUS
  <2>3. Source(k) = x /\ k.status = "PENDING" /\ WayFits(k)
    BY <2>2 DEF Source, WayFits
  <2> HIDE DEF m
  <2> QED
    BY <1>1, <2>1, <2>2, <2>3, NewMovementAsks
<1>3. CASE AdjustNothing(d, p, w)
  <2>1. PICK c : c = stockCall[d]
    OBVIOUS
  <2>2. stock' = WithStock(x) /\ UNCHANGED << warehouse, movement, stockCall >>
    BY <1>3 DEF AdjustNothing
  <2>3. RowsMade
    BY <1>1, <2>2, RowMade
  <2>4. stockCall' = [stockCall EXCEPT ![d] = c] /\ stockCall[d] = StockIdle
    BY <1>3, <2>1, <2>2 DEF AdjustNothing, InventoryInv, InventoryTypeOK
  <2>5. StockCall(c)'
    BY <2>1, <2>4, StockIdleTyped DEF StockCall
  <2>6. OnlyDefaultWarehouse'
    BY <2>2 DEF OnlyDefaultWarehouse, StockInv
  <2>7. PICK R : R = {}
    OBVIOUS
  <2> QED
    BY <2>2, <2>3, <2>4, <2>5, <2>6, <2>7, StockAsks
<1> QED
  BY <1>2, <1>3

LEMMA InsertStock ==
  ASSUME InventoryInv, StockInv, OrderlyStock', NEW d \in Desks, InsertMovement(d)
  PROVE  StockInv'
<1> DEFINE m == stockCall[d].movement
           checked == [StockIdle EXCEPT !.op = "check", !.id = Len(movement) + 1]
<1>1. /\ m \in MovementRow /\ movement' = Append(movement, m) /\ UNCHANGED << warehouse, stock >>
      /\ stockCall' \in {[stockCall EXCEPT ![d] = checked], [stockCall EXCEPT ![d] = StockIdle]}
      /\ m.status = "PENDING" /\ WayFits(m) /\ stock[Source(m)].exists
  BY DEF InsertMovement, InventoryInv, StockCallTyped, KnownMovement, Finish, StockInv, StockCall
<1> HIDE DEF m
<1>2. checked.op = "check"
  BY DEF StockIdle
<1> HIDE DEF checked
<1>3. PICK c \in {checked, StockIdle} : stockCall' = [stockCall EXCEPT ![d] = c]
  BY <1>1
<1>4. StockCall(c)'
  BY <1>2, <1>3, StockIdleTyped DEF StockCall
<1>5. /\ MovementIds' = MovementIds \cup {Len(movement) + 1} /\ Len(movement) + 1 \notin MovementIds
      /\ \A i \in MovementIds : movement'[i] = movement[i]
      /\ movement'[Len(movement) + 1] = m
  BY <1>1 DEF MovementIds, InventoryInv, InventoryTypeOK
<1>6. ApprovedMovements' = ApprovedMovements
  BY <1>1, <1>5 DEF ApprovedMovements
<1>7. \A x : MovedIn(x)' = MovedIn(x)
  BY <1>5, <1>6, MovedSame DEF ApprovedMovements
<1>8. StockAddsUp'
  BY <1>1, <1>5, <1>6, <1>7 DEF StockAddsUp, StockInv, ApprovedMovements
<1>9. MovementsFit'
  BY <1>1, <1>5 DEF MovementsFit, StockInv, WayFits, Source
<1>10. AbsentIsEmpty' /\ EmptyIsFlagged' /\ OnlyDefaultWarehouse'
  BY <1>1 DEF AbsentIsEmpty, EmptyIsFlagged, OnlyDefaultWarehouse, StockInv
<1>11. PICK R : R = {}
  OBVIOUS
<1>12. StockOnly(R)
  BY <1>1, <1>5 DEF StockOnly
<1> QED
  BY <1>3, <1>4, <1>8, <1>9, <1>10, <1>11, <1>12, StockStep

-----------------------------------------------------------------------------
(* approve, reject and update.                                             *)

LEMMA ApproveStock ==
  ASSUME InventoryInv, StockInv, OrderlyStock', NEW d \in Desks, NEW i \in MovementIds,
         movement[i].status = "PENDING", UNCHANGED inventory,
         stockCall' = [stockCall EXCEPT ![d] = Approving(i)]
  PROVE  StockInv'
<1> DEFINE c == Approving(i)
<1>1. c.op = "approve" /\ c.id = i /\ c.movement = [movement[i] EXCEPT !.status = "APPROVED"]
  BY DEF Approving, StockIdle
<1>2. stockCall' = [stockCall EXCEPT ![d] = c]
  OBVIOUS
<1>3. PICK k : k = c
  OBVIOUS
<1> HIDE DEF c
<1>4. StockCall(k)
  BY <1>1, <1>3 DEF StockCall
<1> QED
  BY <1>2, <1>3, <1>4, StockReads

LEMMA CheckStock ==
  ASSUME InventoryInv, StockInv, OrderlyStock', NEW d \in Desks, CheckAdjustment(d)
  PROVE  StockInv'
<1>1. stockCall[d].op = "check" /\ stockCall[d].id \in MovementIds
  BY DEF CheckAdjustment, InventoryInv, StockCallKnown
<1> QED
  BY <1>1, ApproveStock, StockFinishes DEF CheckAdjustment

LEMMA EditStock ==
  ASSUME InventoryInv, StockInv, OrderlyStock', NEW d \in Desks, NEW i \in MovementIds, NEW m,
         movement[i].status # "APPROVED", EditMovement(d, i, m)
  PROVE  StockInv'
<1> DEFINE c == [StockIdle EXCEPT !.op = "save", !.id = i, !.movement = m]
<1>1. c.op = "save" /\ c.id = i
  BY DEF StockIdle
<1>2. stockCall' = [stockCall EXCEPT ![d] = c] /\ UNCHANGED inventory
  BY DEF EditMovement, Handles
<1> HIDE DEF c
<1>3. StockCall(c)
  BY <1>1 DEF StockCall
<1> QED
  BY <1>2, <1>3, StockReads

LEMMA SaveStock ==
  ASSUME InventoryInv, StockInv, OrderlyStock', NEW d \in Desks, SaveMovement(d)
  PROVE  StockInv'
<1> DEFINE c == stockCall[d]
<1>1. /\ c.op = "save" /\ Finish(d) /\ UNCHANGED << warehouse, stock >>
      /\ movement' = [movement EXCEPT ![c.id] = c.movement]
  BY DEF SaveMovement
<1>2. /\ c.id \in MovementIds /\ SameGoods(c.movement, movement[c.id])
      /\ c.movement.status # "APPROVED" /\ movement[c.id].status # "APPROVED"
  BY <1>1 DEF InventoryInv, StockCallKnown, StockInv, StockCall, OrderlyStock
<1>3. /\ MovementIds' = MovementIds /\ movement'[c.id] = c.movement
      /\ \A i \in MovementIds \ {c.id} : movement'[i] = movement[i]
  BY <1>1, <1>2 DEF MovementIds, InventoryInv, InventoryTypeOK
<1>4. ApprovedMovements' = ApprovedMovements /\ \A i \in ApprovedMovements : movement'[i] = movement[i]
  BY <1>2, <1>3 DEF ApprovedMovements
<1>5. \A x : MovedIn(x)' = MovedIn(x)
  BY <1>4, MovedSame
<1>6. StockAddsUp'
  BY <1>1, <1>4, <1>5 DEF StockAddsUp, StockInv
<1>7. MovementsFit'
  <2>1. \A i \in MovementIds : /\ Source(movement'[i]) = Source(movement[i])
                               /\ WayFits(movement[i]) => WayFits(movement'[i])
    BY <1>2, <1>3 DEF Source, SameGoods, WayFits
  <2> QED
    BY <1>1, <1>3, <2>1 DEF MovementsFit, StockInv
<1>8. AbsentIsEmpty' /\ EmptyIsFlagged' /\ OnlyDefaultWarehouse'
  BY <1>1 DEF AbsentIsEmpty, EmptyIsFlagged, OnlyDefaultWarehouse, StockInv
<1>9. PICK R : R = {<< "movement", c.id >>}
  OBVIOUS
<1>10. StockOnly(R) /\ R \subseteq InventoryRows(stockCall[d])
  BY <1>1, <1>3, <1>9 DEF StockOnly, InventoryRows
<1>11. StockCall(StockIdle)'
  BY StockIdleTyped DEF StockCall
<1> HIDE DEF c
<1> QED
  BY <1>1, <1>6, <1>7, <1>8, <1>10, <1>11, StockStep DEF Finish

-----------------------------------------------------------------------------
(* approve: begin, reach the destination, commit.                           *)

LEMMA AfterKept ==
  ASSUME NEW row, Sound(row), NEW m, KnownMovement(m)
  PROVE  StockAfter(row, [m EXCEPT !.after = StockAfter(row, m).quantity]) = StockAfter(row, m)
<1> DEFINE q == StockAfter(row, m).quantity
           n == [m EXCEPT !.after = q]
<1>1. n.type = m.type /\ n.quantity = m.quantity /\ n.after = q /\ m.type \in MovementTypes
  BY DEF KnownMovement, MovementRow
<1>2. m.type = "ADJUSTMENT" => q = m.after
  BY DEF StockAfter, Sound, StockRow
<1> HIDE DEF q, n
<1>3. StockAfter(row, n) = StockAfter(row, m)
  BY <1>1, <1>2 DEF StockAfter, MovementTypes
<1> QED
  BY <1>3 DEF q, n

LEMMA BeginStock ==
  ASSUME InventoryInv, StockInv, OrderlyStock', NEW d \in Desks, BeginMovement(d)
  PROVE  StockInv'
<1> DEFINE c == stockCall[d]
           m == c.movement
           row == stock[Source(m)]
           n == stockCall'[d]
           saved == [m EXCEPT !.after = StockAfter(row, m).quantity]
<1>1. /\ c.op = "approve" /\ UNCHANGED inventory /\ c.id \in MovementIds
      /\ KnownMovement(m) /\ movement[c.id] \in MovementRow
      /\ movement[c.id].status = "PENDING" /\ m = [movement[c.id] EXCEPT !.status = "APPROVED"]
  BY DEF BeginMovement, InventoryInv, StockCallTyped, StockCallKnown, KnownMovement, StockInv, StockCall
<1>2. /\ n.op = IF m.type = "TRANSFER" THEN "reaching" ELSE "moving"
      /\ n.id = c.id /\ n.base = movement[c.id] /\ n.stockBase = row
      /\ n.stock = StockAfter(row, m)
      /\ m.type = "TRANSFER" => n.destBase = stock[Target(m)]
      /\ n.movement = saved
      /\ stockCall' = [stockCall EXCEPT ![d] = n]
  BY DEF BeginMovement, InventoryInv, InventoryTypeOK, StockCalls, Source, Target
<1>3. Sound(row)
  BY <1>1 DEF InventoryInv, KnownMovement, Source, Places
<1>4. StockAfter(row, saved) = StockAfter(row, m)
  BY <1>1, <1>3, AfterKept
<1>5. /\ saved.type = m.type /\ Source(saved) = Source(m) /\ Target(saved) = Target(m)
      /\ saved = [movement[c.id] EXCEPT !.status = "APPROVED", !.after = saved.after]
  BY <1>1 DEF KnownMovement, MovementRow, Source, Target
<1>6. PICK k : k = n
  OBVIOUS
<1> HIDE DEF n, saved, row
<1>7. StockCall(k)
  BY <1>1, <1>2, <1>4, <1>5, <1>6 DEF StockCall, row
<1> QED
  BY <1>1, <1>2, <1>6, <1>7, StockReads

LEMMA ReachStock ==
  ASSUME InventoryInv, StockInv, OrderlyStock', NEW d \in Desks, ReachDestination(d)
  PROVE  StockInv'
<1> DEFINE c == stockCall[d]
           m == c.movement
           x == Target(m)
           dest == [stock[x] EXCEPT !.quantity = @ + m.quantity, !.available = @ + m.quantity]
           next == [c EXCEPT !.op = "moving", !.dest = dest]
<1>1. /\ c.op = "reaching" /\ KnownMovement(m) /\ m.type = "TRANSFER" /\ StockCall(c)
      /\ stock' = WithStock(x) /\ UNCHANGED << warehouse, movement >>
  BY DEF ReachDestination, InventoryInv, StockCallTyped, StockInv, Target
<1>2. x \in Places
  BY <1>1 DEF KnownMovement, Places, Target
<1>3. RowsMade
  BY <1>1, <1>2, RowMade
<1>4. OnlyDefaultWarehouse'
  BY <1>1 DEF OnlyDefaultWarehouse, StockInv
<1>5. PICK R : R = {}
  OBVIOUS
<1>6. CASE ~c.destBase.exists
  <2>1. Finish(d)
    BY <1>6 DEF ReachDestination
  <2>2. StockCall(StockIdle)'
    BY StockIdleTyped DEF StockCall
  <2> QED
    BY <1>1, <1>3, <1>4, <1>5, <2>1, <2>2, StockAsks DEF Finish
<1>7. CASE c.destBase.exists
  <2>1. c.destBase = stock[x] /\ stock' = stock
    BY <1>1, <1>7 DEF StockCall, WithStock
  <2>2. /\ next.op = "moving" /\ next.id = c.id /\ next.movement = m /\ next.base = c.base
        /\ next.stockBase = c.stockBase /\ next.stock = c.stock /\ next.destBase = c.destBase
        /\ next.dest = Received(c.destBase, m.quantity)
        /\ stockCall' = [stockCall EXCEPT ![d] = next]
    <3>1. stockCall' = [stockCall EXCEPT ![d] = next]
      BY <1>7 DEF ReachDestination, Target
    <3>2. dest = Received(c.destBase, m.quantity)
      BY <2>1 DEF Received
    <3> HIDE DEF dest
    <3>3. c \in StockCalls
      BY DEF InventoryInv, InventoryTypeOK
    <3> QED
      BY <3>1, <3>2, <3>3 DEF StockCalls
  <2>3. PICK k : k = next
    OBVIOUS
  <2> HIDE DEF next
  <2>4. /\ movement[c.id].status = "PENDING" /\ c.base = movement[c.id]
        /\ m = [movement[c.id] EXCEPT !.status = "APPROVED", !.after = m.after]
        /\ c.stockBase = stock[Source(m)] /\ c.stock = StockAfter(c.stockBase, m)
    BY <1>1 DEF StockCall
  <2>5. /\ k.op = "moving" /\ k.id = c.id /\ k.movement = m /\ k.base = c.base
        /\ k.stockBase = c.stockBase /\ k.stock = c.stock /\ k.destBase = c.destBase
        /\ k.dest = Received(k.destBase, m.quantity)
    BY <2>2, <2>3
  <2>6. movement' = movement /\ stock' = stock /\ k.destBase.exists /\ k.destBase = stock[Target(m)]
    BY <1>1, <1>7, <2>1, <2>5
  <2> HIDE DEF c, m
  <2>7. StockCall(k)'
    BY <2>4, <2>5, <2>6 DEF StockCall
  <2> QED
    BY <1>1, <1>3, <1>4, <1>5, <2>2, <2>3, <2>7, StockAsks
<1> QED
  BY <1>6, <1>7

LEMMA AfterMove ==
  ASSUME NEW row, Sound(row), NEW m, KnownMovement(m)
  PROVE  /\ StockAfter(row, m).exists = row.exists
         /\ StockAfter(row, m).quantity = 0 => StockAfter(row, m).alert = "OUT_OF_STOCK"
         /\ m.type = "IN" => StockAfter(row, m).quantity = row.quantity + m.quantity
         /\ m.type \in {"OUT", "TRANSFER"} => StockAfter(row, m).quantity = row.quantity - m.quantity
<1>1. row \in StockRow /\ row.quantity \in Int /\ m.quantity \in Nat /\ m.type \in MovementTypes
  BY DEF Sound, StockRow, KnownMovement, MovementRow
<1>2. CASE m.type = "IN"
  <2>1. StockAfter(row, m) = Moved(row, m.quantity)
    BY <1>2 DEF StockAfter
  <2> QED
    BY <1>1, <1>2, <2>1 DEF Moved, StockRow, AlertOf
<1>3. CASE m.type \in {"OUT", "TRANSFER"}
  <2>1. StockAfter(row, m) = Moved(row, -m.quantity)
    BY <1>3 DEF StockAfter
  <2> QED
    BY <1>1, <1>3, <2>1 DEF Moved, StockRow, AlertOf
<1>4. CASE m.type = "ADJUSTMENT"
  BY <1>1, <1>4 DEF StockAfter, StockRow, AlertOf
<1> QED
  BY <1>1, <1>2, <1>3, <1>4 DEF MovementTypes

LEMMA MergedIsNew ==
  /\ \A row, new \in StockRow : Merged(row, new, row) = new
  /\ \A row, new \in MovementRow : Merged(row, new, row) = new
<1>1. ASSUME NEW row \in StockRow, NEW new \in StockRow PROVE Merged(row, new, row) = new
  BY DEF Merged, StockRow
<1>2. ASSUME NEW row \in MovementRow, NEW new \in MovementRow PROVE Merged(row, new, row) = new
  BY DEF Merged, MovementRow
<1> QED
  BY <1>1, <1>2

\* A commit: what was read is what is stored.
CommitsMovement(i, m) ==
  /\ i \in MovementIds /\ KnownMovement(m) /\ m.status = "APPROVED"
  /\ SameGoods(m, movement[i]) /\ WayFits(m) /\ stock[Source(m)].exists
  /\ movement[i].status = "PENDING" /\ movement' = [movement EXCEPT ![i] = m]
  /\ m.type = "TRANSFER" => stock[Target(m)].exists
  /\ \A x \in Places :
       stock'[x] = IF x = Source(m) THEN StockAfter(stock[x], m)
                   ELSE IF m.type = "TRANSFER" /\ x = Target(m)
                        THEN Received(stock[x], m.quantity)
                   ELSE stock[x]

LEMMA Committed ==
  ASSUME InventoryInv, StockInv, NEW d \in Desks, CommitMovement(d),
         NEW i, i = stockCall[d].id, NEW m, m = stockCall[d].movement
  PROVE  CommitsMovement(i, m)
<1> DEFINE c == stockCall[d]
<1>1. /\ c.op = "moving" /\ StockCallTyped(c) /\ StockCall(c) /\ i \in MovementIds
      /\ SameGoods(m, movement[i]) /\ KnownMovement(m) /\ KnownMovement(movement[i])
      /\ WayFits(movement[i]) /\ stock[Source(movement[i])].exists
  BY DEF CommitMovement, InventoryInv, StockInv, StockCallTyped, StockCallKnown, MovementsFit
<1>2. /\ movement[i].status = "PENDING" /\ c.base = movement[i]
      /\ m = [movement[i] EXCEPT !.status = "APPROVED", !.after = m.after]
      /\ c.stockBase = stock[Source(m)] /\ c.stock = StockAfter(c.stockBase, m)
      /\ m.type = "TRANSFER" =>
           /\ c.destBase.exists /\ c.destBase = stock[Target(m)]
           /\ c.dest = Received(c.destBase, m.quantity)
  BY <1>1 DEF StockCall
<1>3. m.status = "APPROVED" /\ WayFits(m) /\ Source(m) = Source(movement[i])
  BY <1>1, <1>2 DEF KnownMovement, MovementRow, WayFits, SameGoods, Source
<1>4. movement' = [movement EXCEPT ![i] = m]
  <2>1. Merged(c.base, m, movement[i]) = m
    BY <1>1, <1>2, MergedIsNew DEF KnownMovement
  <2> QED
    BY <2>1 DEF CommitMovement
<1>5. ASSUME NEW x \in Places
      PROVE  stock'[x] = IF x = Source(m) THEN StockAfter(stock[x], m)
                         ELSE IF m.type = "TRANSFER" /\ x = Target(m)
                              THEN Received(stock[x], m.quantity)
                         ELSE stock[x]
  <2>1. stock'[x] = IF x = Source(m) THEN Merged(c.stockBase, c.stock, stock[x])
                    ELSE IF m.type = "TRANSFER" /\ x = Target(m)
                         THEN Merged(c.destBase, c.dest, stock[x])
                    ELSE stock[x]
    BY DEF CommitMovement, Source, Target
  <2>2. stock[x] \in StockRow /\ c.stock \in StockRow /\ c.dest \in StockRow
    BY <1>1 DEF InventoryInv, Sound, StockCallTyped
  <2>3. x = Source(m) => Merged(c.stockBase, c.stock, stock[x]) = c.stock
    BY <1>2, <2>2, MergedIsNew
  <2>4. m.type = "TRANSFER" /\ x = Target(m) => Merged(c.destBase, c.dest, stock[x]) = c.dest
    BY <1>2, <2>2, MergedIsNew
  <2> HIDE DEF c
  <2> QED
    BY <1>2, <2>1, <2>3, <2>4
<1> QED
  BY <1>1, <1>2, <1>3, <1>4, <1>5 DEF CommitsMovement

LEMMA CommitStock ==
  ASSUME InventoryInv, StockInv, OrderlyStock', NEW d \in Desks, CommitMovement(d)
  PROVE  StockInv'
<1> DEFINE c == stockCall[d]
<1>1. PICK i, m : i = c.id /\ m = c.movement
  OBVIOUS
<1>2. /\ i \in MovementIds /\ KnownMovement(m) /\ m.status = "APPROVED"
      /\ SameGoods(m, movement[i]) /\ WayFits(m) /\ stock[Source(m)].exists
      /\ movement[i].status = "PENDING" /\ movement' = [movement EXCEPT ![i] = m]
      /\ m.type = "TRANSFER" => stock[Target(m)].exists
      /\ \A x \in Places :
           stock'[x] = IF x = Source(m) THEN StockAfter(stock[x], m)
                       ELSE IF m.type = "TRANSFER" /\ x = Target(m)
                            THEN Received(stock[x], m.quantity)
                       ELSE stock[x]
  BY <1>1, Committed DEF CommitsMovement
<1>3. c.op = "moving" /\ Finish(d) /\ UNCHANGED warehouse
  BY DEF CommitMovement
<1>4. /\ MovementIds' = MovementIds /\ movement'[i] = m
      /\ \A j \in MovementIds \ {i} : movement'[j] = movement[j]
  BY <1>2 DEF MovementIds, InventoryInv, InventoryTypeOK
<1>5. m \in MovementRow /\ m.quantity \in Nat /\ m.product \in Products /\ m.warehouse \in Warehouses
      /\ m.type \in MovementTypes /\ (m.type = "TRANSFER" => m.dest \in Warehouses)
  BY <1>2 DEF KnownMovement, MovementRow
<1>6. ASSUME NEW x \in Places
      PROVE  /\ stock'[x].exists = stock[x].exists
             /\ x # Source(m) /\ (m.type = "TRANSFER" => x # Target(m)) => stock'[x] = stock[x]
             /\ stock'[x].quantity = 0 => stock'[x].alert = "OUT_OF_STOCK"
             /\ m.type # "ADJUSTMENT" =>
                  stock'[x].quantity = stock[x].quantity + (IF Adds(m, x) THEN m.quantity ELSE 0)
                                                         - (IF Removes(m, x) THEN m.quantity ELSE 0)
  <2>1. Sound(stock[x]) /\ stock[x] \in StockRow /\ stock[x].quantity \in Nat
    BY DEF InventoryInv, Sound, StockRow
  <2>2. stock[x].quantity = 0 => stock[x].alert = "OUT_OF_STOCK"
    BY DEF StockInv, EmptyIsFlagged
  <2>3. x[1] \in Products /\ x[2] \in Warehouses /\ x = << x[1], x[2] >>
    BY DEF Places
  <2>4. CASE x = Source(m)
    <3>1. stock'[x] = StockAfter(stock[x], m)
      BY <1>2, <2>4
    <3>2. x[1] = m.product /\ x[2] = m.warehouse
      BY <2>4 DEF Source
    <3>3. m.type = "TRANSFER" => x[2] # m.dest
      BY <1>2, <3>2 DEF WayFits
    <3>4. m.type = "IN" => Adds(m, x) /\ ~Removes(m, x)
      BY <3>2 DEF Adds, Removes
    <3>5. m.type \in {"OUT", "TRANSFER"} => ~Adds(m, x) /\ Removes(m, x)
      BY <3>2, <3>3 DEF Adds, Removes
    <3>6. /\ stock'[x].exists = stock[x].exists
          /\ stock'[x].quantity = 0 => stock'[x].alert = "OUT_OF_STOCK"
          /\ m.type = "IN" => stock'[x].quantity = stock[x].quantity + m.quantity
          /\ m.type \in {"OUT", "TRANSFER"} => stock'[x].quantity = stock[x].quantity - m.quantity
      BY <1>2, <2>1, <3>1, AfterMove
    <3> QED
      BY <1>5, <2>1, <2>4, <3>4, <3>5, <3>6 DEF MovementTypes
  <2>5. CASE x # Source(m) /\ m.type = "TRANSFER" /\ x = Target(m)
    <3>1. stock'[x] = Received(stock[x], m.quantity)
      BY <1>2, <2>5
    <3>2. Adds(m, x) /\ ~Removes(m, x)
      BY <1>2, <2>5 DEF Target, Adds, Removes, WayFits
    <3>3. /\ stock'[x].exists = stock[x].exists /\ stock'[x].alert = stock[x].alert
          /\ stock'[x].quantity = stock[x].quantity + m.quantity
      BY <2>1, <3>1 DEF StockRow, Received
    <3> QED
      BY <1>5, <2>1, <2>2, <2>5, <3>2, <3>3
  <2>6. CASE x # Source(m) /\ ~(m.type = "TRANSFER" /\ x = Target(m))
    <3>1. stock'[x] = stock[x]
      BY <1>2, <2>6
    <3>2. ~(x[1] = m.product /\ x[2] = m.warehouse)
      BY <2>3, <2>6 DEF Source
    <3>3. ~(m.type = "TRANSFER" /\ x[1] = m.product /\ x[2] = m.dest)
      BY <2>3, <2>6 DEF Target
    <3>4. ~Adds(m, x) /\ ~Removes(m, x)
      BY <3>2, <3>3 DEF Adds, Removes
    <3> QED
      BY <2>1, <2>2, <2>6, <3>1, <3>4
  <2> QED
    BY <2>4, <2>5, <2>6
<1>7. \A x : MovedIn(x)' = MovedIn(x) + (IF Adds(m, x) THEN m.quantity ELSE 0)
                                      - (IF Removes(m, x) THEN m.quantity ELSE 0)
  BY <1>2, <1>5, MovedOne
<1>8. StockAddsUp'
  <2> SUFFICES ASSUME (\A j \in ApprovedMovements : movement[j].type # "ADJUSTMENT")'
               PROVE  (\A x \in Places : stock[x].quantity = InitialStock[x] + MovedIn(x))'
    BY DEF StockAddsUp
  <2> SUFFICES ASSUME NEW x \in Places
               PROVE  stock'[x].quantity = InitialStock[x] + MovedIn(x)'
    OBVIOUS
  <2>1. m.type # "ADJUSTMENT"
    BY <1>2, <1>4 DEF ApprovedMovements
  <2>2. \A j \in ApprovedMovements : movement[j].type # "ADJUSTMENT"
    BY <1>2, <1>4 DEF ApprovedMovements
  <2>3. stock[x].quantity = InitialStock[x] + MovedIn(x)
    BY <2>2 DEF StockInv, StockAddsUp
  <2>4. stock[x].quantity \in Int /\ MovedIn(x) \in Int /\ InitialStock[x] \in Int
    BY ApprovedMovesFinite, InventoryAssumption DEF InventoryInv, Sound, StockRow
  <2> DEFINE plus == IF Adds(m, x) THEN m.quantity ELSE 0
             minus == IF Removes(m, x) THEN m.quantity ELSE 0
  <2>5. plus \in Int /\ minus \in Int
    BY <1>5
  <2>6. stock'[x].quantity = stock[x].quantity + plus - minus
    BY <1>6, <2>1
  <2>7. MovedIn(x)' = MovedIn(x) + plus - minus
    BY <1>7
  <2> HIDE DEF plus, minus
  <2> QED
    BY <2>3, <2>4, <2>5, <2>6, <2>7
<1>9. EmptyIsFlagged'
  BY <1>6 DEF EmptyIsFlagged
<1>10. AbsentIsEmpty'
  <2> SUFFICES ASSUME NEW x \in Places, ~stock'[x].exists PROVE stock'[x].quantity = 0
    BY DEF AbsentIsEmpty
  <2>1. stock'[x] = stock[x]
    BY <1>2, <1>6
  <2> QED
    BY <2>1 DEF StockInv, AbsentIsEmpty
<1>11. MovementsFit'
  <2>1. \A j \in MovementIds : /\ Source(movement'[j]) = Source(movement[j])
                               /\ WayFits(movement[j]) => WayFits(movement'[j])
    BY <1>2, <1>4 DEF Source, SameGoods, WayFits
  <2>2. \A j \in MovementIds : Source(movement[j]) \in Places
    BY DEF InventoryInv, KnownMovement, Source, Places
  <2>3. \A j \in MovementIds : stock'[Source(movement[j])].exists
    BY <1>6, <2>2 DEF MovementsFit, StockInv
  <2>4. \A j \in MovementIds : WayFits(movement'[j]) /\ stock'[Source(movement'[j])].exists
    BY <2>1, <2>3 DEF MovementsFit, StockInv
  <2> QED
    BY <1>4, <2>4 DEF MovementsFit, WayFits, Source
<1>12. OnlyDefaultWarehouse'
  BY <1>3 DEF OnlyDefaultWarehouse, StockInv
<1>13. PICK R : R = InventoryRows(c)
  OBVIOUS
<1>14. StockOnly(R) /\ R \subseteq InventoryRows(stockCall[d])
  <2>1. << "movement", i >> \in R /\ Source(m) \in R /\ (m.type = "TRANSFER" => Target(m) \in R)
    BY <1>1, <1>3, <1>5, <1>13, InventoryAssumption DEF InventoryRows, Source, Target
  <2> QED
    BY <1>3, <1>4, <1>6, <1>13, <2>1 DEF StockOnly
<1>15. StockCall(StockIdle)'
  BY StockIdleTyped DEF StockCall
<1> HIDE DEF c
<1> QED
  BY <1>3, <1>8, <1>9, <1>10, <1>11, <1>12, <1>14, <1>15, StockStep DEF Finish

-----------------------------------------------------------------------------
(* Warehouses.                                                             *)

LEMMA FlagsCleared ==
  ASSUME InventoryInv, NEW others
  PROVE  \A w \in Warehouses :
           /\ NoLongerDefault(others)[w].default => warehouse[w].default /\ w \notin others
           /\ w \notin others => NoLongerDefault(others)[w] = warehouse[w]
  BY DEF NoLongerDefault, InventoryInv, InventoryTypeOK, WarehouseRow

LEMMA OpenWarehouseStock ==
  ASSUME InventoryInv, StockInv, OrderlyStock', NEW d \in Desks, NEW w \in Warehouses,
         NEW default \in BOOLEAN, OpenWarehouse(d, w, default)
  PROVE  StockInv'
<1> DEFINE row == [ exists |-> TRUE, active |-> TRUE, default |-> default ]
           c == [StockIdle EXCEPT !.op = "openWarehouse", !.warehouse = w, !.row = row]
           R == IF default THEN Warehouses ELSE {}
<1>1. c.op = "openWarehouse" /\ c.row = row /\ row.default = default
  BY DEF StockIdle
<1>2. /\ stockCall' = [stockCall EXCEPT ![d] = c] /\ UNCHANGED << stock, movement >>
      /\ warehouse' = IF default THEN NoLongerDefault(Warehouses) ELSE warehouse
  BY DEF OpenWarehouse, Handles
<1> HIDE DEF c, row
<1>3. R \subseteq InventoryRows(c)
  BY <1>1 DEF InventoryRows
<1>4. \A v \in Warehouses : /\ warehouse'[v].default => warehouse[v].default /\ ~default
                            /\ v \notin R => warehouse'[v] = warehouse[v]
  BY <1>2, FlagsCleared
<1>5. StockCall(c)'
  BY <1>1, <1>4 DEF StockCall
<1>6. OnlyDefaultWarehouse'
  BY <1>4 DEF OnlyDefaultWarehouse, StockInv
<1>7. RowsMade
  BY <1>2 DEF RowsMade
<1> HIDE DEF R
<1> QED
  BY <1>2, <1>3, <1>4, <1>5, <1>6, <1>7, StockAsks

LEMMA InsertWarehouseStock ==
  ASSUME InventoryInv, StockInv, OrderlyStock', NEW d \in Desks, InsertWarehouse(d)
  PROVE  StockInv'
<1> DEFINE c == stockCall[d]
<1>1. /\ c.op = "openWarehouse" /\ Finish(d) /\ UNCHANGED << stock, movement >>
      /\ warehouse' \in {warehouse, [warehouse EXCEPT ![c.warehouse] = c.row]}
      /\ c.warehouse \in Warehouses
      /\ c.row.default => \A w \in Warehouses : ~warehouse[w].default
  BY DEF InsertWarehouse, InventoryInv, StockCallTyped, StockInv, StockCall
<1>2. PICK R : R = {c.warehouse}
  OBVIOUS
<1>3. R \subseteq InventoryRows(stockCall[d]) /\ \A w \in Warehouses \ {c.warehouse} : warehouse'[w] = warehouse[w]
  BY <1>1, <1>2 DEF InventoryRows, InventoryInv, InventoryTypeOK
<1>4. warehouse'[c.warehouse] = warehouse[c.warehouse] \/ warehouse'[c.warehouse] = c.row
  BY <1>1 DEF InventoryInv, InventoryTypeOK
<1>5. OnlyDefaultWarehouse'
  BY <1>1, <1>3, <1>4 DEF OnlyDefaultWarehouse, StockInv
<1>6. RowsMade /\ StockCall(StockIdle)'
  BY <1>1, StockIdleTyped DEF RowsMade, StockCall
<1>7. \A w \in Warehouses : w \notin R => warehouse'[w] = warehouse[w]
  BY <1>2, <1>3
<1> HIDE DEF c
<1> QED
  BY <1>1, <1>3, <1>5, <1>6, <1>7, StockAsks DEF Finish

LEMMA ChangeWarehouseStock ==
  ASSUME InventoryInv, StockInv, OrderlyStock', NEW d \in Desks, NEW w \in Warehouses,
         NEW active \in BOOLEAN, NEW isDefault \in {"yes", "no", "keep"},
         ChangeWarehouse(d, w, active, isDefault)
  PROVE  StockInv'
<1> DEFINE default == isDefault = "yes" \/ (isDefault = "keep" /\ warehouse[w].default)
           row == [warehouse[w] EXCEPT !.active = active, !.default = default]
           op == IF isDefault = "yes" THEN "changeWarehouse" ELSE "storeWarehouse"
           c == [StockIdle EXCEPT !.op = op, !.warehouse = w, !.row = row]
<1>1. /\ stockCall' = [stockCall EXCEPT ![d] = c] /\ UNCHANGED inventory
  BY DEF ChangeWarehouse, Handles, InventoryInv, InventoryTypeOK, WarehouseRow
<1>2. row.default = default
  <2>1. warehouse[w] \in WarehouseRow
    BY DEF InventoryInv, InventoryTypeOK
  <2> HIDE DEF default
  <2> QED
    BY <2>1 DEF WarehouseRow
<1>3. op = "storeWarehouse" /\ default => \A v \in Warehouses \ {w} : ~warehouse[v].default
  BY DEF StockInv, OnlyDefaultWarehouse
<1>4. op \in {"changeWarehouse", "storeWarehouse"}
  OBVIOUS
<1> HIDE DEF row, op, default
<1>5. c.op = op /\ c.warehouse = w /\ c.row = row
  BY DEF StockIdle
<1> HIDE DEF c
<1>6. StockCall(c)
  BY <1>2, <1>3, <1>4, <1>5 DEF StockCall
<1> QED
  BY <1>1, <1>6, StockReads

LEMMA ClearWarehouseStock ==
  ASSUME InventoryInv, StockInv, OrderlyStock', NEW d \in Desks, ClearOtherWarehouses(d)
  PROVE  StockInv'
<1> DEFINE c == stockCall[d]
           n == [c EXCEPT !.op = "storeWarehouse"]
<1>1. /\ c.op = "changeWarehouse" /\ UNCHANGED << stock, movement >>
      /\ warehouse' = NoLongerDefault(Warehouses \ {c.warehouse})
      /\ stockCall' = [stockCall EXCEPT ![d] = n]
      /\ n.op = "storeWarehouse" /\ n.warehouse = c.warehouse /\ n.row = c.row
  BY DEF ClearOtherWarehouses, InventoryInv, InventoryTypeOK, StockCalls
<1>2. \A w \in Warehouses : warehouse'[w].default => w = c.warehouse
  BY <1>1, FlagsCleared
<1>3. PICK m, R : m = n /\ R = Warehouses
  OBVIOUS
<1>4. StockCall(m)'
  BY <1>1, <1>2, <1>3 DEF StockCall
<1>5. R \subseteq InventoryRows(stockCall[d]) /\ \A w \in Warehouses : w \notin R => warehouse'[w] = warehouse[w]
  BY <1>1, <1>3 DEF InventoryRows
<1>6. OnlyDefaultWarehouse' /\ RowsMade
  BY <1>1, <1>2 DEF OnlyDefaultWarehouse, RowsMade
<1> HIDE DEF c, n
<1> QED
  BY <1>1, <1>3, <1>4, <1>5, <1>6, StockAsks

LEMMA StoreWarehouseStock ==
  ASSUME InventoryInv, StockInv, OrderlyStock', NEW d \in Desks, StoreWarehouse(d)
  PROVE  StockInv'
<1> DEFINE c == stockCall[d]
<1>1. /\ c.op = "storeWarehouse" /\ Finish(d) /\ UNCHANGED << stock, movement >>
      /\ warehouse' = [warehouse EXCEPT ![c.warehouse] = c.row]
      /\ c.warehouse \in Warehouses
      /\ c.row.default => \A w \in Warehouses \ {c.warehouse} : ~warehouse[w].default
  BY DEF StoreWarehouse, InventoryInv, StockCallTyped, StockInv, StockCall
<1>2. PICK R : R = {c.warehouse}
  OBVIOUS
<1>3. /\ R \subseteq InventoryRows(stockCall[d]) /\ warehouse'[c.warehouse] = c.row
      /\ \A w \in Warehouses \ {c.warehouse} : warehouse'[w] = warehouse[w]
  BY <1>1, <1>2 DEF InventoryRows, InventoryInv, InventoryTypeOK
<1>4. OnlyDefaultWarehouse'
  BY <1>1, <1>3 DEF OnlyDefaultWarehouse, StockInv
<1>5. RowsMade /\ StockCall(StockIdle)'
  BY <1>1, StockIdleTyped DEF RowsMade, StockCall
<1>6. \A w \in Warehouses : w \notin R => warehouse'[w] = warehouse[w]
  BY <1>2, <1>3
<1> HIDE DEF c
<1> QED
  BY <1>1, <1>3, <1>4, <1>5, <1>6, StockAsks DEF Finish

LEMMA RemoveWarehouseStock ==
  ASSUME InventoryInv, StockInv, OrderlyStock', NEW d \in Desks, NEW w, RemoveWarehouse(d, w)
  PROVE  StockInv'
<1> DEFINE c == [StockIdle EXCEPT !.op = "removeWarehouse", !.warehouse = w]
<1>1. c.op = "removeWarehouse"
  BY DEF StockIdle
<1>2. stockCall' = [stockCall EXCEPT ![d] = c] /\ UNCHANGED inventory
  BY DEF RemoveWarehouse, Handles
<1> HIDE DEF c
<1>3. StockCall(c)
  BY <1>1 DEF StockCall
<1> QED
  BY <1>2, <1>3, StockReads

LEMMA DeleteWarehouseStock ==
  ASSUME InventoryInv, StockInv, OrderlyStock', NEW d \in Desks, DeleteWarehouse(d)
  PROVE  StockInv'
<1> DEFINE v == stockCall[d].warehouse
<1>1. /\ stockCall[d].op = "removeWarehouse" /\ Finish(d) /\ UNCHANGED << stock, movement >>
      /\ warehouse' \in {warehouse, [warehouse EXCEPT ![v] = NoWarehouseRow]}
      /\ v \in Warehouses
  BY DEF DeleteWarehouse, InventoryInv, StockCallTyped
<1>2. PICK R : R = {v}
  OBVIOUS
<1>3. R \subseteq InventoryRows(stockCall[d]) /\ \A w \in Warehouses \ {v} : warehouse'[w] = warehouse[w]
  BY <1>1, <1>2 DEF InventoryRows, InventoryInv, InventoryTypeOK
<1>4. \A w \in Warehouses : warehouse'[w].default => warehouse[w].default
  BY <1>1 DEF NoWarehouseRow, InventoryInv, InventoryTypeOK
<1>5. OnlyDefaultWarehouse'
  BY <1>4 DEF OnlyDefaultWarehouse, StockInv
<1>6. RowsMade /\ StockCall(StockIdle)'
  BY <1>1, StockIdleTyped DEF RowsMade, StockCall
<1>7. \A w \in Warehouses : w \notin R => warehouse'[w] = warehouse[w]
  BY <1>2, <1>3
<1> HIDE DEF v
<1> QED
  BY <1>1, <1>3, <1>5, <1>6, <1>7, StockAsks DEF Finish

-----------------------------------------------------------------------------
\* A movement as it is created.
Creates(m) ==
  /\ m \in MovementRow /\ m.product \in Products /\ m.warehouse \in Warehouses
  /\ m.status = "PENDING" /\ (m.type # "TRANSFER" => m.dest = NoWarehouse)

\* What a step does with the warehouses.
UsesInventory(d) ==
  \/ UNCHANGED inventoryVars
  \/ InventoryStep(d)
  \/ InventoryRequest(d)
  \/ \E m \in MovementRow : Creates(m) /\ CreateMovement(d, m)
  \/ \E i \in MovementIds : ApproveMovement(d, i)

LEMMA StepUsesInventory ==
  ASSUME AccountingInv, NEW d \in Desks,
         Event(d) \/ AccountantAsks(d) \/ StorekeeperAsks(d) \/ BookingStep(d) \/ StaffStep(d)
  PROVE  UsesInventory(d)
<1>1. CASE Event(d) \/ AccountantAsks(d) \/ StorekeeperAsks(d) \/ StaffStep(d)
  BY <1>1 DEF Event, OrderPaid, ProductEvent, AccountantAsks, StorekeeperAsks, StaffStep,
     UsesInventory
<1>2. CASE FindAccount(d) \/ RecordIncome(d) \/ IncomeRecorded(d) \/ RecordCharge(d)
             \/ ChargeRecorded(d) \/ ApproveIncome(d) \/ IncomeApproved(d) \/ FindWarehouse(d)
             \/ AllMoved(d) \/ LookupFails(d) \/ LedgerFails(d)
  BY <1>2 DEF FindAccount, RecordIncome, IncomeRecorded, RecordCharge, ChargeRecorded,
     ApproveIncome, IncomeApproved, FindWarehouse, AllMoved, LookupFails, LedgerFails, UsesInventory
<1>3. CASE ItemMoves(d) \/ InventoryFails(d)
  BY <1>3 DEF ItemMoves, InventoryFails, InventoryStep, UsesInventory
<1>4. CASE MoveItem(d)
  <2>1. /\ NextMovement(booking[d]) \in MovementRow
        /\ NextMovement(booking[d]).product \in Products
        /\ NextMovement(booking[d]).warehouse \in Warehouses
    BY <1>4, NextMovementTyped DEF MoveItem, Turn, AccountingInv, BookingInv
  <2>2. Creates(NextMovement(booking[d]))
    BY <2>1 DEF Creates, NextMovement
  <2> QED
    BY <1>4, <2>1, <2>2 DEF MoveItem, UsesInventory
<1>5. CASE ShipItem(d)
  BY <1>5 DEF ShipItem, ApproveMovement, InventoryStep, UsesInventory
<1> QED
  BY <1>1, <1>2, <1>3, <1>4, <1>5 DEF BookingStep

LEMMA ApproveMovementStock ==
  ASSUME InventoryInv, StockInv, OrderlyStock', NEW d \in Desks, NEW i \in MovementIds,
         ApproveMovement(d, i)
  PROVE  StockInv'
  BY ApproveStock DEF ApproveMovement, Handles

LEMMA StepStock ==
  ASSUME InventoryInv, StockInv, OrderlyStock', NEW d \in Desks, InventoryStep(d)
  PROVE  StockInv'
<1>1. CASE MovementRefused(d) \/ InsufficientStock(d) \/ RollbackMovement(d)
  BY <1>1, StockFinishes DEF MovementRefused, InsufficientStock, RollbackMovement
<1>2. CASE InsertMovement(d) \/ CheckAdjustment(d) \/ BeginMovement(d) \/ ReachDestination(d)
             \/ CommitMovement(d) \/ SaveMovement(d)
  BY <1>2, InsertStock, CheckStock, BeginStock, ReachStock, CommitStock, SaveStock
<1>3. CASE InsertWarehouse(d) \/ ClearOtherWarehouses(d) \/ StoreWarehouse(d) \/ DeleteWarehouse(d)
  BY <1>3, InsertWarehouseStock, ClearWarehouseStock, StoreWarehouseStock, DeleteWarehouseStock
<1> QED
  BY <1>1, <1>2, <1>3 DEF InventoryStep

LEMMA RequestStock ==
  ASSUME InventoryInv, StockInv, OrderlyStock', NEW d \in Desks, InventoryRequest(d)
  PROVE  StockInv'
<1>1. ASSUME NEW m \in NewMovements, CreateMovement(d, m) PROVE StockInv'
  <2>1. /\ m \in MovementRow /\ m.product \in Products /\ m.warehouse \in Warehouses
        /\ m.status = "PENDING" /\ (m.type # "TRANSFER" => m.dest = NoWarehouse)
    <3>1. /\ m.product \in Products /\ m.warehouse \in Warehouses /\ m.status = "PENDING"
          /\ m.quantity \in Nat /\ m.after = 0 /\ m.number = 0
      BY InventoryAssumption DEF NewMovements
    <3>2. m \in MovementRow
      BY <3>1 DEF NewMovements, MovementRow, MovementStatus
    <3>3. m.type # "TRANSFER" => m.dest = NoWarehouse
      BY DEF NewMovements
    <3> QED
      BY <3>1, <3>2, <3>3
  <2> QED
    BY <1>1, <2>1, CreateStock
<1>2. ASSUME NEW p \in Products, NEW w \in Warehouses,
             (\E q \in Quantities \cup {0} : AdjustStock(d, p, w, q)) \/ AdjustNothing(d, p, w)
      PROVE  StockInv'
  <2>1. Quantities \cup {0} \subseteq Nat
    BY InventoryAssumption
  <2> QED
    BY <1>2, <2>1, AdjustStocks
<1>3. ASSUME NEW i \in MovementIds, ApproveMovement(d, i) PROVE StockInv'
  BY <1>3, ApproveMovementStock
<1>4. ASSUME NEW i \in MovementIds, RejectMovement(d, i) PROVE StockInv'
  BY <1>4, EditStock DEF RejectMovement
<1>5. ASSUME NEW i \in MovementIds, NEW status \in MovementStatus, NEW q \in Quantities,
             UpdateMovement(d, i, status, q)
      PROVE  StockInv'
  BY <1>5, EditStock DEF UpdateMovement
<1>6. ASSUME NEW w \in Warehouses, NEW default \in BOOLEAN, OpenWarehouse(d, w, default)
      PROVE  StockInv'
  BY <1>6, OpenWarehouseStock
<1>7. ASSUME NEW w \in Warehouses, NEW active \in BOOLEAN, NEW isDefault \in {"yes", "no", "keep"},
             ChangeWarehouse(d, w, active, isDefault)
      PROVE  StockInv'
  BY <1>7, ChangeWarehouseStock
<1>8. ASSUME NEW w \in Warehouses, RemoveWarehouse(d, w) PROVE StockInv'
  BY <1>8, RemoveWarehouseStock
<1> QED
  BY <1>1, <1>2, <1>3, <1>4, <1>5, <1>6, <1>7, <1>8 DEF InventoryRequest

LEMMA StockStays ==
  ASSUME StockInv, UNCHANGED inventoryVars
  PROVE  StockInv'
<1>1. movement' = movement /\ stock' = stock /\ warehouse' = warehouse /\ stockCall' = stockCall
  BY DEF inventoryVars
<1>2. ApprovedMovements' = ApprovedMovements /\ MovementIds' = MovementIds
  BY <1>1 DEF ApprovedMovements, MovementIds
<1>3. \A x : MovedIn(x)' = MovedIn(x)
  BY <1>1, <1>2, MovedSame
<1>4. StockAddsUp'
  BY <1>1, <1>2, <1>3 DEF StockInv, StockAddsUp
<1>5. /\ OrderlyStock' /\ MovementsFit' /\ AbsentIsEmpty' /\ EmptyIsFlagged'
      /\ OnlyDefaultWarehouse'
  BY <1>1, <1>2
  DEF StockInv, OrderlyStock, MovementsFit, AbsentIsEmpty, EmptyIsFlagged, OnlyDefaultWarehouse
<1>6. \A d \in Desks : StockCall(stockCall[d])'
  BY <1>1 DEF StockInv, StockCall
<1> QED
  BY <1>4, <1>5, <1>6 DEF StockInv

LEMMA UseStock ==
  ASSUME InventoryInv, StockInv, OrderlyStock', NEW d \in Desks, UsesInventory(d)
  PROVE  StockInv'
<1>1. CASE UNCHANGED inventoryVars
  BY <1>1, StockStays
<1>2. CASE InventoryStep(d) \/ InventoryRequest(d)
  BY <1>2, StepStock, RequestStock
<1>3. ASSUME NEW m \in MovementRow, Creates(m), CreateMovement(d, m) PROVE StockInv'
  BY <1>3, CreateStock DEF Creates
<1>4. ASSUME NEW i \in MovementIds, ApproveMovement(d, i) PROVE StockInv'
  BY <1>4, ApproveMovementStock
<1> QED
  BY <1>1, <1>2, <1>3, <1>4 DEF UsesInventory

LEMMA UseKeepsMoved ==
  ASSUME InventoryInv, StockInv, NEW d \in Desks, UsesInventory(d), NEW i \in ApprovedMovements
  PROVE  movement'[i].status = "APPROVED"
<1>1. i \in MovementIds /\ movement[i].status = "APPROVED"
  BY DEF ApprovedMovements
<1>2. CASE movement' = movement
  BY <1>1, <1>2
<1>3. CASE InsertMovement(d)
  <2>1. movement'[i] = movement[i]
    BY <1>1, <1>3
    DEF InsertMovement, MovementIds, InventoryInv, InventoryTypeOK, StockCallTyped, KnownMovement
  <2> QED
    BY <1>1, <2>1
<1>4. CASE SaveMovement(d) \/ CommitMovement(d)
  <2> DEFINE c == stockCall[d]
  <2>1. /\ c.id \in MovementIds /\ movement[c.id].status # "APPROVED"
        /\ \E m : movement' = [movement EXCEPT ![c.id] = m]
    BY <1>4 DEF SaveMovement, CommitMovement, InventoryInv, StockCallKnown, StockInv, StockCall
  <2>2. movement'[i] = movement[i]
    BY <1>1, <2>1 DEF MovementIds, InventoryInv, InventoryTypeOK
  <2> QED
    BY <1>1, <2>2
<1>5. InventoryRequest(d) => movement' = movement
  BY DEF InventoryRequest, CreateMovement, AdjustStock, AdjustNothing, ApproveMovement, RejectMovement,
     UpdateMovement, OpenWarehouse, ChangeWarehouse, RemoveWarehouse, EditMovement, inventory
<1>6. /\ ~InsertMovement(d) /\ ~SaveMovement(d) /\ ~CommitMovement(d) /\ InventoryStep(d)
      => movement' = movement
  BY DEF InventoryStep, MovementRefused, CheckAdjustment, BeginMovement, InsufficientStock,
     ReachDestination, RollbackMovement, InsertWarehouse, ClearOtherWarehouses, StoreWarehouse,
     DeleteWarehouse, inventory
<1>7. \/ \E m \in MovementRow : CreateMovement(d, m)
      \/ \E j \in MovementIds : ApproveMovement(d, j)
      \/ UNCHANGED inventoryVars
      => movement' = movement
  BY DEF CreateMovement, ApproveMovement, inventory, inventoryVars
<1> QED
  BY <1>2, <1>3, <1>4, <1>5, <1>6, <1>7 DEF UsesInventory

LEMMA InitStock ==
  ASSUME InventoryInit
  PROVE  StockInv
<1>1. movement = << >> /\ MovementIds = {} /\ \A d \in Desks : stockCall[d] = StockIdle
  BY DEF InventoryInit, MovementIds
<1>2. InventoryRows(StockIdle) = {} /\ StockCall(StockIdle)
  BY StockIdleTyped DEF InventoryRows, StockCall
<1>3. OrderlyStock
  BY <1>1, <1>2, StockIdleTyped DEF OrderlyStock
<1>4. ASSUME NEW x \in Places
      PROVE  /\ stock[x].quantity = InitialStock[x] /\ InitialStock[x] \in Nat
             /\ ~stock[x].exists => stock[x].quantity = 0
             /\ stock[x].quantity = 0 => stock[x].alert = "OUT_OF_STOCK"
  <2>1. stock[x] = IF InitialStock[x] = 0 THEN NoStock ELSE Moved(EmptyStock, InitialStock[x])
    BY DEF InventoryInit
  <2>2. InitialStock[x] \in Nat
    BY InventoryAssumption
  <2>3. CASE InitialStock[x] = 0
    BY <2>1, <2>3 DEF NoStock
  <2>4. CASE InitialStock[x] # 0
    <3>1. stock[x].quantity = InitialStock[x] /\ stock[x].exists
      BY <2>1, <2>2, <2>4 DEF Moved, EmptyStock
    <3> QED
      BY <2>2, <2>4, <3>1
  <2> QED
    BY <2>3, <2>4
<1>5. \A x : MovedIn(x) = 0
  <2>1. \A x : Arrivals(x) = {} /\ Departures(x) = {}
    BY <1>1 DEF Arrivals, Departures, ApprovedMovements
  <2> QED
    BY <2>1, SumOfNone DEF MovedIn
<1>6. StockAddsUp
  BY <1>4, <1>5 DEF StockAddsUp
<1>7. AbsentIsEmpty /\ EmptyIsFlagged
  BY <1>4 DEF AbsentIsEmpty, EmptyIsFlagged
<1>8. OnlyDefaultWarehouse
  <2>1. PICK default \in Built :
          warehouse = [w \in Warehouses |->
                         IF w \in Built
                         THEN [ exists |-> TRUE, active |-> TRUE, default |-> w = default ]
                         ELSE NoWarehouseRow]
    BY DEF InventoryInit
  <2>2. \A w \in Warehouses : warehouse[w].default => w = default
    BY <2>1 DEF NoWarehouseRow
  <2> QED
    BY <2>2 DEF OnlyDefaultWarehouse
<1>9. MovementsFit
  BY <1>1 DEF MovementsFit
<1> QED
  BY <1>1, <1>2, <1>3, <1>6, <1>7, <1>8, <1>9 DEF StockInv

-----------------------------------------------------------------------------
\* The properties of WatchedAccounting are not inductive: they need that the
\* requests in progress go by what is stored, for as long as they are orderly.
RegularInv == AccountingInv /\ (regular => BooksInv /\ StockInv)

LEMMA InitRegular == WatchedInit => RegularInv
  BY InitAccountingInv, InitBooks, InitStock DEF WatchedInit, Init, RegularInv

LEMMA OrderlyStep ==
  ASSUME RegularInv, Next, Watches, regular'
  PROVE  /\ BooksInv' /\ StockInv'
         /\ \A i \in Approved : txn'[i].status = "APPROVED"
         /\ \A i \in ApprovedMovements : movement'[i].status = "APPROVED"
<1>1. regular /\ OrderlyBooks' /\ OrderlyStock'
  BY DEF Watches, Orderly
<1>2. LedgerInv /\ InventoryInv /\ AccountingInv' /\ BooksInv /\ StockInv /\ AccountingInv
  BY <1>1, NextKeeps DEF RegularInv, AccountingInv
<1>3. LedgerInv'
  BY <1>2 DEF AccountingInv
<1>4. PICK d \in Desks :
        Event(d) \/ AccountantAsks(d) \/ StorekeeperAsks(d) \/ BookingStep(d) \/ StaffStep(d)
  BY DEF Next, Step
<1>5. UsesLedger(d) /\ UsesInventory(d)
  BY <1>2, <1>4, StepUsesLedger, StepUsesInventory
<1> QED
  BY <1>1, <1>2, <1>3, <1>5, UseBooks, UseStock, UseKeepsApproved, UseKeepsMoved

LEMMA RegularStep ==
  ASSUME RegularInv, [Next /\ Watches]_watchedVars
  PROVE  RegularInv'
<1>1. CASE UNCHANGED watchedVars
  <2>1. UNCHANGED vars /\ UNCHANGED ledgerVars /\ UNCHANGED inventoryVars /\ regular' = regular
    BY <1>1 DEF watchedVars, vars
  <2>2. AccountingInv'
    BY <2>1, NextKeeps DEF RegularInv
  <2> QED
    BY <2>1, <2>2, BooksStay, StockStays DEF RegularInv
<1>2. CASE Next /\ Watches
  <2>1. AccountingInv'
    BY <1>2, NextKeeps DEF RegularInv
  <2> QED
    BY <1>2, <2>1, OrderlyStep DEF RegularInv
<1> QED
  BY <1>1, <1>2

LEMMA RegularInvHolds == WatchedSpec => []RegularInv
<1>1. RegularInv /\ [Next /\ Watches]_watchedVars => RegularInv'
  BY RegularStep
<1> QED
  BY InitRegular, <1>1, PTL DEF WatchedSpec

\* As long as no two requests work on the same row, approve moves exactly what
\* it records: every balance is the opening balance and what the approved
\* transactions moved.
THEOREM BooksBalanceWhenOrderly == WatchedSpec => []RegularBooks
<1>1. RegularInv => RegularBooks
  BY DEF RegularInv, BooksInv, RegularBooks
<1> QED
  BY RegularInvHolds, <1>1, PTL

\* As long as no two requests work on the same row, the stock of a warehouse is
\* what the approved movements add up to, and what is sold out is flagged.
THEOREM StockAddsUpWhenOrderly == WatchedSpec => []RegularStock
<1>1. RegularInv => RegularStock
  BY DEF RegularInv, StockInv, RegularStock
<1> QED
  BY RegularInvHolds, <1>1, PTL

\* As long as no two requests work on the same row, there are not two default
\* accounts or warehouses for the listeners to choose from.
THEOREM OneDefaultWhenOrderly == WatchedSpec => []RegularDefaults
<1>1. RegularInv => RegularDefaults
  <2> SUFFICES ASSUME RegularInv, regular PROVE OneDefault /\ OneDefaultWarehouse
    BY DEF RegularDefaults
  <2>1. OnlyDefault /\ OnlyDefaultWarehouse
    BY DEF RegularInv, BooksInv, StockInv
  <2>2. OneDefault
    BY <2>1, AtMostOne DEF OnlyDefault, OneDefault
  <2>3. OneDefaultWarehouse
    BY <2>1, AtMostOne DEF OnlyDefaultWarehouse, OneDefaultWarehouse
  <2> QED
    BY <2>2, <2>3
<1> QED
  BY RegularInvHolds, <1>1, PTL

\* As long as no two requests work on the same row, no request takes back what
\* has been approved.
THEOREM ApprovalIsFinalWhenOrderly == WatchedSpec => ApprovedIsFinal
<1> DEFINE StaysFinal ==
      regular' => /\ \A i \in Approved : txn'[i].status = "APPROVED"
                  /\ \A i \in ApprovedMovements : movement'[i].status = "APPROVED"
<1>1. RegularInv /\ [Next /\ Watches]_watchedVars => [StaysFinal]_watchedVars
  BY OrderlyStep
<1> QED
  BY RegularInvHolds, <1>1, PTL DEF WatchedSpec, ApprovedIsFinal

===============================================================================
