----------------------------- MODULE Inventory -----------------------------
(***************************************************************************)
(* The warehouses of the shop: what each holds of each product and the     *)
(* movements that change it (src/src/modules/accounting/services/          *)
(* stock-movement.service.ts and warehouse.service.ts).  Not the stock     *)
(* column of the product, which the checkout sells from.                   *)
(*                                                                         *)
(* As in Ledger, a request is a call at a desk that takes several steps;   *)
(* save writes the columns that differ from the row it finds; only approve *)
(* runs in a database transaction.                                         *)
(***************************************************************************)
EXTENDS AccountingBase

CONSTANTS
  Products,          \* the products of the shop
  Warehouses,        \* the warehouses there can be
  Built,             \* the warehouses that exist at the start; one is the default
  InitialStock,      \* what they hold at the start; no row where it is 0
  Quantities,        \* quantities of movements
  NoWarehouse,       \* "no warehouse"
  NoProduct,         \* "no product"
  MaxMovements,      \* bound: no movement is created when there are this many
  InventoryHandlers  \* bound: the handlers the staff call

MovementTypes == { "IN", "OUT", "TRANSFER", "ADJUSTMENT" }
MovementStatus == { "PENDING", "APPROVED", "REJECTED", "CANCELLED" }
AlertLevels == { "OUT_OF_STOCK", "SUFFICIENT" }

Places == Products \X Warehouses

ASSUME InventoryAssumption ==
  /\ Built \subseteq Warehouses /\ Built # {}
  /\ NoWarehouse \notin Warehouses
  /\ NoProduct \notin Products
  /\ InitialStock \in [Places -> Nat]
  /\ \A x \in Places : InitialStock[x] # 0 => x[2] \in Built
  /\ Quantities \subseteq Nat \ {0}
  /\ MaxMovements \in Nat

VARIABLES
  warehouse,   \* the warehouse rows
  stock,       \* the product_stocks rows, by product and warehouse
  movement,    \* the stock_movements rows, by id; rows are never deleted
  stockCall    \* the request in progress at each desk

inventory == << warehouse, stock, movement >>
inventoryVars == << warehouse, stock, movement, stockCall >>

WarehouseRow == [ exists : BOOLEAN, active : BOOLEAN, default : BOOLEAN ]

StockRow == [ exists : BOOLEAN, quantity : Int, available : Int, alert : AlertLevels ]

MovementRow ==
  [ type : MovementTypes, status : MovementStatus, product : Products \cup {NoProduct},
    warehouse : Warehouses \cup {NoWarehouse}, dest : Warehouses \cup {NoWarehouse},
    quantity : Nat, after : Int, number : Nat, order : Orders \cup {NoOrder} ]

NoWarehouseRow == [ exists |-> FALSE, active |-> FALSE, default |-> FALSE ]

NoStock == [ exists |-> FALSE, quantity |-> 0, available |-> 0, alert |-> "OUT_OF_STOCK" ]

\* getOrCreateProductStock inserts this row.
EmptyStock == [ exists |-> TRUE, quantity |-> 0, available |-> 0, alert |-> "OUT_OF_STOCK" ]

NoMovement ==
  [ type |-> "IN", status |-> "PENDING", product |-> NoProduct,
    warehouse |-> NoWarehouse, dest |-> NoWarehouse, quantity |-> 0, after |-> 0,
    number |-> 0, order |-> NoOrder ]

StockOps == { "idle", "insert", "adjust", "check", "approve", "reaching", "moving", "save",
              "openWarehouse", "changeWarehouse", "storeWarehouse", "removeWarehouse" }

StockIdle ==
  [ op |-> "idle", id |-> 0, movement |-> NoMovement, base |-> NoMovement,
    stockBase |-> NoStock, stock |-> NoStock, destBase |-> NoStock, dest |-> NoStock,
    warehouse |-> NoWarehouse, row |-> NoWarehouseRow ]

StockCalls ==
  [ op : StockOps, id : Nat, movement : MovementRow, base : MovementRow,
    stockBase : StockRow, stock : StockRow, destBase : StockRow, dest : StockRow,
    warehouse : Warehouses \cup {NoWarehouse}, row : WarehouseRow ]

InventoryTypeOK ==
  /\ warehouse \in [Warehouses -> WarehouseRow]
  /\ stock \in [Places -> StockRow]
  /\ movement \in Seq(MovementRow)
  /\ stockCall \in [Desks -> StockCalls]

MovementIds == DOMAIN movement

\* calculateAlertLevel: min_quantity and reorder_point are 0 in every row.
AlertOf(quantity) == IF quantity = 0 THEN "OUT_OF_STOCK" ELSE "SUFFICIENT"

Moved(row, delta) ==
  [row EXCEPT !.quantity = @ + delta, !.available = @ + delta,
              !.alert = AlertOf(row.quantity + delta)]

InventoryInit ==
  /\ \E default \in Built :
       warehouse = [w \in Warehouses |->
                      IF w \in Built
                      THEN [ exists |-> TRUE, active |-> TRUE, default |-> w = default ]
                      ELSE NoWarehouseRow]
  /\ stock = [x \in Places |-> IF InitialStock[x] = 0 THEN NoStock
                               ELSE Moved(EmptyStock, InitialStock[x])]
  /\ movement = << >>
  /\ stockCall = [d \in Desks |-> StockIdle]

Handles(d, c) ==
  /\ stockCall[d] = StockIdle
  /\ stockCall' = [stockCall EXCEPT ![d] = c]

Finish(d) == stockCall' = [stockCall EXCEPT ![d] = StockIdle]

-----------------------------------------------------------------------------
(***************************************************************************)
(* create() and adjustStock(): look-ups, a movement number that counts the *)
(* movements of the type, the stock row of the product, which is made if   *)
(* there is none, and then the insert.  movement_number is unique: of two  *)
(* requests that counted the same one fails.  adjustStock approves what it *)
(* has inserted.                                                           *)
(***************************************************************************)
Numbering(type) == 1 + Cardinality({ i \in MovementIds : movement[i].type = type })

\* getOrCreateProductStock
WithStock(x) == IF stock[x].exists THEN stock ELSE [stock EXCEPT ![x] = EmptyStock]

CreatableMovement(m) ==
  /\ warehouse[m.warehouse].exists
  /\ m.type = "TRANSFER" => /\ m.dest \in Warehouses
                            /\ warehouse[m.dest].exists
                            /\ m.dest # m.warehouse

CreateMovement(d, m) ==
  LET x == << m.product, m.warehouse >>
  IN /\ Len(movement) < MaxMovements
     /\ CreatableMovement(m)
     /\ stock' = WithStock(x)
     /\ Handles(d, [StockIdle EXCEPT !.op = "insert",
          !.movement = [m EXCEPT !.number = Numbering(m.type), !.after = stock'[x].quantity]])
     /\ UNCHANGED << warehouse, movement >>

AdjustStock(d, p, w, newQuantity) ==
  LET x == << p, w >>
      before == WithStock(x)[x].quantity
  IN /\ Len(movement) < MaxMovements
     /\ warehouse[w].exists
     /\ stock' = WithStock(x)
     /\ newQuantity # before
     /\ Handles(d, [StockIdle EXCEPT !.op = "adjust",
          !.movement = [ type |-> "ADJUSTMENT", status |-> "PENDING", product |-> p,
            warehouse |-> w, dest |-> NoWarehouse,
            quantity |-> IF newQuantity > before THEN newQuantity - before
                                                 ELSE before - newQuantity,
            after |-> newQuantity, number |-> Numbering("ADJUSTMENT"), order |-> NoOrder ]])
     /\ UNCHANGED << warehouse, movement >>

\* An adjustment to what is there is refused, after the row has been made.
AdjustNothing(d, p, w) ==
  LET x == << p, w >>
  IN /\ stockCall[d] = StockIdle
     /\ ~stock[x].exists
     /\ warehouse[w].exists
     /\ stock' = WithStock(x)
     /\ UNCHANGED << warehouse, movement, stockCall >>

\* The unique movement number, and the foreign key of the destination.
InsertableMovement(m) ==
  /\ \A i \in MovementIds : << movement[i].type, movement[i].number >> # << m.type, m.number >>
  /\ m.dest \in Warehouses => warehouse[m.dest].exists

InsertMovement(d) ==
  LET c == stockCall[d]
  IN /\ c.op \in {"insert", "adjust"}
     /\ InsertableMovement(c.movement)
     /\ movement' = Append(movement, c.movement)
     /\ IF c.op = "adjust"
        THEN stockCall' = [stockCall EXCEPT ![d] =
                             [StockIdle EXCEPT !.op = "check", !.id = Len(movement) + 1]]
        ELSE Finish(d)
     /\ UNCHANGED << warehouse, stock >>

MovementRefused(d) ==
  /\ stockCall[d].op \in {"insert", "adjust"}
  /\ ~InsertableMovement(stockCall[d].movement)
  /\ Finish(d)
  /\ UNCHANGED inventory

-----------------------------------------------------------------------------
(***************************************************************************)
(* approve(): the status is checked on one connection; then a transaction  *)
(* reads the stock row, computes the new one (updateStockQuantity), saves  *)
(* it and then the movement.                                               *)
(***************************************************************************)
Approving(i) ==
  [StockIdle EXCEPT !.op = "approve", !.id = i,
                    !.movement = [movement[i] EXCEPT !.status = "APPROVED"]]

ApproveMovement(d, i) ==
  /\ i \in MovementIds
  /\ movement[i].status = "PENDING"
  /\ Handles(d, Approving(i))
  /\ UNCHANGED inventory

CheckAdjustment(d) ==
  LET i == stockCall[d].id
  IN /\ stockCall[d].op = "check"
     /\ IF movement[i].status = "PENDING"
        THEN stockCall' = [stockCall EXCEPT ![d] = Approving(i)]
        ELSE Finish(d)
     /\ UNCHANGED inventory

\* Mutant of StockAfter: a transfer takes nothing from its source.
StockAfterMove(row, m) ==
  CASE m.type = "IN" -> Moved(row, m.quantity)
    [] m.type = "OUT" -> Moved(row, -m.quantity)
    [] m.type = "TRANSFER" -> row
    [] m.type = "ADJUSTMENT" ->
         [row EXCEPT !.quantity = m.after, !.available = m.after, !.alert = AlertOf(m.after)]

\* The stock row after movement m; reserved_quantity is 0 in every row.
StockAfter(row, m) ==
  CASE m.type = "IN" -> Moved(row, m.quantity)
    [] m.type \in {"OUT", "TRANSFER"} -> Moved(row, -m.quantity)
    [] m.type = "ADJUSTMENT" ->
         [row EXCEPT !.quantity = m.after, !.available = m.after, !.alert = AlertOf(m.after)]

\* Mutant of Enough: only a transfer is tested.
EnoughToTransfer(row, m) == m.type = "TRANSFER" => row.available >= m.quantity

Enough(row, m) == m.type \in {"OUT", "TRANSFER"} => row.available >= m.quantity

BeginMovement(d) ==
  LET c == stockCall[d]
      m == c.movement
      row == stock[<< m.product, m.warehouse >>]
      new == StockAfter(row, m)
  IN /\ c.op = "approve"
     /\ Enough(row, m)
     /\ stockCall' = [stockCall EXCEPT ![d] =
          [c EXCEPT !.op = IF m.type = "TRANSFER" THEN "reaching" ELSE "moving",
                    !.base = movement[c.id],
                    !.stockBase = row,
                    !.stock = new,
                    !.destBase = IF m.type = "TRANSFER"
                                 THEN stock[<< m.product, m.dest >>] ELSE NoStock,
                    !.movement = [m EXCEPT !.after = new.quantity]]]
     /\ UNCHANGED inventory

InsufficientStock(d) ==
  LET m == stockCall[d].movement
  IN /\ stockCall[d].op = "approve"
     /\ ~Enough(stock[<< m.product, m.warehouse >>], m)
     /\ Finish(d)
     /\ UNCHANGED inventory

\* The destination's row is read, or made, on another connection.  A row that
\* the snapshot of the transaction does not show is inserted again by save,
\* and the transaction fails.  The alert level of the destination is kept.
ReachDestination(d) ==
  LET c == stockCall[d]
      x == << c.movement.product, c.movement.dest >>
  IN /\ c.op = "reaching"
     /\ stock' = WithStock(x)
     /\ IF c.destBase.exists
        THEN stockCall' = [stockCall EXCEPT ![d] =
               [c EXCEPT !.op = "moving",
                         !.dest = [stock[x] EXCEPT !.quantity = @ + c.movement.quantity,
                                                   !.available = @ + c.movement.quantity]]]
        ELSE Finish(d)
     /\ UNCHANGED << warehouse, movement >>

CommitMovement(d) ==
  LET c == stockCall[d]
      m == c.movement
      source == << m.product, m.warehouse >>
      target == << m.product, m.dest >>
  IN /\ c.op = "moving"
     /\ stock' = [x \in Places |->
                    IF x = source THEN Merged(c.stockBase, c.stock, stock[x])
                    ELSE IF m.type = "TRANSFER" /\ x = target
                         THEN Merged(c.destBase, c.dest, stock[x])
                    ELSE stock[x]]
     /\ movement' = [movement EXCEPT ![c.id] = Merged(c.base, m, @)]
     /\ Finish(d)
     /\ UNCHANGED warehouse

\* A deadlock of the database, a lost connection.
RollbackMovement(d) ==
  /\ stockCall[d].op \in {"reaching", "moving"}
  /\ Finish(d)
  /\ UNCHANGED inventory

-----------------------------------------------------------------------------
(***************************************************************************)
(* reject() and update(): read, check the status, save the whole row.      *)
(* update takes the new status from its caller as it is.                   *)
(***************************************************************************)
EditMovement(d, i, entity) ==
  /\ Handles(d, [StockIdle EXCEPT !.op = "save", !.id = i, !.movement = entity])
  /\ UNCHANGED inventory

RejectMovement(d, i) ==
  /\ i \in MovementIds
  /\ movement[i].status = "PENDING"
  /\ EditMovement(d, i, [movement[i] EXCEPT !.status = "REJECTED"])

UpdateMovement(d, i, status, quantity) ==
  /\ i \in MovementIds
  /\ movement[i].status = "PENDING"
  /\ EditMovement(d, i, [movement[i] EXCEPT !.status = status, !.quantity = quantity])

SaveMovement(d) ==
  LET c == stockCall[d]
  IN /\ c.op = "save"
     /\ movement' = [movement EXCEPT ![c.id] = c.movement]
     /\ Finish(d)
     /\ UNCHANGED << warehouse, stock >>

-----------------------------------------------------------------------------
(***************************************************************************)
(* Warehouses.  As with accounts, the flag of the others is cleared before *)
(* the new default is saved.  A warehouse with anything in stock is not    *)
(* removed; the foreign keys refuse one that has stock rows or movements.  *)
(***************************************************************************)
NoLongerDefault(others) ==
  [w \in Warehouses |->
     IF w \in others THEN [warehouse[w] EXCEPT !.default = FALSE] ELSE warehouse[w]]

OpenWarehouse(d, w, default) ==
  /\ ~warehouse[w].exists
  /\ Handles(d, [StockIdle EXCEPT !.op = "openWarehouse", !.warehouse = w,
       !.row = [ exists |-> TRUE, active |-> TRUE, default |-> default ]])
  /\ warehouse' = IF default THEN NoLongerDefault(Warehouses) ELSE warehouse
  /\ UNCHANGED << stock, movement >>

InsertWarehouse(d) ==
  LET c == stockCall[d]
  IN /\ c.op = "openWarehouse"
     /\ warehouse' = IF warehouse[c.warehouse].exists THEN warehouse
                     ELSE [warehouse EXCEPT ![c.warehouse] = c.row]
     /\ Finish(d)
     /\ UNCHANGED << stock, movement >>

ChangeWarehouse(d, w, active, isDefault) ==
  /\ warehouse[w].exists
  /\ Handles(d, [StockIdle EXCEPT
       !.op = IF isDefault = "yes" THEN "changeWarehouse" ELSE "storeWarehouse",
       !.warehouse = w,
       !.row = [warehouse[w] EXCEPT
                  !.active = active,
                  !.default = isDefault = "yes" \/ (isDefault = "keep" /\ @)]])
  /\ UNCHANGED inventory

ClearOtherWarehouses(d) ==
  LET c == stockCall[d]
  IN /\ c.op = "changeWarehouse"
     /\ warehouse' = NoLongerDefault(Warehouses \ {c.warehouse})
     /\ stockCall' = [stockCall EXCEPT ![d].op = "storeWarehouse"]
     /\ UNCHANGED << stock, movement >>

StoreWarehouse(d) ==
  LET c == stockCall[d]
  IN /\ c.op = "storeWarehouse"
     /\ warehouse' = [warehouse EXCEPT ![c.warehouse] = c.row]
     /\ Finish(d)
     /\ UNCHANGED << stock, movement >>

RemoveWarehouse(d, w) ==
  /\ warehouse[w].exists
  /\ \A p \in Products : stock[<< p, w >>].quantity = 0
  /\ Handles(d, [StockIdle EXCEPT !.op = "removeWarehouse", !.warehouse = w])
  /\ UNCHANGED inventory

Referred(w) ==
  \/ \E p \in Products : stock[<< p, w >>].exists
  \/ \E i \in MovementIds : w \in { movement[i].warehouse, movement[i].dest }

DeleteWarehouse(d) ==
  LET w == stockCall[d].warehouse
  IN /\ stockCall[d].op = "removeWarehouse"
     /\ warehouse' = IF Referred(w) THEN warehouse
                     ELSE [warehouse EXCEPT ![w] = NoWarehouseRow]
     /\ Finish(d)
     /\ UNCHANGED << stock, movement >>

-----------------------------------------------------------------------------
\* What the staff can ask to be created.
NewMovements ==
  { m \in [ type : MovementTypes, status : {"PENDING"}, product : Products,
            warehouse : Warehouses, dest : Warehouses \cup {NoWarehouse},
            quantity : Quantities, after : {0}, number : {0}, order : {NoOrder} ] :
      (m.type = "TRANSFER") <=> (m.dest \in Warehouses) }

InventoryRequest(d) ==
  \/ "create" \in InventoryHandlers /\ \E m \in NewMovements : CreateMovement(d, m)
  \/ /\ "adjust" \in InventoryHandlers
     /\ \E p \in Products, w \in Warehouses :
          \/ \E q \in Quantities \cup {0} : AdjustStock(d, p, w, q)
          \/ AdjustNothing(d, p, w)
  \/ "approve" \in InventoryHandlers /\ \E i \in MovementIds : ApproveMovement(d, i)
  \/ "reject" \in InventoryHandlers /\ \E i \in MovementIds : RejectMovement(d, i)
  \/ /\ "update" \in InventoryHandlers
     /\ \E i \in MovementIds, status \in MovementStatus, q \in Quantities :
          UpdateMovement(d, i, status, q)
  \/ /\ "openWarehouse" \in InventoryHandlers
     /\ \E w \in Warehouses, default \in BOOLEAN : OpenWarehouse(d, w, default)
  \/ /\ "changeWarehouse" \in InventoryHandlers
     /\ \E w \in Warehouses, active \in BOOLEAN, isDefault \in {"yes", "no", "keep"} :
          ChangeWarehouse(d, w, active, isDefault)
  \/ "removeWarehouse" \in InventoryHandlers /\ \E w \in Warehouses : RemoveWarehouse(d, w)

InventoryStep(d) ==
  \/ InsertMovement(d)
  \/ MovementRefused(d)
  \/ CheckAdjustment(d)
  \/ BeginMovement(d)
  \/ InsufficientStock(d)
  \/ ReachDestination(d)
  \/ CommitMovement(d)
  \/ RollbackMovement(d)
  \/ SaveMovement(d)
  \/ InsertWarehouse(d)
  \/ ClearOtherWarehouses(d)
  \/ StoreWarehouse(d)
  \/ DeleteWarehouse(d)

InventoryNext == \E d \in Desks : InventoryRequest(d) \/ InventoryStep(d)

InventorySpec == InventoryInit /\ [][InventoryNext]_inventoryVars

-----------------------------------------------------------------------------
ApprovedMovements == { i \in MovementIds : movement[i].status = "APPROVED" }

\* The approved movements that add to the stock of a product in a warehouse, and
\* those that take from it.
Arrivals(x) ==
  { i \in ApprovedMovements :
      /\ movement[i].product = x[1] /\ movement[i].type # "OUT"
      /\ x[2] = IF movement[i].type = "TRANSFER" THEN movement[i].dest ELSE movement[i].warehouse }
Departures(x) ==
  { i \in ApprovedMovements :
      /\ movement[i].type \in {"OUT", "TRANSFER"}
      /\ movement[i].product = x[1] /\ movement[i].warehouse = x[2] }

\* No warehouse gives out what it does not have, whatever the staff do at the
\* same time: updateStockQuantity tests available_quantity and takes from
\* quantity as well, so this needs the two to be equal.
StockNotOverdrawn == \A x \in Places : stock[x].quantity >= 0

\* available_quantity is quantity less reserved_quantity, which is always 0,
\* although save writes the two columns each on its own.
AvailableMatches == \A x \in Places : stock[x].available = stock[x].quantity

QuantityOf == [i \in MovementIds |-> movement[i].quantity]
MovedIn(x) == SumOver(QuantityOf, Arrivals(x)) - SumOver(QuantityOf, Departures(x))

\* The stock of every product in every warehouse is what the approved
\* movements add up to, unless an adjustment has set it.  Not an invariant of
\* InventorySpec: see WatchedAccounting for when it holds.
StockAddsUp ==
  (\A i \in ApprovedMovements : movement[i].type # "ADJUSTMENT") =>
    \A x \in Places : stock[x].quantity = InitialStock[x] + MovedIn(x)

\* What is sold out is flagged as OUT_OF_STOCK.
EmptyIsFlagged == \A x \in Places : stock[x].quantity = 0 => stock[x].alert = "OUT_OF_STOCK"

\* There is one warehouse that orders are served from.
OneDefaultWarehouse == Cardinality({ w \in Warehouses : warehouse[w].default }) <= 1

=============================================================================
