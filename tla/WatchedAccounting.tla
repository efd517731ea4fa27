------------------------- MODULE WatchedAccounting -------------------------
(***************************************************************************)
(* OrderAccounting with a history variable.  The code protects the books   *)
(* and the stock only while no two requests work on the same row: regular  *)
(* is TRUE until two of them do, or until one of the requests that spoil   *)
(* the books on their own is made (a transfer of an account to itself, an  *)
(* update that sets the status to APPROVED).                               *)
(***************************************************************************)
EXTENDS OrderAccounting

VARIABLE regular

watchedVars == << vars, regular >>

\* The rows a request may write, or computes a write from.
LedgerRows(c) ==
  CASE c.op \in {"approve", "approving"} ->
         {<< "txn", c.id >>} \cup ({c.txn.account, c.txn.dest} \ {NoAccount})
    [] c.op = "save" -> {<< "txn", c.id >>}
    [] c.op \in {"openAccount", "changeAccount"} -> Accounts
    [] c.op \in {"storeAccount", "removeAccount"} ->
         IF c.row.default THEN Accounts ELSE {c.account}
    [] OTHER -> {}

InventoryRows(c) ==
  CASE c.op \in {"approve", "reaching", "moving"} ->
         {<< "movement", c.id >>} \cup
           { << c.movement.product, w >> :
               w \in {c.movement.warehouse, c.movement.dest} \ {NoWarehouse} }
    [] c.op \in {"check", "save"} -> {<< "movement", c.id >>}
    [] c.op \in {"openWarehouse", "changeWarehouse"} -> Warehouses
    [] c.op \in {"storeWarehouse", "removeWarehouse"} ->
         IF c.row.default THEN Warehouses ELSE {c.warehouse}
    [] OTHER -> {}

OrderlyBooks ==
  /\ \A d, e \in Desks : d # e => LedgerRows(ledgerCall[d]) \cap LedgerRows(ledgerCall[e]) = {}
  /\ \A d \in Desks : ~(ledgerCall[d].op = "save" /\ ledgerCall[d].txn.status = "APPROVED")
  /\ \A i \in TxnIds : txn[i].account # txn[i].dest

OrderlyStock ==
  /\ \A d, e \in Desks : d # e => InventoryRows(stockCall[d]) \cap InventoryRows(stockCall[e]) = {}
  /\ \A d \in Desks : ~(stockCall[d].op = "save" /\ stockCall[d].movement.status = "APPROVED")

Orderly == OrderlyBooks /\ OrderlyStock

WatchedInit == Init /\ regular = TRUE
Watches == regular' = (regular /\ Orderly')

WatchedSpec == WatchedInit /\ [][Next /\ Watches]_watchedVars

\* As long as requests are orderly, approve moves exactly what it records: the
\* balances and the stock are what the approved rows add up to.
RegularBooks == regular => BooksBalance
RegularStock == regular => StockAddsUp /\ EmptyIsFlagged

\* As long as requests are orderly, there are no two defaults.
RegularDefaults == regular => OneDefault /\ OneDefaultWarehouse

\* As long as requests are orderly, what is approved stays approved.
ApprovedIsFinal ==
  [][ regular' => /\ \A i \in Approved : txn'[i].status = "APPROVED"
                  /\ \A i \in ApprovedMovements : movement'[i].status = "APPROVED" ]_watchedVars

=============================================================================
