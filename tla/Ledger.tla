------------------------------- MODULE Ledger -------------------------------
(***************************************************************************)
(* The books of the shop: accounts and the transactions posted to them     *)
(* (src/src/modules/accounting/services/account.service.ts and             *)
(* transaction.service.ts).                                                *)
(*                                                                         *)
(* A request reads the rows it needs, each read on its own connection, and *)
(* writes later with TypeORM's save, which sets every column of the row    *)
(* that differs from the entity in memory: columns the request never meant *)
(* to change go back to what it once read.  Only approve runs in a         *)
(* database transaction (MySQL, REPEATABLE READ).  A request is therefore  *)
(* a call at a desk that takes several steps, and any other desk may step  *)
(* in between.                                                             *)
(***************************************************************************)
EXTENDS AccountingBase

CONSTANTS
  Payments,        \* the online payments of the orders
  Accounts,        \* the accounts there can be
  Opened,          \* the accounts that exist at the start; one of them is the default
  Openings,        \* initial balances
  Amounts,         \* amounts of transactions
  NoAccount,       \* "no account"
  NewReferences,   \* bound: the reference numbers update may set
  MaxTransactions, \* bound: no transaction is created when there are this many
  LedgerHandlers   \* bound: the handlers the staff call

Types == { "INCOME", "EXPENSE", "TRANSFER" }
Status == { "PENDING", "APPROVED", "REJECTED", "CANCELLED" }
Categories == { "OTHER", "PRODUCT_SALE", "SHIPPING_FEE", "GIFT_WRAPPING_FEE" }

\* A reference number is generated, "INC-<year and month>-<n>", or given by
\* the caller: order.paid gives the authority of the payment.
References == Types \X (Nat \ {0}) \cup { "AUTHORITY" } \X Payments \cup { << "NONE", 0 >> }
NoReference == << "NONE", 0 >>

ASSUME LedgerAssumption ==
  /\ Opened \subseteq Accounts /\ Opened # {}
  /\ NoAccount \notin Accounts
  /\ Openings \subseteq Nat /\ Openings # {}
  /\ Amounts \subseteq Nat
  /\ NewReferences \subseteq References
  /\ MaxTransactions \in Nat

VARIABLES
  account,     \* the account rows
  txn,         \* the transaction rows, by id; rows are never deleted
  ledgerCall   \* the request in progress at each desk

ledger == << account, txn >>
ledgerVars == << account, txn, ledgerCall >>

AccountRow ==
  [ exists : BOOLEAN, opening : Nat, balance : Int, active : BOOLEAN, default : BOOLEAN ]

TxnRow ==
  [ type : Types, status : Status, amount : Nat, account : Accounts \cup {NoAccount},
    dest : Accounts \cup {NoAccount}, ref : References,
    order : Orders \cup {NoOrder}, category : Categories ]

NoAccountRow ==
  [ exists |-> FALSE, opening |-> 0, balance |-> 0, active |-> FALSE, default |-> FALSE ]

NoTxn ==
  [ type |-> "INCOME", status |-> "PENDING", amount |-> 0, account |-> NoAccount,
    dest |-> NoAccount, ref |-> NoReference, order |-> NoOrder, category |-> "OTHER" ]

LedgerOps == { "idle", "insert", "approve", "approving", "save",
               "openAccount", "changeAccount", "storeAccount", "removeAccount" }

LedgerIdle ==
  [ op |-> "idle", id |-> 0, txn |-> NoTxn, base |-> NoTxn, from |-> 0, to |-> 0,
    account |-> NoAccount, row |-> NoAccountRow ]

LedgerCalls ==
  [ op : LedgerOps, id : Nat, txn : TxnRow, base : TxnRow, from : Int, to : Int,
    account : Accounts \cup {NoAccount}, row : AccountRow ]

LedgerTypeOK ==
  /\ account \in [Accounts -> AccountRow]
  /\ txn \in Seq(TxnRow)
  /\ ledgerCall \in [Desks -> LedgerCalls]

TxnIds == DOMAIN txn

LedgerInit ==
  /\ \E opening \in [Opened -> Openings], default \in Opened :
       account = [a \in Accounts |->
                    IF a \in Opened
                    THEN [ exists |-> TRUE, opening |-> opening[a], balance |-> opening[a],
                           active |-> TRUE, default |-> a = default ]
                    ELSE NoAccountRow]
  /\ txn = << >>
  /\ ledgerCall = [d \in Desks |-> LedgerIdle]

Takes(d, c) ==
  /\ ledgerCall[d] = LedgerIdle
  /\ ledgerCall' = [ledgerCall EXCEPT ![d] = c]

Hangup(d) == ledgerCall' = [ledgerCall EXCEPT ![d] = LedgerIdle]

-----------------------------------------------------------------------------
(***************************************************************************)
(* create(): the accounts are looked up and the reference number is made,  *)
(* then the row is inserted.  The number counts the rows that already have *)
(* a generated number of the type, so two requests can make the same one;  *)
(* reference_number is unique and the second insert fails.  The foreign    *)
(* keys refuse an account deleted in the meantime.                         *)
(***************************************************************************)
Usable(a) == a \in Accounts /\ account[a].exists /\ account[a].active

Creatable(t) ==
  /\ Usable(t.account)
  /\ t.type = "TRANSFER" => Usable(t.dest)

\* Mutant of Generated: counts from 0.
GeneratedFromZero(type) ==
  << type, Cardinality({ i \in TxnIds : txn[i].ref[1] = type }) >>

Generated(type) ==
  << type, 1 + Cardinality({ i \in TxnIds : txn[i].ref[1] = type }) >>

Numbered(t) == IF t.ref = NoReference THEN [t EXCEPT !.ref = Generated(t.type)] ELSE t

\* Mutant of FreeReference: reference_number is not unique.
AnyReference(ref) == ref \in References

FreeReference(ref) == \A i \in TxnIds : txn[i].ref # ref

CreateTransaction(d, t) ==
  /\ Len(txn) < MaxTransactions
  /\ Creatable(t)
  /\ Takes(d, [LedgerIdle EXCEPT !.op = "insert", !.txn = Numbered(t)])
  /\ UNCHANGED ledger

Insertable(t) ==
  /\ FreeReference(t.ref)
  /\ \A a \in {t.account, t.dest} \ {NoAccount} : account[a].exists

InsertTransaction(d) ==
  /\ ledgerCall[d].op = "insert"
  /\ Insertable(ledgerCall[d].txn)
  /\ txn' = Append(txn, ledgerCall[d].txn)
  /\ Hangup(d)
  /\ UNCHANGED account

InsertRefused(d) ==
  /\ ledgerCall[d].op = "insert"
  /\ ~Insertable(ledgerCall[d].txn)
  /\ Hangup(d)
  /\ UNCHANGED ledger

-----------------------------------------------------------------------------
(***************************************************************************)
(* approve(): the status is checked on one connection; then a transaction  *)
(* saves the entity that was read, as APPROVED, reads the balances and     *)
(* saves them, the destination of a transfer first.  What it reads comes   *)
(* from the snapshot of its first read; its writes become visible at the   *)
(* commit.  The save of the transaction locks its row until then.          *)
(***************************************************************************)
ApproveTransaction(d, i) ==
  /\ i \in TxnIds
  /\ txn[i].status = "PENDING"
  /\ Takes(d, [LedgerIdle EXCEPT !.op = "approve", !.id = i,
                                 !.txn = [txn[i] EXCEPT !.status = "APPROVED"]])
  /\ UNCHANGED ledger

BeginApproval(d) ==
  LET c == ledgerCall[d]
  IN /\ c.op = "approve"
     /\ ledgerCall' = [ledgerCall EXCEPT ![d] =
          [c EXCEPT !.op = "approving", !.base = txn[c.id],
                    !.from = account[c.txn.account].balance,
                    !.to = IF c.txn.type = "TRANSFER"
                           THEN account[c.txn.dest].balance ELSE 0]]
     /\ UNCHANGED ledger

NewBalance(c) ==
  IF c.txn.type = "INCOME" THEN c.from + c.txn.amount ELSE c.from - c.txn.amount

\* Mutant of Affordable: the source of a transfer is not tested.
ExpenseAffordable(c) == c.txn.type = "EXPENSE" => NewBalance(c) >= 0

Affordable(c) == c.txn.type \in {"EXPENSE", "TRANSFER"} => NewBalance(c) >= 0

\* Mutant of Posted: the destination of a transfer is not saved.
PostedAtSource(c) == [account EXCEPT ![c.txn.account].balance = NewBalance(c)]

\* updateAccountBalances
Posted(c) ==
  LET credited == IF c.txn.type = "TRANSFER"
                  THEN [account EXCEPT ![c.txn.dest].balance = c.to + c.txn.amount]
                  ELSE account
  IN IF c.txn.amount = 0
     THEN account
     ELSE [credited EXCEPT ![c.txn.account].balance = NewBalance(c)]

CommitApproval(d) ==
  LET c == ledgerCall[d]
  IN /\ c.op = "approving"
     /\ Affordable(c)
     /\ txn' = [txn EXCEPT ![c.id] = Merged(c.base, c.txn, @)]
     /\ account' = Posted(c)
     /\ Hangup(d)

\* The balance is too small, or the database gives up the transaction (a
\* deadlock with another approval, a lost connection).
RollbackApproval(d) ==
  /\ ledgerCall[d].op = "approving"
  /\ Hangup(d)
  /\ UNCHANGED ledger

-----------------------------------------------------------------------------
(***************************************************************************)
(* reject(), update() and remove(): read, check the status, save the whole *)
(* row.  update takes the new status from its caller as it is.             *)
(***************************************************************************)
Edit(d, i, entity) ==
  /\ Takes(d, [LedgerIdle EXCEPT !.op = "save", !.id = i, !.txn = entity])
  /\ UNCHANGED ledger

RejectTransaction(d, i) ==
  /\ i \in TxnIds
  /\ txn[i].status = "PENDING"
  /\ Edit(d, i, [txn[i] EXCEPT !.status = "REJECTED"])

UpdateTransaction(d, i, status, amount, ref) ==
  /\ i \in TxnIds
  /\ txn[i].status = "PENDING"
  /\ Edit(d, i, [txn[i] EXCEPT !.status = status, !.amount = amount, !.ref = ref])

\* Mutant of RemoveTransaction: approved transactions can be removed.
RemoveAnyTransaction(d, i) ==
  /\ i \in TxnIds
  /\ txn[i].status # "CANCELLED"
  /\ Edit(d, i, [txn[i] EXCEPT !.status = "CANCELLED"])

RemoveTransaction(d, i) ==
  /\ i \in TxnIds
  /\ txn[i].status \in {"PENDING", "REJECTED"}
  /\ Edit(d, i, [txn[i] EXCEPT !.status = "CANCELLED"])

TxnUnlocked(i) == \A d \in Desks : ~(ledgerCall[d].op = "approving" /\ ledgerCall[d].id = i)

\* The unique reference number can make the save fail.
SaveTransaction(d) ==
  LET c == ledgerCall[d]
  IN /\ c.op = "save"
     /\ TxnUnlocked(c.id)
     /\ txn' = IF \E j \in TxnIds \ {c.id} : txn[j].ref = c.txn.ref THEN txn
               ELSE [txn EXCEPT ![c.id] = c.txn]
     /\ Hangup(d)
     /\ UNCHANGED account

-----------------------------------------------------------------------------
(***************************************************************************)
(* Accounts.  A new default account, or one that is made the default,      *)
(* first clears the flag of the others and is saved afterwards, in a       *)
(* statement of its own.                                                   *)
(***************************************************************************)
\* Mutant of Cleared: the other defaults are kept.
ClearedNothing(others) == [a \in Accounts |-> account[a]]

Cleared(others) ==
  [a \in Accounts |-> IF a \in others THEN [account[a] EXCEPT !.default = FALSE] ELSE account[a]]

OpenAccount(d, a, opening, default) ==
  /\ ~account[a].exists
  /\ Takes(d, [LedgerIdle EXCEPT !.op = "openAccount", !.account = a,
       !.row = [ exists |-> TRUE, opening |-> opening, balance |-> opening,
                 active |-> TRUE, default |-> default ]])
  /\ account' = IF default THEN Cleared(Accounts) ELSE account
  /\ UNCHANGED txn

\* Names and codes are unique: of two that open the same account one fails.
InsertAccount(d) ==
  LET c == ledgerCall[d]
  IN /\ c.op = "openAccount"
     /\ account' = IF account[c.account].exists THEN account
                   ELSE [account EXCEPT ![c.account] = c.row]
     /\ Hangup(d)
     /\ UNCHANGED txn

\* isDefault may be left out of the request: the flag is then kept as read.
ChangeAccount(d, a, active, isDefault) ==
  /\ account[a].exists
  /\ Takes(d, [LedgerIdle EXCEPT
       !.op = IF isDefault = "yes" THEN "changeAccount" ELSE "storeAccount",
       !.account = a,
       !.row = [account[a] EXCEPT
                  !.active = active,
                  !.default = isDefault = "yes" \/ (isDefault = "keep" /\ @)]])
  /\ UNCHANGED ledger

ClearOtherDefaults(d) ==
  LET c == ledgerCall[d]
  IN /\ c.op = "changeAccount"
     /\ account' = Cleared(Accounts \ {c.account})
     /\ ledgerCall' = [ledgerCall EXCEPT ![d].op = "storeAccount"]
     /\ UNCHANGED txn

\* save: the whole row as it was read, or a new row if it has been deleted.
StoreAccount(d) ==
  LET c == ledgerCall[d]
  IN /\ c.op = "storeAccount"
     /\ account' = [account EXCEPT ![c.account] = c.row]
     /\ Hangup(d)
     /\ UNCHANGED txn

RemoveAccount(d, a) ==
  /\ account[a].exists
  /\ Takes(d, [LedgerIdle EXCEPT !.op = "removeAccount", !.account = a])
  /\ UNCHANGED ledger

\* remove checks nothing itself; the foreign keys of the transactions do.
DeleteAccount(d) ==
  LET a == ledgerCall[d].account
  IN /\ ledgerCall[d].op = "removeAccount"
     /\ account' = IF \E i \in TxnIds : a \in {txn[i].account, txn[i].dest}
                   THEN account
                   ELSE [account EXCEPT ![a] = NoAccountRow]
     /\ Hangup(d)
     /\ UNCHANGED txn

-----------------------------------------------------------------------------
\* What the staff can ask to be created.
NewTransactions ==
  { t \in [ type : Types, status : {"PENDING"}, amount : Amounts, account : Accounts,
            dest : Accounts \cup {NoAccount}, ref : {NoReference},
            order : {NoOrder}, category : {"OTHER"} ] :
      (t.type = "TRANSFER") <=> (t.dest \in Accounts) }

LedgerRequest(d) ==
  \/ /\ "create" \in LedgerHandlers
     /\ \E t \in NewTransactions : CreateTransaction(d, t)
  \/ "approve" \in LedgerHandlers /\ \E i \in TxnIds : ApproveTransaction(d, i)
  \/ "reject" \in LedgerHandlers /\ \E i \in TxnIds : RejectTransaction(d, i)
  \/ /\ "update" \in LedgerHandlers
     /\ \E i \in TxnIds, status \in Status, amount \in Amounts :
          \E ref \in NewReferences \cup {txn[i].ref} :
             UpdateTransaction(d, i, status, amount, ref)
  \/ "remove" \in LedgerHandlers /\ \E i \in TxnIds : RemoveTransaction(d, i)
  \/ /\ "openAccount" \in LedgerHandlers
     /\ \E a \in Accounts, opening \in Openings, default \in BOOLEAN :
          OpenAccount(d, a, opening, default)
  \/ /\ "changeAccount" \in LedgerHandlers
     /\ \E a \in Accounts, active \in BOOLEAN, isDefault \in {"yes", "no", "keep"} :
          ChangeAccount(d, a, active, isDefault)
  \/ "removeAccount" \in LedgerHandlers /\ \E a \in Accounts : RemoveAccount(d, a)

LedgerStep(d) ==
  \/ InsertTransaction(d)
  \/ InsertRefused(d)
  \/ BeginApproval(d)
  \/ CommitApproval(d)
  \/ RollbackApproval(d)
  \/ SaveTransaction(d)
  \/ InsertAccount(d)
  \/ ClearOtherDefaults(d)
  \/ StoreAccount(d)
  \/ DeleteAccount(d)

LedgerNext == \E d \in Desks : LedgerRequest(d) \/ LedgerStep(d)

LedgerSpec == LedgerInit /\ [][LedgerNext]_ledgerVars

-----------------------------------------------------------------------------
Approved == { i \in TxnIds : txn[i].status = "APPROVED" }

\* Whatever the staff do at the same time, no account is overdrawn: the test of
\* updateAccountBalances is on the balance the new one is computed from.
BalanceNonNegative == \A a \in Accounts : account[a].balance >= 0

\* The approved transactions that add to the balance of a, and those that take
\* from it.
Credits(a) ==
  { i \in Approved : a = IF txn[i].type = "INCOME" THEN txn[i].account ELSE txn[i].dest }
Debits(a) == { i \in Approved : txn[i].type # "INCOME" /\ a = txn[i].account }

AmountOf == [i \in TxnIds |-> txn[i].amount]
Booked(a) == SumOver(AmountOf, Credits(a)) - SumOver(AmountOf, Debits(a))

\* Every account holds what was put in at its opening and what the approved
\* transactions moved since.  Not an invariant of LedgerSpec: see
\* WatchedAccounting for when it holds.
BooksBalance ==
  \A a \in Accounts : account[a].exists => account[a].balance = account[a].opening + Booked(a)

\* There is one account that order.paid can post to.
OneDefault == Cardinality({ a \in Accounts : account[a].default }) <= 1

=============================================================================
