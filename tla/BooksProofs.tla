----------------------------- MODULE BooksProofs -----------------------------
(***************************************************************************)
(* Theorems about the books and about the warehouses, for every number of  *)
(* accounts, transactions, products, warehouses, movements and requests in *)
(* progress.                                                               *)
(***************************************************************************)
EXTENDS Ledger, Inventory, FiniteSetTheorems, TLAPS

-----------------------------------------------------------------------------
\* The books.

\* A transaction whose accounts are accounts, so that approve can find them.
KnownTxn(t) ==
  /\ t \in TxnRow
  /\ t.account \in Accounts
  /\ t.type = "TRANSFER" => t.dest \in Accounts

\* What no handler changes of a transaction.
SameDeal(t, u) ==
  /\ t.type = u.type /\ t.account = u.account /\ t.dest = u.dest
  /\ t.order = u.order /\ t.category = u.category

\* What a request has read: never a negative balance.
CallTyped(c) ==
  /\ c \in LedgerCalls
  /\ c.from >= 0 /\ c.to >= 0 /\ c.row.balance >= 0
  /\ c.op \in {"insert", "approve", "approving", "save"} => KnownTxn(c.txn)
  /\ c.op \in {"openAccount", "changeAccount", "storeAccount", "removeAccount"} =>
       c.account \in Accounts

\* A request that works on a transaction works on one that exists.
CallKnown(c) ==
  c.op \in {"approve", "approving", "save"} => c.id \in TxnIds /\ SameDeal(c.txn, txn[c.id])

\* BalanceNonNegative is not inductive: balances are computed from what was
\* read, and saved as whole rows that were read.
LedgerInv ==
  /\ LedgerTypeOK
  /\ BalanceNonNegative
  /\ \A i \in TxnIds : KnownTxn(txn[i])
  /\ \A d \in Desks : CallTyped(ledgerCall[d]) /\ CallKnown(ledgerCall[d])

LEMMA IdleTyped == LedgerIdle \in LedgerCalls /\ CallTyped(LedgerIdle) /\ LedgerIdle.op = "idle"
  BY DEF LedgerIdle, LedgerCalls, CallTyped, LedgerOps, NoTxn, NoAccountRow, TxnRow, AccountRow,
         Types, Status, Categories, References, NoReference

LEMMA InitLedgerInv == LedgerInit => LedgerInv
<1> SUFFICES ASSUME LedgerInit PROVE LedgerInv
  OBVIOUS
<1>1. account \in [Accounts -> AccountRow] /\ \A a \in Accounts : account[a].balance >= 0
  <2>1. PICK opening \in [Opened -> Openings], default \in Opened :
          account = [a \in Accounts |->
                       IF a \in Opened
                       THEN [ exists |-> TRUE, opening |-> opening[a], balance |-> opening[a],
                              active |-> TRUE, default |-> a = default ]
                       ELSE NoAccountRow]
    BY DEF LedgerInit
  <2>2. \A a \in Opened : opening[a] \in Nat
    BY LedgerAssumption
  <2>3. \A a \in Accounts : account[a] \in AccountRow /\ account[a].balance >= 0
    BY <2>1, <2>2 DEF AccountRow, NoAccountRow
  <2> QED
    BY <2>1, <2>3
<1>2. txn \in Seq(TxnRow) /\ TxnIds = {}
  BY DEF LedgerInit, TxnIds
<1>3. \A d \in Desks : ledgerCall[d] = LedgerIdle
  BY DEF LedgerInit
<1>4. \A d \in Desks : CallTyped(ledgerCall[d]) /\ CallKnown(ledgerCall[d])
  BY <1>3, IdleTyped DEF CallKnown
<1>5. ledgerCall \in [Desks -> LedgerCalls]
  BY IdleTyped DEF LedgerInit
<1> QED
  BY <1>1, <1>2, <1>4, <1>5 DEF LedgerInv, LedgerTypeOK, BalanceNonNegative

\* The three ways in which a step keeps the invariant: it changes the call at
\* one desk, and either nothing else, or one transaction, or the accounts.
LEMMA CallsTyped ==
  ASSUME LedgerInv, NEW d \in Desks, NEW c, CallTyped(c),
         ledgerCall' = [ledgerCall EXCEPT ![d] = c]
  PROVE  /\ ledgerCall' \in [Desks -> LedgerCalls]
         /\ \A e \in Desks : CallTyped(ledgerCall'[e])
  BY DEF LedgerInv, LedgerTypeOK, CallTyped

LEMMA CallChanges ==
  ASSUME LedgerInv, NEW d \in Desks, NEW c, CallTyped(c), CallKnown(c),
         ledgerCall' = [ledgerCall EXCEPT ![d] = c], UNCHANGED ledger
  PROVE  LedgerInv'
<1>1. /\ ledgerCall' \in [Desks -> LedgerCalls]
      /\ \A e \in Desks : CallTyped(ledgerCall'[e])
  BY CallsTyped
<1>2. \A e \in Desks : CallKnown(ledgerCall[e])' 
  <2>1. \A e \in Desks : ledgerCall'[e] = c \/ ledgerCall'[e] = ledgerCall[e]
    BY DEF LedgerInv, LedgerTypeOK
  <2> QED
    BY <2>1 DEF LedgerInv, CallKnown, TxnIds, ledger
<1> QED
  BY <1>1, <1>2 DEF LedgerInv, LedgerTypeOK, BalanceNonNegative, TxnIds, ledger

LEMMA CallStarts ==
  ASSUME LedgerInv, NEW d \in Desks, NEW c, CallTyped(c), CallKnown(c), Takes(d, c),
         UNCHANGED ledger
  PROVE  LedgerInv'
  BY CallChanges DEF Takes

LEMMA AccountsChange ==
  ASSUME LedgerInv, NEW d \in Desks, NEW c, CallTyped(c), CallKnown(c),
         ledgerCall' = [ledgerCall EXCEPT ![d] = c], UNCHANGED txn,
         account' \in [Accounts -> AccountRow],
         \A a \in Accounts : account'[a].balance >= 0
  PROVE  LedgerInv'
<1>1. /\ ledgerCall' \in [Desks -> LedgerCalls]
      /\ \A e \in Desks : CallTyped(ledgerCall'[e])
  BY CallsTyped
<1>2. \A e \in Desks : CallKnown(ledgerCall[e])'
  <2>1. \A e \in Desks : ledgerCall'[e] = c \/ ledgerCall'[e] = ledgerCall[e]
    BY DEF LedgerInv, LedgerTypeOK
  <2> QED
    BY <2>1 DEF LedgerInv, CallKnown, TxnIds
<1> QED
  BY <1>1, <1>2 DEF LedgerInv, LedgerTypeOK, BalanceNonNegative, TxnIds

\* A transaction is saved: its type and its accounts stay what they were.
LEMMA TxnChanges ==
  ASSUME LedgerInv, NEW d \in Desks, NEW i \in TxnIds, NEW t, KnownTxn(t),
         SameDeal(t, txn[i]), txn' = [txn EXCEPT ![i] = t], Hangup(d),
         account' \in [Accounts -> AccountRow],
         \A a \in Accounts : account'[a].balance >= 0
  PROVE  LedgerInv'
<1>1. /\ ledgerCall' \in [Desks -> LedgerCalls]
      /\ \A e \in Desks : CallTyped(ledgerCall'[e])
  BY IdleTyped, CallsTyped DEF Hangup
<1>2. txn' \in Seq(TxnRow) /\ TxnIds' = TxnIds
  BY DEF LedgerInv, LedgerTypeOK, TxnIds, KnownTxn
<1>3. \A j \in TxnIds : KnownTxn(txn'[j]) /\ SameDeal(txn'[j], txn[j])
  BY DEF LedgerInv, LedgerTypeOK, TxnIds, SameDeal
<1>4. \A e \in Desks : CallKnown(ledgerCall[e])'
  <2>1. \A e \in Desks : ledgerCall'[e] = LedgerIdle \/ ledgerCall'[e] = ledgerCall[e]
    BY DEF LedgerInv, LedgerTypeOK, Hangup
  <2> QED
    BY <1>2, <1>3, <2>1, IdleTyped DEF LedgerInv, CallKnown, SameDeal
<1> QED
  BY <1>1, <1>2, <1>3, <1>4 DEF LedgerInv, LedgerTypeOK, BalanceNonNegative

LEMMA HungUp ==
  ASSUME LedgerInv, NEW d \in Desks, Hangup(d), UNCHANGED ledger
  PROVE  LedgerInv'
  BY IdleTyped, CallChanges DEF Hangup, CallKnown

-----------------------------------------------------------------------------
(* Transactions.                                                           *)

LEMMA NumberedTyped ==
  ASSUME LedgerInv, NEW t, KnownTxn(t)
  PROVE  KnownTxn(Numbered(t))
<1>1. Generated(t.type) \in References
  <2>1. IsFiniteSet({ i \in TxnIds : txn[i].ref[1] = t.type })
    <3>1. IsFiniteSet(TxnIds)
      BY FS_Interval DEF LedgerInv, LedgerTypeOK, TxnIds
    <3> QED
      BY <3>1, FS_Subset
  <2>2. Cardinality({ i \in TxnIds : txn[i].ref[1] = t.type }) \in Nat
    BY <2>1, FS_CardinalityType
  <2> QED
    BY <2>2 DEF Generated, References, KnownTxn, TxnRow
<1> QED
  BY <1>1 DEF Numbered, KnownTxn, TxnRow


\* The calls that work on transaction t.
LEMMA TxnCallTyped ==
  ASSUME NEW op \in LedgerOps, NEW i \in Nat, NEW t, KnownTxn(t),
         op \notin {"openAccount", "changeAccount", "storeAccount", "removeAccount"}
  PROVE  /\ CallTyped([LedgerIdle EXCEPT !.op = op, !.txn = t])
         /\ CallTyped([LedgerIdle EXCEPT !.op = op, !.id = i, !.txn = t])
<1> DEFINE called == [LedgerIdle EXCEPT !.op = op]
           found == [called EXCEPT !.id = i]
<1>1. /\ called \in LedgerCalls /\ called.op = op
      /\ called.from >= 0 /\ called.to >= 0 /\ called.row.balance >= 0
  BY IdleTyped DEF LedgerCalls, CallTyped
<1> HIDE DEF called
<1>2. /\ found \in LedgerCalls /\ found.op = op
      /\ found.from >= 0 /\ found.to >= 0 /\ found.row.balance >= 0
  BY <1>1 DEF LedgerCalls
<1> HIDE DEF found
<1>3. ASSUME NEW c \in LedgerCalls, c.op = op, c.from >= 0, c.to >= 0, c.row.balance >= 0
      PROVE  CallTyped([c EXCEPT !.txn = t])
  BY <1>3 DEF CallTyped, LedgerCalls, KnownTxn
<1>4. CallTyped([called EXCEPT !.txn = t]) /\ CallTyped([found EXCEPT !.txn = t])
  BY <1>1, <1>2, <1>3
<1> QED
  BY <1>4 DEF called, found

LEMMA CreateKeeps ==
  ASSUME LedgerInv, NEW d \in Desks, NEW t \in TxnRow, CreateTransaction(d, t)
  PROVE  LedgerInv'
<1> DEFINE u == Numbered(t)
           c == [LedgerIdle EXCEPT !.op = "insert", !.txn = u]
<1>1. KnownTxn(u)
  BY NumberedTyped DEF CreateTransaction, Creatable, Usable, KnownTxn
<1>2. Takes(d, c) /\ UNCHANGED ledger
  BY DEF CreateTransaction
<1> HIDE DEF u
<1>3. CallTyped(c) /\ c.op = "insert"
  BY <1>1, TxnCallTyped, IdleTyped DEF LedgerOps, LedgerCalls
<1> HIDE DEF c
<1> QED
  BY <1>2, <1>3, CallStarts DEF CallKnown

LEMMA InsertKeeps ==
  ASSUME LedgerInv, NEW d \in Desks, InsertTransaction(d) \/ InsertRefused(d)
  PROVE  LedgerInv'
<1>1. CASE InsertRefused(d)
  BY <1>1, HungUp DEF InsertRefused
<1>2. CASE InsertTransaction(d)
  <2> DEFINE t == ledgerCall[d].txn
  <2>1. KnownTxn(t) /\ txn' = Append(txn, t) /\ Hangup(d) /\ UNCHANGED account
    BY <1>2 DEF InsertTransaction, LedgerInv, CallTyped
  <2> HIDE DEF t
  <2>2. /\ txn' \in Seq(TxnRow)
        /\ TxnIds \subseteq TxnIds'
        /\ \A i \in TxnIds : txn'[i] = txn[i]
        /\ \A i \in TxnIds' : KnownTxn(txn'[i])
    BY <2>1 DEF LedgerInv, LedgerTypeOK, TxnIds, KnownTxn
  <2>3. /\ ledgerCall' \in [Desks -> LedgerCalls]
        /\ \A e \in Desks : CallTyped(ledgerCall'[e])
    BY <2>1, IdleTyped, CallsTyped DEF Hangup
  <2>4. \A e \in Desks : CallKnown(ledgerCall[e])'
    <3>1. \A e \in Desks : ledgerCall'[e] = LedgerIdle \/ ledgerCall'[e] = ledgerCall[e]
      BY <2>1 DEF LedgerInv, LedgerTypeOK, Hangup
    <3> QED
      BY <2>2, <3>1, IdleTyped DEF LedgerInv, CallKnown
  <2> QED
    BY <2>1, <2>2, <2>3, <2>4 DEF LedgerInv, LedgerTypeOK, BalanceNonNegative
<1> QED
  BY <1>1, <1>2

\* approve, reject, update and remove start with the transaction as they read
\* it, with another status, amount or reference number.
LEMMA EditStarts ==
  ASSUME LedgerInv, NEW d \in Desks, NEW i \in TxnIds, NEW op \in {"approve", "save"}, NEW t,
         KnownTxn(t), SameDeal(t, txn[i]), UNCHANGED ledger,
         Takes(d, [LedgerIdle EXCEPT !.op = op, !.id = i, !.txn = t])
  PROVE  LedgerInv'
<1> DEFINE c == [LedgerIdle EXCEPT !.op = op, !.id = i, !.txn = t]
<1>1. i \in Nat /\ op \in LedgerOps
  BY DEF LedgerInv, LedgerTypeOK, TxnIds, LedgerOps
<1>2. CallTyped(c)
  BY <1>1, TxnCallTyped
<1>3. c.id = i /\ c.txn = t
  BY IdleTyped DEF LedgerCalls
<1>4. Takes(d, c)
  OBVIOUS
<1> HIDE DEF c
<1> QED
  BY <1>2, <1>3, <1>4, CallStarts DEF CallKnown

LEMMA RequestKeeps ==
  ASSUME LedgerInv, NEW d \in Desks, NEW i \in TxnIds,
         \/ ApproveTransaction(d, i)
         \/ RejectTransaction(d, i)
         \/ \E status \in Status, amount \in Amounts, ref \in References :
              UpdateTransaction(d, i, status, amount, ref)
         \/ RemoveTransaction(d, i)
  PROVE  LedgerInv'
<1>0. KnownTxn(txn[i])
  BY DEF LedgerInv
<1>1. \A status \in Status :
        LET t == [txn[i] EXCEPT !.status = status]
        IN  KnownTxn(t) /\ SameDeal(t, txn[i])
  BY <1>0 DEF KnownTxn, TxnRow, SameDeal
<1>2. \A status \in Status, amount \in Nat, ref \in References :
        LET t == [txn[i] EXCEPT !.status = status, !.amount = amount, !.ref = ref]
        IN  KnownTxn(t) /\ SameDeal(t, txn[i])
  BY <1>0 DEF KnownTxn, TxnRow, SameDeal
<1>3. CASE ApproveTransaction(d, i)
  BY <1>1, <1>3, EditStarts DEF ApproveTransaction, Status
<1>4. CASE RejectTransaction(d, i)
  BY <1>1, <1>4, EditStarts DEF RejectTransaction, Edit, Status
<1>5. CASE RemoveTransaction(d, i)
  BY <1>1, <1>5, EditStarts DEF RemoveTransaction, Edit, Status
<1>6. ASSUME NEW status \in Status, NEW amount \in Amounts, NEW ref \in References,
             UpdateTransaction(d, i, status, amount, ref)
      PROVE  LedgerInv'
  BY <1>2, <1>6, EditStarts, LedgerAssumption DEF UpdateTransaction, Edit
<1> QED
  BY <1>3, <1>4, <1>5, <1>6

LEMMA SaveKeeps ==
  ASSUME LedgerInv, NEW d \in Desks, SaveTransaction(d)
  PROVE  LedgerInv'
<1> DEFINE c == ledgerCall[d]
<1>1. c.id \in TxnIds /\ KnownTxn(c.txn) /\ SameDeal(c.txn, txn[c.id]) /\ Hangup(d)
  BY DEF SaveTransaction, LedgerInv, CallTyped, CallKnown
<1>2. UNCHANGED account
  BY DEF SaveTransaction
<1>3. CASE txn' = txn
  BY <1>1, <1>2, <1>3, HungUp DEF ledger
<1>4. CASE txn' = [txn EXCEPT ![c.id] = c.txn]
  BY <1>1, <1>2, <1>4, TxnChanges DEF LedgerInv, LedgerTypeOK, BalanceNonNegative
<1> QED
  BY <1>3, <1>4 DEF SaveTransaction

-----------------------------------------------------------------------------
(* approve.                                                                *)

LEMMA BeginKeeps ==
  ASSUME LedgerInv, NEW d \in Desks, BeginApproval(d)
  PROVE  LedgerInv'
<1> DEFINE c == ledgerCall[d]
           begun == [c EXCEPT !.op = "approving"]
           read == [begun EXCEPT !.base = txn[c.id]]
           from == account[c.txn.account].balance
           to == IF c.txn.type = "TRANSFER" THEN account[c.txn.dest].balance ELSE 0
           first == [read EXCEPT !.from = from]
           next == [first EXCEPT !.to = to]
<1>1. /\ c \in LedgerCalls /\ c.from >= 0 /\ c.to >= 0 /\ c.row.balance >= 0
      /\ KnownTxn(c.txn) /\ CallKnown(c) /\ c.op = "approve"
  BY DEF BeginApproval, LedgerInv, CallTyped
<1>2. /\ from \in Int /\ from >= 0
      /\ to \in Int /\ to >= 0
  BY <1>1 DEF LedgerInv, LedgerTypeOK, BalanceNonNegative, KnownTxn, AccountRow
<1>3. c.id \in TxnIds /\ txn[c.id] \in TxnRow /\ SameDeal(c.txn, txn[c.id])
  BY <1>1 DEF CallKnown, LedgerInv, KnownTxn
<1>4. ledgerCall' = [ledgerCall EXCEPT ![d] = next] /\ UNCHANGED ledger
  BY DEF BeginApproval
<1> HIDE DEF from, to
<1>5. /\ begun \in LedgerCalls /\ begun.op = "approving" /\ begun.row = c.row
      /\ begun.txn = c.txn /\ begun.id = c.id
  BY <1>1 DEF LedgerCalls, LedgerOps
<1> HIDE DEF c, begun
<1>6. /\ read \in LedgerCalls /\ read.op = "approving" /\ read.row = c.row
      /\ read.txn = c.txn /\ read.id = c.id
  BY <1>3, <1>5 DEF LedgerCalls
<1> HIDE DEF read
<1>7. /\ first \in LedgerCalls /\ first.op = "approving" /\ first.row = c.row
      /\ first.txn = c.txn /\ first.id = c.id /\ first.from = from
  BY <1>2, <1>6 DEF LedgerCalls
<1> HIDE DEF first
<1>8. /\ next \in LedgerCalls /\ next.op = "approving" /\ next.row = c.row
      /\ next.txn = c.txn /\ next.id = c.id /\ next.from = from /\ next.to = to
  BY <1>2, <1>7 DEF LedgerCalls
<1> HIDE DEF next
<1>9. CallTyped(next) /\ CallKnown(next)
  BY <1>1, <1>2, <1>3, <1>8 DEF CallTyped, CallKnown
<1> QED
  BY <1>4, <1>9, CallChanges

\* What save leaves of a transaction is a transaction with the same accounts.
LEMMA MergedTyped ==
  ASSUME NEW base \in TxnRow, NEW t, KnownTxn(t), NEW stored, KnownTxn(stored),
         SameDeal(t, stored)
  PROVE  KnownTxn(Merged(base, t, stored)) /\ SameDeal(Merged(base, t, stored), stored)
<1>1. Merged(base, t, stored) \in TxnRow
  BY DEF Merged, TxnRow, KnownTxn
<1>2. SameDeal(Merged(base, t, stored), stored)
  BY DEF Merged, TxnRow, KnownTxn, SameDeal
<1> QED
  BY <1>1, <1>2 DEF KnownTxn, SameDeal

LEMMA CommitKeeps ==
  ASSUME LedgerInv, NEW d \in Desks, CommitApproval(d)
  PROVE  LedgerInv'
<1> DEFINE c == ledgerCall[d]
           t == Merged(c.base, c.txn, txn[c.id])
<1>1. /\ c \in LedgerCalls /\ c.from >= 0 /\ c.to >= 0
      /\ KnownTxn(c.txn) /\ c.id \in TxnIds /\ SameDeal(c.txn, txn[c.id])
  BY DEF CommitApproval, LedgerInv, CallTyped, CallKnown
<1>2. c.base \in TxnRow /\ c.from \in Int /\ c.to \in Int /\ c.txn.amount \in Nat
  BY <1>1 DEF LedgerCalls, KnownTxn, TxnRow
<1>3. txn' = [txn EXCEPT ![c.id] = t] /\ account' = Posted(c) /\ Affordable(c) /\ Hangup(d)
  BY DEF CommitApproval
<1>4. KnownTxn(t) /\ SameDeal(t, txn[c.id])
  BY <1>1, <1>2, MergedTyped DEF LedgerInv
<1>5. NewBalance(c) \in Int /\ NewBalance(c) >= 0
  <2>1. c.txn.type \in Types
    BY <1>1 DEF KnownTxn, TxnRow
  <2> QED
    BY <1>1, <1>2, <1>3, <2>1 DEF NewBalance, Affordable, Types
<1> HIDE DEF t
<1>6. /\ account' \in [Accounts -> AccountRow]
      /\ \A a \in Accounts : account'[a].balance >= 0
  <2> DEFINE credit == [account EXCEPT ![c.txn.dest].balance = c.to + c.txn.amount]
             credited == IF c.txn.type = "TRANSFER" THEN credit ELSE account
             new == NewBalance(c)
             source == c.txn.account
  <2>1. /\ account \in [Accounts -> AccountRow]
        /\ \A a \in Accounts : account[a].balance >= 0
    BY DEF LedgerInv, LedgerTypeOK, BalanceNonNegative
  <2>2. c.txn.type = "TRANSFER" => c.txn.dest \in Accounts
    BY <1>1 DEF KnownTxn
  <2>3. /\ credited \in [Accounts -> AccountRow]
        /\ \A a \in Accounts : credited[a].balance >= 0
    BY <1>1, <1>2, <2>1, <2>2 DEF AccountRow
  <2>4. source \in Accounts
    BY <1>1 DEF KnownTxn
  <2>5. account' = account \/ account' = [credited EXCEPT ![source].balance = new]
    BY <1>3 DEF Posted
  <2> HIDE DEF credited, source, new
  <2>6. new \in Int /\ new >= 0
    BY <1>5 DEF new
  <2>7. /\ [credited EXCEPT ![source].balance = new] \in [Accounts -> AccountRow]
        /\ \A a \in Accounts : [credited EXCEPT ![source].balance = new][a].balance >= 0
    BY <2>3, <2>4, <2>6 DEF AccountRow
  <2> QED
    BY <2>1, <2>5, <2>7
<1> HIDE DEF c
<1> QED
  BY <1>1, <1>3, <1>4, <1>6, TxnChanges

-----------------------------------------------------------------------------
(* Accounts.                                                               *)

LEMMA ClearedTyped ==
  ASSUME LedgerInv, NEW others
  PROVE  /\ Cleared(others) \in [Accounts -> AccountRow]
         /\ \A a \in Accounts : Cleared(others)[a].balance >= 0
  BY DEF LedgerInv, LedgerTypeOK, BalanceNonNegative, Cleared, AccountRow

LEMMA AccountCallTyped ==
  ASSUME NEW op \in {"openAccount", "changeAccount", "storeAccount", "removeAccount"},
         NEW a \in Accounts, NEW row \in AccountRow, row.balance >= 0
  PROVE  /\ CallTyped([LedgerIdle EXCEPT !.op = op, !.account = a, !.row = row])
         /\ CallKnown([LedgerIdle EXCEPT !.op = op, !.account = a, !.row = row])
         /\ CallTyped([LedgerIdle EXCEPT !.op = op, !.account = a])
         /\ CallKnown([LedgerIdle EXCEPT !.op = op, !.account = a])
<1> DEFINE called == [LedgerIdle EXCEPT !.op = op]
           chosen == [called EXCEPT !.account = a]
           new == [chosen EXCEPT !.row = row]
<1>1. /\ called \in LedgerCalls /\ called.op = op
      /\ called.from >= 0 /\ called.to >= 0 /\ called.row.balance >= 0
  BY IdleTyped DEF LedgerCalls, CallTyped, LedgerOps
<1> HIDE DEF called
<1>2. /\ chosen \in LedgerCalls /\ chosen.op = op /\ chosen.account = a
      /\ chosen.from >= 0 /\ chosen.to >= 0 /\ chosen.row.balance >= 0
  BY <1>1 DEF LedgerCalls
<1> HIDE DEF chosen
<1>3. /\ new \in LedgerCalls /\ new.op = op /\ new.account = a
      /\ new.from >= 0 /\ new.to >= 0 /\ new.row.balance >= 0
  BY <1>2 DEF LedgerCalls
<1> HIDE DEF new
<1>4. CallTyped(chosen) /\ CallKnown(chosen) /\ CallTyped(new) /\ CallKnown(new)
  BY <1>2, <1>3 DEF CallTyped, CallKnown
<1> QED
  BY <1>4 DEF called, chosen, new

LEMMA AccountStarts ==
  ASSUME LedgerInv, NEW d \in Desks, NEW a \in Accounts,
         \/ \E opening \in Nat, default \in BOOLEAN : OpenAccount(d, a, opening, default)
         \/ \E active \in BOOLEAN, isDefault \in {"yes", "no", "keep"} :
              ChangeAccount(d, a, active, isDefault)
         \/ RemoveAccount(d, a)
  PROVE  LedgerInv'
<1>0. account[a] \in AccountRow /\ account[a].balance >= 0
  BY DEF LedgerInv, LedgerTypeOK, BalanceNonNegative
<1>1. ASSUME NEW opening \in Nat, NEW default \in BOOLEAN, OpenAccount(d, a, opening, default)
      PROVE  LedgerInv'
  <2> DEFINE row == [ exists |-> TRUE, opening |-> opening, balance |-> opening,
                      active |-> TRUE, default |-> default ]
             c == [LedgerIdle EXCEPT !.op = "openAccount", !.account = a, !.row = row]
  <2>1. /\ ledgerCall' = [ledgerCall EXCEPT ![d] = c] /\ UNCHANGED txn
        /\ account' = Cleared(Accounts) \/ account' = account
    BY <1>1 DEF OpenAccount, Takes
  <2>2. row \in AccountRow /\ row.balance >= 0
    BY DEF AccountRow
  <2> HIDE DEF row
  <2>3. CallTyped(c) /\ CallKnown(c)
    BY <2>2, AccountCallTyped
  <2> HIDE DEF c
  <2>4. /\ account' \in [Accounts -> AccountRow]
        /\ \A b \in Accounts : account'[b].balance >= 0
    BY <2>1, ClearedTyped DEF LedgerInv, LedgerTypeOK, BalanceNonNegative
  <2> QED
    BY <2>1, <2>3, <2>4, AccountsChange
<1>2. ASSUME NEW active \in BOOLEAN, NEW isDefault \in {"yes", "no", "keep"},
             ChangeAccount(d, a, active, isDefault)
      PROVE  LedgerInv'
  <2> DEFINE op == IF isDefault = "yes" THEN "changeAccount" ELSE "storeAccount"
             row == [account[a] EXCEPT
                       !.active = active,
                       !.default = isDefault = "yes" \/ (isDefault = "keep" /\ @)]
             c == [LedgerIdle EXCEPT !.op = op, !.account = a, !.row = row]
  <2>1. Takes(d, c) /\ UNCHANGED ledger
    BY <1>2 DEF ChangeAccount
  <2>2. row \in AccountRow /\ row.balance >= 0
    BY <1>0 DEF AccountRow
  <2>3. op \in {"openAccount", "changeAccount", "storeAccount", "removeAccount"}
    OBVIOUS
  <2> HIDE DEF op, row
  <2>4. CallTyped(c) /\ CallKnown(c)
    BY <2>2, <2>3, AccountCallTyped
  <2> HIDE DEF c
  <2> QED
    BY <2>1, <2>4, CallStarts
<1>3. CASE RemoveAccount(d, a)
  BY <1>0, <1>3, AccountCallTyped, CallStarts DEF RemoveAccount
<1> QED
  BY <1>1, <1>2, <1>3

LEMMA AccountKeeps ==
  ASSUME LedgerInv, NEW d \in Desks,
         InsertAccount(d) \/ ClearOtherDefaults(d) \/ StoreAccount(d) \/ DeleteAccount(d)
  PROVE  LedgerInv'
<1> DEFINE c == ledgerCall[d]
<1>1. /\ c.account \in Accounts /\ c.row \in AccountRow /\ c.row.balance >= 0
      /\ c \in LedgerCalls /\ CallTyped(c)
  BY DEF InsertAccount, ClearOtherDefaults, StoreAccount, DeleteAccount, LedgerInv, CallTyped,
         LedgerCalls
<1>2. UNCHANGED txn
  BY DEF InsertAccount, ClearOtherDefaults, StoreAccount, DeleteAccount
<1>3. NoAccountRow \in AccountRow /\ NoAccountRow.balance >= 0
  BY DEF NoAccountRow, AccountRow
<1>4. \/ \E row \in {c.row, NoAccountRow} : account' = [account EXCEPT ![c.account] = row]
      \/ account' = Cleared(Accounts \ {c.account})
      \/ account' = account
  BY DEF InsertAccount, ClearOtherDefaults, StoreAccount, DeleteAccount
<1>5. /\ account' \in [Accounts -> AccountRow]
      /\ \A a \in Accounts : account'[a].balance >= 0
  BY <1>1, <1>3, <1>4, ClearedTyped DEF LedgerInv, LedgerTypeOK, BalanceNonNegative
<1>6. CASE ClearOtherDefaults(d)
  <2> DEFINE next == [c EXCEPT !.op = "storeAccount"]
  <2>1. ledgerCall' = [ledgerCall EXCEPT ![d] = next]
    BY <1>6 DEF ClearOtherDefaults
  <2>2. CallTyped(next) /\ CallKnown(next)
    BY <1>1 DEF CallTyped, CallKnown, LedgerCalls, LedgerOps
  <2> HIDE DEF next
  <2> QED
    BY <1>2, <1>5, <2>1, <2>2, AccountsChange
<1>7. CASE Hangup(d)
  BY <1>2, <1>5, <1>7, IdleTyped, AccountsChange DEF Hangup, CallKnown
<1> QED
  BY <1>6, <1>7 DEF InsertAccount, StoreAccount, DeleteAccount

-----------------------------------------------------------------------------
\* Whatever a desk has begun, every further step of it keeps the invariant.
LEMMA LedgerStepKeeps ==
  ASSUME LedgerInv, NEW d \in Desks, LedgerStep(d)
  PROVE  LedgerInv'
  BY InsertKeeps, BeginKeeps, CommitKeeps, HungUp, SaveKeeps, AccountKeeps
  DEF LedgerStep, RollbackApproval

LEMMA LedgerRequestKeeps ==
  ASSUME LedgerInv, NEW d \in Desks, LedgerRequest(d)
  PROVE  LedgerInv'
<1> USE LedgerAssumption
<1>1. ASSUME NEW t \in NewTransactions, CreateTransaction(d, t) PROVE LedgerInv'
  <2>1. t \in TxnRow
    BY DEF NewTransactions, TxnRow, Status, Categories, References, NoReference
  <2> QED
    BY <1>1, <2>1, CreateKeeps
<1>2. ASSUME NEW i \in TxnIds, NEW status \in Status, NEW amount \in Amounts,
             NEW ref \in NewReferences \cup {txn[i].ref},
             UpdateTransaction(d, i, status, amount, ref)
      PROVE  LedgerInv'
  <2>1. ref \in References
    BY DEF LedgerInv, KnownTxn, TxnRow
  <2> QED
    BY <1>2, <2>1, RequestKeeps
<1>3. ASSUME NEW i \in TxnIds,
             ApproveTransaction(d, i) \/ RejectTransaction(d, i) \/ RemoveTransaction(d, i)
      PROVE  LedgerInv'
  BY <1>3, RequestKeeps
<1>4. ASSUME NEW a \in Accounts,
             \/ \E opening \in Openings, default \in BOOLEAN : OpenAccount(d, a, opening, default)
             \/ \E active \in BOOLEAN, isDefault \in {"yes", "no", "keep"} :
                  ChangeAccount(d, a, active, isDefault)
             \/ RemoveAccount(d, a)
      PROVE  LedgerInv'
  BY <1>4, AccountStarts
<1> QED
  BY <1>1, <1>2, <1>3, <1>4 DEF LedgerRequest

LEMMA LedgerStutters ==
  ASSUME LedgerInv, UNCHANGED ledgerVars
  PROVE  LedgerInv'
  BY DEF LedgerInv, LedgerTypeOK, BalanceNonNegative, TxnIds, CallTyped, CallKnown, ledgerVars

\* The books on their own, whatever any number of accountants do at the same
\* time: no balance ever becomes negative.
THEOREM BooksSafe == LedgerSpec => [](LedgerTypeOK /\ BalanceNonNegative)
<1>1. LedgerInv /\ [LedgerNext]_ledgerVars => LedgerInv'
  BY LedgerStepKeeps, LedgerRequestKeeps, LedgerStutters DEF LedgerNext
<1>2. LedgerInv => LedgerTypeOK /\ BalanceNonNegative
  BY DEF LedgerInv
<1> QED
  BY InitLedgerInv, <1>1, <1>2, PTL DEF LedgerSpec

-----------------------------------------------------------------------------
\* The warehouses.

\* A stock row whose two columns agree on a quantity that is not negative.
Sound(row) == row \in StockRow /\ row.available = row.quantity /\ row.quantity >= 0

\* A movement of a product between warehouses that updateStockQuantity can find.
KnownMovement(m) ==
  /\ m \in MovementRow
  /\ m.product \in Products
  /\ m.warehouse \in Warehouses
  /\ m.type = "TRANSFER" => m.dest \in Warehouses
  /\ m.after >= 0

\* What no handler changes of a movement.
SameGoods(m, n) ==
  /\ m.type = n.type /\ m.product = n.product /\ m.order = n.order
  /\ m.warehouse = n.warehouse /\ m.dest = n.dest

\* What a request has read and computed.
StockCallTyped(c) ==
  /\ c \in StockCalls
  /\ Sound(c.stockBase) /\ Sound(c.stock) /\ Sound(c.destBase) /\ Sound(c.dest)
  /\ c.op \in {"insert", "adjust", "approve", "reaching", "moving", "save"} =>
       KnownMovement(c.movement)
  /\ c.op \in {"reaching"} => c.movement.type = "TRANSFER"
  /\ c.op \in {"openWarehouse", "changeWarehouse", "storeWarehouse", "removeWarehouse"} =>
       c.warehouse \in Warehouses

StockCallKnown(c) ==
  /\ c.op \in {"check", "approve", "reaching", "moving", "save"} => c.id \in MovementIds
  /\ c.op \in {"approve", "reaching", "moving", "save"} => SameGoods(c.movement, movement[c.id])

\* StockNotOverdrawn is not inductive: quantity is taken from what was read,
\* after a test of available_quantity, and merged into what is stored.
InventoryInv ==
  /\ InventoryTypeOK
  /\ \A x \in Places : Sound(stock[x])
  /\ \A i \in MovementIds : KnownMovement(movement[i])
  /\ \A d \in Desks : StockCallTyped(stockCall[d]) /\ StockCallKnown(stockCall[d])

LEMMA StockIdleTyped ==
  StockIdle \in StockCalls /\ StockCallTyped(StockIdle) /\ StockIdle.op = "idle"
  BY DEF StockIdle, StockCalls, StockCallTyped, StockOps, NoMovement, NoStock, NoWarehouseRow,
         MovementRow, StockRow, WarehouseRow, MovementTypes, MovementStatus, AlertLevels, Sound

LEMMA MovedSound ==
  ASSUME NEW row, Sound(row), NEW delta \in Int, row.quantity + delta >= 0
  PROVE  Sound(Moved(row, delta)) /\ Moved(row, delta).quantity = row.quantity + delta
<1> DEFINE counted == [row EXCEPT !.quantity = @ + delta]
           offered == [counted EXCEPT !.available = @ + delta]
           alert == AlertOf(row.quantity + delta)
<1>1. /\ counted \in StockRow /\ counted.available = row.available
      /\ counted.quantity = row.quantity + delta
  BY DEF Sound, StockRow
<1> HIDE DEF counted
<1>2. /\ offered \in StockRow /\ offered.available = row.available + delta
      /\ offered.quantity = row.quantity + delta
  BY <1>1 DEF Sound, StockRow
<1> HIDE DEF offered
<1>3. alert \in AlertLevels
  BY DEF AlertOf, AlertLevels
<1> HIDE DEF alert
<1>4. LET new == [offered EXCEPT !.alert = alert]
      IN  Sound(new) /\ new.quantity = row.quantity + delta
  BY <1>2, <1>3 DEF Sound, StockRow
<1> QED
  BY <1>4 DEF Moved, counted, offered, alert

LEMMA WithStockSound ==
  ASSUME InventoryInv, NEW x \in Places
  PROVE  /\ WithStock(x) \in [Places -> StockRow]
         /\ \A y \in Places : Sound(WithStock(x)[y])
<1>1. Sound(EmptyStock)
  BY DEF EmptyStock, Sound, StockRow, AlertLevels
<1> QED
  BY <1>1 DEF InventoryInv, InventoryTypeOK, WithStock, Sound

LEMMA InitInventoryInv == InventoryInit => InventoryInv
<1> SUFFICES ASSUME InventoryInit PROVE InventoryInv
  OBVIOUS
<1>1. \A x \in Places : Sound(stock[x])
  <2>1. Sound(NoStock) /\ Sound(EmptyStock) /\ EmptyStock.quantity = 0
    BY DEF NoStock, EmptyStock, Sound, StockRow, AlertLevels
  <2>2. \A x \in Places : Sound(Moved(EmptyStock, InitialStock[x]))
    BY <2>1, MovedSound, InventoryAssumption
  <2> QED
    BY <2>1, <2>2 DEF InventoryInit
<1>2. stock \in [Places -> StockRow]
  BY <1>1 DEF InventoryInit, Sound
<1>3. warehouse \in [Warehouses -> WarehouseRow]
  BY DEF InventoryInit, WarehouseRow, NoWarehouseRow
<1>4. movement \in Seq(MovementRow) /\ MovementIds = {}
  BY DEF InventoryInit, MovementIds
<1>5. stockCall \in [Desks -> StockCalls] /\ \A d \in Desks : stockCall[d] = StockIdle
  BY StockIdleTyped DEF InventoryInit
<1> QED
  BY <1>1, <1>2, <1>3, <1>4, <1>5, StockIdleTyped DEF InventoryInv, InventoryTypeOK, StockCallKnown

\* A step changes the call at one desk and the warehouses or the stock.
LEMMA StockCallsTyped ==
  ASSUME InventoryInv, NEW d \in Desks, NEW c, StockCallTyped(c),
         stockCall' = [stockCall EXCEPT ![d] = c]
  PROVE  /\ stockCall' \in [Desks -> StockCalls]
         /\ \A e \in Desks : StockCallTyped(stockCall'[e])
         /\ \A e \in Desks : stockCall'[e] = c \/ stockCall'[e] = stockCall[e]
  BY DEF InventoryInv, InventoryTypeOK, StockCallTyped

LEMMA StockChanges ==
  ASSUME InventoryInv, NEW d \in Desks, NEW c, StockCallTyped(c), StockCallKnown(c),
         stockCall' = [stockCall EXCEPT ![d] = c], UNCHANGED movement,
         warehouse' \in [Warehouses -> WarehouseRow],
         stock' \in [Places -> StockRow], \A x \in Places : Sound(stock'[x])
  PROVE  InventoryInv'
<1>1. /\ stockCall' \in [Desks -> StockCalls]
      /\ \A e \in Desks : StockCallTyped(stockCall'[e])
      /\ \A e \in Desks : stockCall'[e] = c \/ stockCall'[e] = stockCall[e]
  BY StockCallsTyped
<1>2. \A e \in Desks : StockCallKnown(stockCall[e])'
  BY <1>1 DEF InventoryInv, StockCallKnown, MovementIds
<1> QED
  BY <1>1, <1>2 DEF InventoryInv, InventoryTypeOK, MovementIds

LEMMA StockCallChanges ==
  ASSUME InventoryInv, NEW d \in Desks, NEW c, StockCallTyped(c), StockCallKnown(c),
         stockCall' = [stockCall EXCEPT ![d] = c], UNCHANGED inventory
  PROVE  InventoryInv'
  BY StockChanges DEF InventoryInv, InventoryTypeOK, inventory

LEMMA Finished ==
  ASSUME InventoryInv, NEW d \in Desks, Finish(d), UNCHANGED inventory
  PROVE  InventoryInv'
  BY StockIdleTyped, StockCallChanges DEF Finish, StockCallKnown

\* A movement is saved: its type, its product and its places stay.
LEMMA MovementChanges ==
  ASSUME InventoryInv, NEW d \in Desks, NEW i \in MovementIds, NEW m, KnownMovement(m),
         SameGoods(m, movement[i]), movement' = [movement EXCEPT ![i] = m], Finish(d),
         UNCHANGED warehouse,
         stock' \in [Places -> StockRow], \A x \in Places : Sound(stock'[x])
  PROVE  InventoryInv'
<1>1. /\ stockCall' \in [Desks -> StockCalls]
      /\ \A e \in Desks : StockCallTyped(stockCall'[e])
      /\ \A e \in Desks : stockCall'[e] = StockIdle \/ stockCall'[e] = stockCall[e]
  BY StockIdleTyped, StockCallsTyped DEF Finish
<1>2. movement' \in Seq(MovementRow) /\ MovementIds' = MovementIds
  BY DEF InventoryInv, InventoryTypeOK, MovementIds, KnownMovement
<1>3. \A j \in MovementIds : KnownMovement(movement'[j]) /\ SameGoods(movement'[j], movement[j])
  BY DEF InventoryInv, InventoryTypeOK, MovementIds, SameGoods
<1>4. \A e \in Desks : StockCallKnown(stockCall[e])'
  BY <1>1, <1>2, <1>3, StockIdleTyped DEF InventoryInv, StockCallKnown, SameGoods
<1> QED
  BY <1>1, <1>2, <1>3, <1>4 DEF InventoryInv, InventoryTypeOK

-----------------------------------------------------------------------------
(* create and adjustStock.                                                 *)

\* The calls that work on a movement m, which is new or has been found.
LEMMA NewMovementTyped ==
  ASSUME NEW op \in {"insert", "adjust"}, NEW m, KnownMovement(m)
  PROVE  LET c == [StockIdle EXCEPT !.op = op, !.movement = m]
         IN  StockCallTyped(c) /\ c.op = op
<1> DEFINE called == [StockIdle EXCEPT !.op = op]
<1>1. /\ called \in StockCalls /\ called.op = op
      /\ Sound(called.stockBase) /\ Sound(called.stock)
      /\ Sound(called.destBase) /\ Sound(called.dest)
  BY StockIdleTyped DEF StockCalls, StockCallTyped, StockOps
<1> HIDE DEF called
<1>2. LET c == [called EXCEPT !.movement = m]
      IN  StockCallTyped(c) /\ c.op = op
  BY <1>1 DEF StockCallTyped, StockCalls, KnownMovement
<1> QED
  BY <1>2 DEF called

FoundMovement(op, i, m) == [StockIdle EXCEPT !.op = op, !.id = i, !.movement = m]

LEMMA FoundMovementTyped ==
  ASSUME NEW op \in {"approve", "save"}, NEW i \in Nat, NEW m, KnownMovement(m)
  PROVE  LET c == FoundMovement(op, i, m)
         IN  StockCallTyped(c) /\ c.op = op /\ c.id = i /\ c.movement = m
<1> DEFINE called == [StockIdle EXCEPT !.op = op]
           found == [called EXCEPT !.id = i]
<1>1. /\ called \in StockCalls /\ called.op = op
      /\ Sound(called.stockBase) /\ Sound(called.stock)
      /\ Sound(called.destBase) /\ Sound(called.dest)
  BY StockIdleTyped DEF StockCalls, StockCallTyped, StockOps
<1> HIDE DEF called
<1>2. /\ found \in StockCalls /\ found.op = op /\ found.id = i
      /\ Sound(found.stockBase) /\ Sound(found.stock)
      /\ Sound(found.destBase) /\ Sound(found.dest)
  BY <1>1 DEF StockCalls
<1> HIDE DEF found
<1>3. LET c == [found EXCEPT !.movement = m]
      IN  StockCallTyped(c) /\ c.op = op /\ c.id = i /\ c.movement = m
  BY <1>2 DEF StockCallTyped, StockCalls, KnownMovement
<1> QED
  BY <1>3 DEF called, found, FoundMovement

LEMMA NumberingTyped ==
  ASSUME InventoryInv, NEW type
  PROVE  Numbering(type) \in Nat
<1>1. IsFiniteSet(MovementIds)
  BY FS_Interval DEF InventoryInv, InventoryTypeOK, MovementIds
<1>2. IsFiniteSet({ i \in MovementIds : movement[i].type = type })
  BY <1>1, FS_Subset
<1> QED
  BY <1>2, FS_CardinalityType DEF Numbering

LEMMA CreateMovementKeeps ==
  ASSUME InventoryInv, NEW d \in Desks, NEW m \in MovementRow,
         m.product \in Products, m.warehouse \in Warehouses, CreateMovement(d, m)
  PROVE  InventoryInv'
<1> DEFINE x == << m.product, m.warehouse >>
           number == Numbering(m.type)
           after == stock'[x].quantity
           n == [m EXCEPT !.number = number, !.after = after]
           c == [StockIdle EXCEPT !.op = "insert", !.movement = n]
<1>1. /\ stock' = WithStock(x) /\ UNCHANGED << warehouse, movement >>
      /\ stockCall' = [stockCall EXCEPT ![d] = c]
      /\ m.type = "TRANSFER" => m.dest \in Warehouses
  BY DEF CreateMovement, CreatableMovement, Handles
<1>2. x \in Places
  BY DEF Places
<1>3. stock' \in [Places -> StockRow] /\ \A y \in Places : Sound(stock'[y])
  BY <1>1, <1>2, WithStockSound
<1>4. after \in Int /\ after >= 0
  BY <1>2, <1>3 DEF Sound, StockRow
<1>5. number \in Nat
  BY NumberingTyped
<1> HIDE DEF number, after
<1>6. KnownMovement(n)
  BY <1>1, <1>4, <1>5 DEF KnownMovement, MovementRow
<1> HIDE DEF n
<1>7. StockCallTyped(c) /\ StockCallKnown(c)
  BY <1>6, NewMovementTyped DEF StockOps, StockCallKnown
<1> HIDE DEF c
<1> QED
  BY <1>1, <1>3, <1>7, StockChanges DEF InventoryInv, InventoryTypeOK

LEMMA AdjustKeeps ==
  ASSUME InventoryInv, NEW d \in Desks, NEW p \in Products, NEW w \in Warehouses,
         \/ \E q \in Nat : AdjustStock(d, p, w, q)
         \/ AdjustNothing(d, p, w)
  PROVE  InventoryInv'
<1> DEFINE x == << p, w >>
           before == WithStock(x)[x].quantity
<1>1. x \in Places
  BY DEF Places
<1>2. /\ WithStock(x) \in [Places -> StockRow]
      /\ \A y \in Places : Sound(WithStock(x)[y])
      /\ before \in Int
  BY <1>1, WithStockSound DEF Sound, StockRow
<1>3. ASSUME NEW q \in Nat, AdjustStock(d, p, w, q) PROVE InventoryInv'
  <2> DEFINE number == Numbering("ADJUSTMENT")
             change == IF q > before THEN q - before ELSE before - q
             n == [ type |-> "ADJUSTMENT", status |-> "PENDING", product |-> p,
                    warehouse |-> w, dest |-> NoWarehouse, quantity |-> change,
                    after |-> q, number |-> number, order |-> NoOrder ]
             c == [StockIdle EXCEPT !.op = "adjust", !.movement = n]
  <2>1. /\ stock' = WithStock(x) /\ UNCHANGED << warehouse, movement >>
        /\ stockCall' = [stockCall EXCEPT ![d] = c]
    BY <1>3 DEF AdjustStock, Handles
  <2>2. number \in Nat
    BY NumberingTyped
  <2>3. change \in Nat
    BY <1>2
  <2> HIDE DEF number, change
  <2>4. KnownMovement(n)
    BY <2>2, <2>3 DEF KnownMovement, MovementRow, MovementTypes, MovementStatus
  <2> HIDE DEF n
  <2>5. StockCallTyped(c) /\ StockCallKnown(c)
    BY <2>4, NewMovementTyped DEF StockOps, StockCallKnown
  <2> HIDE DEF c
  <2> QED
    BY <1>2, <2>1, <2>5, StockChanges DEF InventoryInv, InventoryTypeOK
<1>4. CASE AdjustNothing(d, p, w)
  <2> DEFINE c == stockCall[d]
  <2>1. /\ stock' = WithStock(x) /\ UNCHANGED << warehouse, movement >>
        /\ stockCall' = [stockCall EXCEPT ![d] = c]
        /\ StockCallTyped(c) /\ StockCallKnown(c)
    BY <1>4 DEF AdjustNothing, InventoryInv, InventoryTypeOK
  <2> QED
    BY <1>2, <2>1, StockChanges DEF InventoryInv, InventoryTypeOK
<1> QED
  BY <1>3, <1>4

LEMMA InsertMovementKeeps ==
  ASSUME InventoryInv, NEW d \in Desks, InsertMovement(d)
  PROVE  InventoryInv'
<1> DEFINE m == stockCall[d].movement
           adjusted == [StockIdle EXCEPT !.op = "check", !.id = Len(movement) + 1]
<1>1. /\ KnownMovement(m) /\ movement' = Append(movement, m) /\ UNCHANGED << warehouse, stock >>
      /\ stockCall' \in {[stockCall EXCEPT ![d] = adjusted], [stockCall EXCEPT ![d] = StockIdle]}
  BY DEF InsertMovement, InventoryInv, StockCallTyped, Finish
<1> HIDE DEF m
<1>2. /\ movement' \in Seq(MovementRow)
      /\ MovementIds \subseteq MovementIds'
      /\ Len(movement) + 1 \in MovementIds'
      /\ \A i \in MovementIds : movement'[i] = movement[i]
      /\ \A i \in MovementIds' : KnownMovement(movement'[i])
  BY <1>1 DEF InventoryInv, InventoryTypeOK, MovementIds, KnownMovement
<1>3. StockCallTyped(adjusted) /\ adjusted.op = "check" /\ adjusted.id = Len(movement) + 1
  <2> DEFINE called == [StockIdle EXCEPT !.op = "check"]
             id == Len(movement) + 1
  <2>1. /\ called \in StockCalls /\ called.op = "check"
        /\ Sound(called.stockBase) /\ Sound(called.stock) /\ Sound(called.destBase)
        /\ Sound(called.dest)
    BY StockIdleTyped DEF StockCalls, StockCallTyped, StockOps
  <2> HIDE DEF called
  <2>2. id \in Nat
    BY DEF InventoryInv, InventoryTypeOK
  <2> HIDE DEF id
  <2>3. LET c == [called EXCEPT !.id = id]
        IN  StockCallTyped(c) /\ c.op = "check" /\ c.id = id
    BY <2>1, <2>2 DEF StockCallTyped, StockCalls
  <2> QED
    BY <2>3 DEF called, id
<1> HIDE DEF adjusted
<1>4. /\ stockCall' \in [Desks -> StockCalls]
      /\ \A e \in Desks : StockCallTyped(stockCall'[e])
      /\ \A e \in Desks : stockCall'[e] \in {adjusted, StockIdle, stockCall[e]}
  BY <1>1, <1>3, StockIdleTyped, StockCallsTyped
<1>5. \A e \in Desks : StockCallKnown(stockCall[e])'
  BY <1>2, <1>3, <1>4, StockIdleTyped DEF InventoryInv, StockCallKnown
<1> QED
  BY <1>1, <1>2, <1>4, <1>5 DEF InventoryInv, InventoryTypeOK

-----------------------------------------------------------------------------
(* approve, reject and update.                                             *)

\* They start with the movement as they read it, with another status or
\* quantity.
LEMMA MovementEditStarts ==
  ASSUME InventoryInv, NEW d \in Desks, NEW i \in MovementIds, NEW op \in {"approve", "save"},
         NEW m, KnownMovement(m), SameGoods(m, movement[i]), UNCHANGED inventory,
         stockCall' = [stockCall EXCEPT ![d] = FoundMovement(op, i, m)]
  PROVE  InventoryInv'
<1> DEFINE c == FoundMovement(op, i, m)
<1>1. i \in Nat
  BY DEF InventoryInv, InventoryTypeOK, MovementIds
<1>2. StockCallTyped(c) /\ c.op = op /\ c.id = i /\ c.movement = m
  BY <1>1, FoundMovementTyped
<1>3. stockCall' = [stockCall EXCEPT ![d] = c]
  OBVIOUS
<1> HIDE DEF c
<1> QED
  BY <1>2, <1>3, StockCallChanges DEF StockCallKnown

LEMMA MovementRequestKeeps ==
  ASSUME InventoryInv, NEW d \in Desks, NEW i \in MovementIds,
         \/ ApproveMovement(d, i)
         \/ RejectMovement(d, i)
         \/ \E status \in MovementStatus, q \in Nat : UpdateMovement(d, i, status, q)
  PROVE  InventoryInv'
<1>0. KnownMovement(movement[i])
  BY DEF InventoryInv
<1>1. \A status \in MovementStatus :
        LET m == [movement[i] EXCEPT !.status = status]
        IN  KnownMovement(m) /\ SameGoods(m, movement[i])
  BY <1>0 DEF KnownMovement, MovementRow, SameGoods
<1>2. \A status \in MovementStatus, q \in Nat :
        LET m == [movement[i] EXCEPT !.status = status, !.quantity = q]
        IN  KnownMovement(m) /\ SameGoods(m, movement[i])
  BY <1>0 DEF KnownMovement, MovementRow, SameGoods
<1>3. CASE ApproveMovement(d, i)
  BY <1>1, <1>3, MovementEditStarts DEF ApproveMovement, Approving, Handles, MovementStatus,
    FoundMovement
<1>4. CASE RejectMovement(d, i)
  BY <1>1, <1>4, MovementEditStarts DEF RejectMovement, EditMovement, Handles, MovementStatus,
    FoundMovement
<1>5. ASSUME NEW status \in MovementStatus, NEW q \in Nat, UpdateMovement(d, i, status, q)
      PROVE  InventoryInv'
  BY <1>2, <1>5, MovementEditStarts DEF UpdateMovement, EditMovement, Handles, FoundMovement
<1> QED
  BY <1>3, <1>4, <1>5

LEMMA CheckKeeps ==
  ASSUME InventoryInv, NEW d \in Desks, CheckAdjustment(d)
  PROVE  InventoryInv'
<1> DEFINE i == stockCall[d].id
           m == [movement[i] EXCEPT !.status = "APPROVED"]
<1>1. i \in MovementIds /\ KnownMovement(movement[i])
  BY DEF CheckAdjustment, InventoryInv, StockCallKnown
<1>2. KnownMovement(m) /\ SameGoods(m, movement[i])
  BY <1>1 DEF KnownMovement, MovementRow, SameGoods, MovementStatus
<1> QED
  BY <1>1, <1>2, MovementEditStarts, Finished DEF CheckAdjustment, Approving, FoundMovement

LEMMA SaveMovementKeeps ==
  ASSUME InventoryInv, NEW d \in Desks, SaveMovement(d)
  PROVE  InventoryInv'
<1> DEFINE c == stockCall[d]
<1>1. c.id \in MovementIds /\ KnownMovement(c.movement) /\ SameGoods(c.movement, movement[c.id])
  BY DEF SaveMovement, InventoryInv, StockCallTyped, StockCallKnown
<1> QED
  BY <1>1, MovementChanges DEF SaveMovement, InventoryInv, InventoryTypeOK

\* updateStockQuantity keeps a row sound when there is enough.
LEMMA StockAfterSound ==
  ASSUME NEW row, Sound(row), NEW m, KnownMovement(m), Enough(row, m)
  PROVE  Sound(StockAfter(row, m))
<1>0. row.quantity \in Int /\ m.quantity \in Nat /\ m.type \in MovementTypes
  BY DEF Sound, StockRow, KnownMovement, MovementRow
<1>1. CASE m.type = "IN"
  BY <1>0, <1>1, MovedSound DEF StockAfter, Sound
<1>2. CASE m.type \in {"OUT", "TRANSFER"}
  <2>1. row.quantity + (-m.quantity) >= 0
    BY <1>0, <1>2 DEF Enough, Sound
  <2>2. Sound(Moved(row, -m.quantity))
    BY <1>0, <2>1, MovedSound
  <2> QED
    BY <1>2, <2>2 DEF StockAfter
<1>3. CASE m.type = "ADJUSTMENT"
  <2> DEFINE after == m.after
             alert == AlertOf(after)
  <2>1. after \in Int /\ after >= 0 /\ alert \in AlertLevels
    BY DEF KnownMovement, MovementRow, AlertOf, AlertLevels
  <2>2. StockAfter(row, m) =
          [row EXCEPT !.quantity = after, !.available = after, !.alert = alert]
    BY <1>3 DEF StockAfter
  <2> HIDE DEF after, alert
  <2> QED
    BY <2>1, <2>2 DEF Sound, StockRow
<1> QED
  BY <1>0, <1>1, <1>2, <1>3 DEF MovementTypes

LEMMA BeginMovementKeeps ==
  ASSUME InventoryInv, NEW d \in Desks, BeginMovement(d)
  PROVE  InventoryInv'
<1> DEFINE c == stockCall[d]
           m == c.movement
           row == stock[<< m.product, m.warehouse >>]
           new == StockAfter(row, m)
           op == IF m.type = "TRANSFER" THEN "reaching" ELSE "moving"
           destRow == IF m.type = "TRANSFER" THEN stock[<< m.product, m.dest >>] ELSE NoStock
           saved == [m EXCEPT !.after = new.quantity]
           base == movement[c.id]
           c1 == [c EXCEPT !.op = op]
           c2 == [c1 EXCEPT !.base = base]
           c3 == [c2 EXCEPT !.stockBase = row]
           c4 == [c3 EXCEPT !.stock = new]
           c5 == [c4 EXCEPT !.destBase = destRow]
           c6 == [c5 EXCEPT !.movement = saved]
           Reads(r) == r \in StockCalls /\ r.op = op /\ r.id = c.id
<1>1. /\ StockCallTyped(c) /\ StockCallKnown(c) /\ c.op = "approve" /\ KnownMovement(m)
      /\ Enough(row, m)
      /\ c.id \in MovementIds /\ SameGoods(m, movement[c.id])
  BY DEF BeginMovement, InventoryInv, StockCallTyped, StockCallKnown
<1>2. Sound(row) /\ Sound(destRow)
  <2>1. Sound(NoStock)
    BY DEF NoStock, Sound, StockRow, AlertLevels
  <2> QED
    BY <1>1, <2>1 DEF InventoryInv, KnownMovement, Places
<1>3. Sound(new)
  BY <1>1, <1>2, StockAfterSound
<1>4. KnownMovement(saved) /\ SameGoods(saved, movement[c.id]) /\ saved.type = m.type
  BY <1>1, <1>3 DEF KnownMovement, MovementRow, SameGoods, Sound, StockRow
<1>5. base \in MovementRow
  BY <1>1 DEF InventoryInv, KnownMovement
<1>6. stockCall' = [stockCall EXCEPT ![d] = c6] /\ UNCHANGED inventory
  BY DEF BeginMovement
<1>7. op \in StockOps /\ op \in {"reaching", "moving"} /\ (op = "reaching" => m.type = "TRANSFER")
  BY DEF StockOps
<1>8. c \in StockCalls /\ Sound(c.dest)
  BY <1>1 DEF StockCallTyped
<1> HIDE DEF m, row, new, op, destRow, saved, base
<1>9. Reads(c1) /\ c1.dest = c.dest
  BY <1>7, <1>8 DEF StockCalls
<1> HIDE DEF c, c1
<1>10. Reads(c2) /\ c2.dest = c.dest
  BY <1>5, <1>9 DEF StockCalls
<1> HIDE DEF c2
<1>11. Reads(c3) /\ c3.dest = c.dest /\ c3.stockBase = row
  BY <1>2, <1>10 DEF StockCalls, Sound
<1> HIDE DEF c3
<1>12. Reads(c4) /\ c4.dest = c.dest /\ c4.stockBase = row /\ c4.stock = new
  BY <1>3, <1>11 DEF StockCalls, Sound
<1> HIDE DEF c4
<1>13. Reads(c5) /\ c5.dest = c.dest /\ c5.stockBase = row /\ c5.stock = new
       /\ c5.destBase = destRow
  BY <1>2, <1>12 DEF StockCalls, Sound
<1> HIDE DEF c5
<1>14. Reads(c6) /\ c6.dest = c.dest /\ c6.stockBase = row /\ c6.stock = new
       /\ c6.destBase = destRow /\ c6.movement = saved
  BY <1>4, <1>13 DEF StockCalls, KnownMovement
<1> HIDE DEF c6
<1>15. StockCallTyped(c6) /\ StockCallKnown(c6)
  BY <1>1, <1>2, <1>3, <1>4, <1>7, <1>8, <1>14 DEF StockCallTyped, StockCallKnown
<1> QED
  BY <1>6, <1>15, StockCallChanges

LEMMA ReachKeeps ==
  ASSUME InventoryInv, NEW d \in Desks, ReachDestination(d)
  PROVE  InventoryInv'
<1> DEFINE c == stockCall[d]
           m == c.movement
           x == << m.product, m.dest >>
           sum == stock[x].quantity + m.quantity
           counted == [stock[x] EXCEPT !.quantity = @ + m.quantity]
           reached == [counted EXCEPT !.available = @ + m.quantity]
           called == [c EXCEPT !.op = "moving"]
           next == [called EXCEPT !.dest = reached]
<1>1. /\ StockCallTyped(c) /\ StockCallKnown(c) /\ c.op = "reaching" /\ KnownMovement(m)
      /\ m.type = "TRANSFER"
  BY DEF ReachDestination, InventoryInv, StockCallTyped
<1>2. x \in Places /\ m.quantity \in Nat
  BY <1>1 DEF KnownMovement, MovementRow, Places
<1>3. /\ stock' = WithStock(x) /\ UNCHANGED << warehouse, movement >>
      /\ stockCall' = [stockCall EXCEPT ![d] = next] \/ Finish(d)
  BY DEF ReachDestination
<1>4. /\ stock' \in [Places -> StockRow] /\ \A y \in Places : Sound(stock'[y])
      /\ warehouse' \in [Warehouses -> WarehouseRow]
  BY <1>2, <1>3, WithStockSound DEF InventoryInv, InventoryTypeOK
<1>5. CASE stockCall' = [stockCall EXCEPT ![d] = next]
  <2>1. Sound(stock[x])
    BY <1>2 DEF InventoryInv
  <2>2. /\ counted \in StockRow /\ counted.quantity = sum /\ counted.available = stock[x].quantity
        /\ sum \in Int /\ sum >= 0
    BY <1>2, <2>1 DEF Sound, StockRow
  <2> HIDE DEF counted
  <2>3. Sound(reached)
    BY <1>2, <2>1, <2>2 DEF Sound, StockRow
  <2> HIDE DEF reached
  <2>4. /\ called \in StockCalls /\ called.op = "moving" /\ called.id = c.id
        /\ called.movement = m
        /\ Sound(called.stockBase) /\ Sound(called.stock) /\ Sound(called.destBase)
    BY <1>1 DEF StockCallTyped, StockCalls, StockOps
  <2> HIDE DEF called
  <2>5. /\ next \in StockCalls /\ next.op = "moving" /\ next.id = c.id /\ next.movement = m
        /\ Sound(next.stockBase) /\ Sound(next.stock) /\ Sound(next.destBase) /\ Sound(next.dest)
    BY <2>3, <2>4 DEF StockCalls, Sound
  <2> HIDE DEF next
  <2>6. StockCallTyped(next) /\ StockCallKnown(next)
    BY <1>1, <2>5 DEF StockCallTyped, StockCallKnown
  <2> QED
    BY <1>3, <1>4, <1>5, <2>6, StockChanges
<1>6. CASE Finish(d)
  BY <1>3, <1>4, <1>6, StockIdleTyped, StockChanges DEF Finish, StockCallKnown
<1> QED
  BY <1>3, <1>5, <1>6

\* save writes the two columns each on its own: since they agree in what was
\* read, in what was computed and in what is stored, they agree afterwards.
LEMMA MergedSound ==
  ASSUME NEW base, Sound(base), NEW new, Sound(new), NEW row, Sound(row)
  PROVE  Sound(Merged(base, new, row))
<1>1. Merged(base, new, row) \in StockRow
  BY DEF Merged, StockRow, Sound
<1>2. \/ Merged(base, new, row).quantity = new.quantity /\ new.quantity # base.quantity
      \/ Merged(base, new, row).quantity = row.quantity /\ new.quantity = base.quantity
  BY DEF Merged, StockRow, Sound
<1>3. \/ Merged(base, new, row).available = new.available /\ new.available # base.available
      \/ Merged(base, new, row).available = row.available /\ new.available = base.available
  BY DEF Merged, StockRow, Sound
<1> QED
  BY <1>1, <1>2, <1>3 DEF Sound

LEMMA MovementMerged ==
  ASSUME NEW base \in MovementRow, NEW m, KnownMovement(m), NEW stored, KnownMovement(stored),
         SameGoods(m, stored)
  PROVE  KnownMovement(Merged(base, m, stored)) /\ SameGoods(Merged(base, m, stored), stored)
<1>1. Merged(base, m, stored) \in MovementRow
  BY DEF Merged, MovementRow, KnownMovement
<1>2. SameGoods(Merged(base, m, stored), stored)
  BY DEF Merged, MovementRow, KnownMovement, SameGoods
<1>3. Merged(base, m, stored).after >= 0
  BY DEF Merged, MovementRow, KnownMovement
<1> QED
  BY <1>1, <1>2, <1>3 DEF KnownMovement, SameGoods

LEMMA CommitMovementKeeps ==
  ASSUME InventoryInv, NEW d \in Desks, CommitMovement(d)
  PROVE  InventoryInv'
<1> DEFINE c == stockCall[d]
           m == c.movement
           merged == Merged(c.base, m, movement[c.id])
           source == << m.product, m.warehouse >>
           target == << m.product, m.dest >>
<1>1. /\ StockCallTyped(c) /\ StockCallKnown(c) /\ KnownMovement(m) /\ c \in StockCalls
      /\ c.id \in MovementIds /\ SameGoods(m, movement[c.id])
  BY DEF CommitMovement, InventoryInv, StockCallTyped, StockCallKnown
<1>2. /\ movement' = [movement EXCEPT ![c.id] = merged] /\ Finish(d) /\ UNCHANGED warehouse
      /\ stock' = [x \in Places |->
                     IF x = source THEN Merged(c.stockBase, c.stock, stock[x])
                     ELSE IF m.type = "TRANSFER" /\ x = target
                          THEN Merged(c.destBase, c.dest, stock[x])
                     ELSE stock[x]]
  BY DEF CommitMovement
<1>3. KnownMovement(merged) /\ SameGoods(merged, movement[c.id])
  <2>1. c.base \in MovementRow /\ KnownMovement(movement[c.id])
    BY <1>1 DEF StockCalls, InventoryInv
  <2> QED
    BY <1>1, <2>1, MovementMerged
<1> HIDE DEF merged
<1>4. \A x \in Places : /\ Sound(Merged(c.stockBase, c.stock, stock[x]))
                        /\ Sound(Merged(c.destBase, c.dest, stock[x]))
                        /\ Sound(stock[x])
  BY <1>1, MergedSound DEF InventoryInv, StockCallTyped
<1> HIDE DEF source, target
<1>5. \A x \in Places : Sound(stock'[x])
  BY <1>2, <1>4
<1>6. stock' \in [Places -> StockRow]
  BY <1>2, <1>5 DEF Sound
<1> QED
  BY <1>1, <1>2, <1>3, <1>5, <1>6, MovementChanges

-----------------------------------------------------------------------------
(* Warehouses.                                                             *)

LEMMA NoLongerDefaultTyped ==
  ASSUME InventoryInv, NEW others
  PROVE  NoLongerDefault(others) \in [Warehouses -> WarehouseRow]
  BY DEF InventoryInv, InventoryTypeOK, NoLongerDefault, WarehouseRow

LEMMA WarehouseCallTyped ==
  ASSUME NEW op \in {"openWarehouse", "changeWarehouse", "storeWarehouse", "removeWarehouse"},
         NEW w \in Warehouses, NEW row \in WarehouseRow
  PROVE  /\ LET c == [StockIdle EXCEPT !.op = op, !.warehouse = w, !.row = row]
            IN  StockCallTyped(c) /\ StockCallKnown(c)
         /\ LET c == [StockIdle EXCEPT !.op = op, !.warehouse = w]
            IN  StockCallTyped(c) /\ StockCallKnown(c)
<1> DEFINE Reads(c) == /\ c \in StockCalls /\ c.op = op
                       /\ Sound(c.stockBase) /\ Sound(c.stock) /\ Sound(c.destBase)
                       /\ Sound(c.dest)
           called == [StockIdle EXCEPT !.op = op]
           chosen == [called EXCEPT !.warehouse = w]
           new == [chosen EXCEPT !.row = row]
<1>1. Reads(called)
  BY StockIdleTyped DEF StockCalls, StockCallTyped, StockOps
<1> HIDE DEF called
<1>2. Reads(chosen) /\ chosen.warehouse = w
  BY <1>1 DEF StockCalls
<1> HIDE DEF chosen
<1>3. Reads(new) /\ new.warehouse = w
  BY <1>2 DEF StockCalls
<1> HIDE DEF new
<1>4. /\ StockCallTyped(chosen) /\ StockCallKnown(chosen)
      /\ StockCallTyped(new) /\ StockCallKnown(new)
  BY <1>2, <1>3 DEF StockCallTyped, StockCallKnown
<1> QED
  BY <1>4 DEF called, chosen, new

LEMMA WarehouseStarts ==
  ASSUME InventoryInv, NEW d \in Desks, NEW w \in Warehouses,
         \/ \E default \in BOOLEAN : OpenWarehouse(d, w, default)
         \/ \E active \in BOOLEAN, isDefault \in {"yes", "no", "keep"} :
              ChangeWarehouse(d, w, active, isDefault)
         \/ RemoveWarehouse(d, w)
  PROVE  InventoryInv'
<1>0. /\ warehouse \in [Warehouses -> WarehouseRow] /\ warehouse[w] \in WarehouseRow
      /\ stock \in [Places -> StockRow] /\ \A x \in Places : Sound(stock[x])
  BY DEF InventoryInv, InventoryTypeOK
<1>1. ASSUME NEW default \in BOOLEAN, OpenWarehouse(d, w, default)
      PROVE  InventoryInv'
  <2> DEFINE row == [ exists |-> TRUE, active |-> TRUE, default |-> default ]
             c == [StockIdle EXCEPT !.op = "openWarehouse", !.warehouse = w, !.row = row]
  <2>1. /\ stockCall' = [stockCall EXCEPT ![d] = c] /\ UNCHANGED << stock, movement >>
        /\ warehouse' = NoLongerDefault(Warehouses) \/ warehouse' = warehouse
    BY <1>1 DEF OpenWarehouse, Handles
  <2>2. row \in WarehouseRow
    BY DEF WarehouseRow
  <2> HIDE DEF row
  <2>3. StockCallTyped(c) /\ StockCallKnown(c)
    BY <2>2, WarehouseCallTyped
  <2> HIDE DEF c
  <2>4. warehouse' \in [Warehouses -> WarehouseRow]
    BY <1>0, <2>1, NoLongerDefaultTyped
  <2> QED
    BY <1>0, <2>1, <2>3, <2>4, StockChanges
<1>2. ASSUME NEW active \in BOOLEAN, NEW isDefault \in {"yes", "no", "keep"},
             ChangeWarehouse(d, w, active, isDefault)
      PROVE  InventoryInv'
  <2> DEFINE op == IF isDefault = "yes" THEN "changeWarehouse" ELSE "storeWarehouse"
             row == [warehouse[w] EXCEPT
                       !.active = active,
                       !.default = isDefault = "yes" \/ (isDefault = "keep" /\ @)]
             c == [StockIdle EXCEPT !.op = op, !.warehouse = w, !.row = row]
  <2>1. stockCall' = [stockCall EXCEPT ![d] = c] /\ UNCHANGED inventory
    BY <1>2 DEF ChangeWarehouse, Handles
  <2>2. row \in WarehouseRow
    BY <1>0 DEF WarehouseRow
  <2>3. op \in {"openWarehouse", "changeWarehouse", "storeWarehouse", "removeWarehouse"}
    OBVIOUS
  <2> HIDE DEF op, row
  <2>4. StockCallTyped(c) /\ StockCallKnown(c)
    BY <2>2, <2>3, WarehouseCallTyped
  <2> HIDE DEF c
  <2> QED
    BY <2>1, <2>4, StockCallChanges
<1>3. CASE RemoveWarehouse(d, w)
  <2> DEFINE c == [StockIdle EXCEPT !.op = "removeWarehouse", !.warehouse = w]
  <2>1. stockCall' = [stockCall EXCEPT ![d] = c] /\ UNCHANGED inventory
    BY <1>3 DEF RemoveWarehouse, Handles
  <2>2. StockCallTyped(c) /\ StockCallKnown(c)
    BY <1>0, WarehouseCallTyped
  <2> HIDE DEF c
  <2> QED
    BY <2>1, <2>2, StockCallChanges
<1> QED
  BY <1>1, <1>2, <1>3

LEMMA WarehouseKeeps ==
  ASSUME InventoryInv, NEW d \in Desks,
         InsertWarehouse(d) \/ ClearOtherWarehouses(d) \/ StoreWarehouse(d) \/ DeleteWarehouse(d)
  PROVE  InventoryInv'
<1> DEFINE c == stockCall[d]
<1>1. /\ c.warehouse \in Warehouses /\ c.row \in WarehouseRow
      /\ c \in StockCalls /\ StockCallTyped(c)
  BY DEF InsertWarehouse, ClearOtherWarehouses, StoreWarehouse, DeleteWarehouse, InventoryInv,
         StockCallTyped, StockCalls
<1>2. UNCHANGED << stock, movement >>
  BY DEF InsertWarehouse, ClearOtherWarehouses, StoreWarehouse, DeleteWarehouse
<1>3. NoWarehouseRow \in WarehouseRow
  BY DEF NoWarehouseRow, WarehouseRow
<1>4. \/ \E row \in {c.row, NoWarehouseRow} : warehouse' = [warehouse EXCEPT ![c.warehouse] = row]
      \/ warehouse' = NoLongerDefault(Warehouses \ {c.warehouse})
      \/ warehouse' = warehouse
  BY DEF InsertWarehouse, ClearOtherWarehouses, StoreWarehouse, DeleteWarehouse
<1>5. /\ warehouse' \in [Warehouses -> WarehouseRow]
      /\ stock' \in [Places -> StockRow] /\ \A x \in Places : Sound(stock'[x])
  BY <1>1, <1>2, <1>3, <1>4, NoLongerDefaultTyped DEF InventoryInv, InventoryTypeOK
<1>6. CASE ClearOtherWarehouses(d)
  <2> DEFINE next == [c EXCEPT !.op = "storeWarehouse"]
  <2>1. stockCall' = [stockCall EXCEPT ![d] = next]
    BY <1>6 DEF ClearOtherWarehouses
  <2>2. StockCallTyped(next) /\ StockCallKnown(next)
    BY <1>1 DEF StockCallTyped, StockCallKnown, StockCalls, StockOps
  <2> HIDE DEF next
  <2> QED
    BY <1>2, <1>5, <2>1, <2>2, StockChanges
<1>7. CASE Finish(d)
  BY <1>2, <1>5, <1>7, StockIdleTyped, StockChanges DEF Finish, StockCallKnown
<1> QED
  BY <1>6, <1>7 DEF InsertWarehouse, StoreWarehouse, DeleteWarehouse

-----------------------------------------------------------------------------
\* Whatever a desk has begun, every further step of it keeps the invariant.
LEMMA InventoryStepKeeps ==
  ASSUME InventoryInv, NEW d \in Desks, InventoryStep(d)
  PROVE  InventoryInv'
  BY InsertMovementKeeps, CheckKeeps, BeginMovementKeeps, ReachKeeps, CommitMovementKeeps,
     SaveMovementKeeps, WarehouseKeeps, Finished
  DEF InventoryStep, MovementRefused, InsufficientStock, RollbackMovement

LEMMA InventoryRequestKeeps ==
  ASSUME InventoryInv, NEW d \in Desks, InventoryRequest(d)
  PROVE  InventoryInv'
<1> USE InventoryAssumption
<1>1. ASSUME NEW m \in NewMovements, CreateMovement(d, m) PROVE InventoryInv'
  <2>1. /\ m.product \in Products /\ m.warehouse \in Warehouses
        /\ m.quantity \in Nat /\ m.after = 0 /\ m.number = 0
    BY DEF NewMovements
  <2>2. m \in MovementRow
    BY <2>1 DEF NewMovements, MovementRow, MovementStatus
  <2> QED
    BY <1>1, <2>1, <2>2, CreateMovementKeeps
<1>2. ASSUME NEW p \in Products, NEW w \in Warehouses,
             (\E q \in Quantities \cup {0} : AdjustStock(d, p, w, q)) \/ AdjustNothing(d, p, w)
      PROVE  InventoryInv'
  BY <1>2, AdjustKeeps
<1>3. ASSUME NEW i \in MovementIds,
             \/ ApproveMovement(d, i)
             \/ RejectMovement(d, i)
             \/ \E status \in MovementStatus, q \in Quantities :
                  UpdateMovement(d, i, status, q)
      PROVE  InventoryInv'
  BY <1>3, MovementRequestKeeps
<1>4. ASSUME NEW w \in Warehouses,
             \/ \E default \in BOOLEAN : OpenWarehouse(d, w, default)
             \/ \E active \in BOOLEAN, isDefault \in {"yes", "no", "keep"} :
                  ChangeWarehouse(d, w, active, isDefault)
             \/ RemoveWarehouse(d, w)
      PROVE  InventoryInv'
  BY <1>4, WarehouseStarts
<1> QED
  BY <1>1, <1>2, <1>3, <1>4 DEF InventoryRequest

LEMMA InventoryStutters ==
  ASSUME InventoryInv, UNCHANGED inventoryVars
  PROVE  InventoryInv'
  BY DEF InventoryInv, InventoryTypeOK, MovementIds, StockCallKnown, inventoryVars

\* The warehouses on their own, whatever any number of storekeepers do at the
\* same time: no warehouse gives out what it does not have, and what is
\* available is what is there.
THEOREM StockSafe ==
  InventorySpec => [](InventoryTypeOK /\ StockNotOverdrawn /\ AvailableMatches)
<1>1. InventoryInv /\ [InventoryNext]_inventoryVars => InventoryInv'
  BY InventoryStepKeeps, InventoryRequestKeeps, InventoryStutters DEF InventoryNext
<1>2. InventoryInv => InventoryTypeOK /\ StockNotOverdrawn /\ AvailableMatches
  BY DEF InventoryInv, StockNotOverdrawn, AvailableMatches, Sound
<1> QED
  BY InitInventoryInv, <1>1, <1>2, PTL DEF InventorySpec

=============================================================================
