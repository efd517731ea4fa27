# Verification of the shop's back end

TLA+ models of `api-rshop`, a NestJS shop on TypeORM and MySQL 8 that is paid
through Zarinpal or by card-to-card transfers.  Paths below are relative to
`src/src/modules/` unless they say otherwise.

## The system

The program is one Node.js process (one container, see `docker-compose.yml`)
with a pool of ten MySQL connections.  Requests and scheduled jobs interleave at
every `await`.  Most handlers that write run in `runInTransaction`, a
transaction in MySQL's default isolation, REPEATABLE READ; a few caches live in
Redis; the payment gateway is called over HTTP.

| Part | State | Operations | Hard behaviour | Module |
| --- | --- | --- | --- | --- |
| Orders (`order/`) | `orders.status`, items, totals | createFromCard, createManualOrder, updateStatus, awaitingPayment, cancelOrder, markAsDelivered, refundOrder, remove | a status is saved as it was computed from an old read; every other part writes it too | `Checkout`, `Sales`, `Fulfilment` |
| Online payments (`payment/handlers/`) | `payments.status`, the gateway's authorities | createPayment, verifyPayment with its success, failure and cancellation handlers | the gateway is called inside the transaction; callbacks come twice, late, or never; deadlocks whose error is swallowed | `Checkout` |
| Card-to-card payments (`payment/handlers/card-to-card/`) | `payments.card_to_card_status`, receipts | initiate, uploadReceipt, reviewReceipt | two administrators, repeated uploads | `Checkout` |
| Stock (`product/`, `variant-product/`) | `stock` columns | decreaseStock, inCreaseStock, returnStock | check and write are apart; two of the three write absolute values | `Checkout` |
| Cart status (`card/card-status.service.ts`) | `cards.status` | lockCart, unlockCart, abandonCart, getOrCreateActiveCart | acts on all carts of a user, called from payments, orders and jobs | `Checkout`, `Sales` |
| Cart contents (`card/card.service.ts`) | items, quantities, totals | addItem, updateItem, removeItem, clear, lock, getMyCard | totals as snapshots of prices | `Sales` |
| Jobs (`card/cart-cleanup.service.ts`) | none of their own | handleExpiredOrders, handleStuckLockedCarts, cleanupOldAbandonedCarts, detectAndFixDuplicates | work on a batch read earlier | `Checkout` |
| Invoices (`invoice/`) | invoice rows | createFromOrder, updateInvoiceStatus | made inside the payment's transaction, errors swallowed | `Checkout` |
| Promotions (`promotion/`) | conditions, actions, `used_count` | check, find, count, create, update | conditions joined in SQL; limit checked when ordering, counted when paying | `Sales`, `Checkout` |
| Accounts and transactions (`accounting/services/transaction.service.ts`) | balances, statuses | create, approve, reject, update, remove | read-modify-write of balances, numbers made by counting | `Ledger` |
| Warehouses and movements (`accounting/services/stock-movement.service.ts`) | product stocks, movements, alerts | create, approve, adjust | rows created outside the transaction | `Inventory` |
| Order accounting (`accounting/listeners`, `order-accounting.service.ts`) | books of an order | order.paid | the event is emitted before the commit | `OrderAccounting` |
| Product, catalogue, category and order caches | Redis entries | get, set, clear | a fill can overtake a clear; clears inside transactions; patterns of keys | `Caches` |
| Home page and collections | rows, Redis entries | create, update, remove, sort | an edit saves the cached copy it was given | `Showcase` |
| Category tree (`category/`) | parents, levels, closure table | create, update, remove, import | two moves in two snapshots | `Categories` |
| Variants, specifications, attributes of a category | their rows | create, update, remove | combinations that must stay complete and single | `Variants` |
| Catalogue pages (`catalogs/`), similar products | none | lists and filters | long conditions put together piece by piece | `Storefront` |
| Login, users, addresses | codes, users, addresses | send, verify, update, remove | nothing is in a transaction | `Accounts` |
| Tickets, reviews | their rows | message, answer, close; write, edit, judge | a status computed from an old row | `Desk` |
| Brands, attributes, pages, links, wishlist, compare list, recent views, ... | their rows | create, update, remove | a key looked up, then inserted | `Registers` |
| Scheduled reminders, reports, roles, SEO, media, exports | files, constants | reads | none | |

Interaction: carts feed orders; payments change orders, carts, stock,
promotions and invoices and notify accounting by an event; jobs change orders,
carts and stock behind the payments' back.

### What makes the parts correct

* Stock: never negative, never promised twice, returned when a reservation ends.
* Payments: an order is fulfilled, and an invoice made, only for money that was
  really captured or approved; at most one payment of an order is settled; what
  is settled stays settled.
* Carts: one open cart for a user; no cart stays locked.
* Promotions: usage is counted only for real payments and stays in its limit.
* Accounting: balances are the sum of the approved transactions; each is
  approved once.  Product stocks are the sum of the completed movements.
* Caches: an entry shows committed rows, goes stale only by a race, and does not
  live for ever; an edit is not undone by an old copy.
* Catalogue: a page lists what was asked for; the tree, its closure table and
  its levels agree; variants are complete and single.
* Carts and orders: a total is what the lines come to; a promotion is granted
  only to orders that meet its conditions.
* Orders after payment: units come back at most once; payment and order agree.
* Accounts: a code lets one request in, a number belongs to one user.

## Plan

1. `Checkout`, `MCCheckout`: orders, payments, stock, cart status, jobs;
   `CheckoutProofs` (types, stock) and `PaymentProofs` (all other safety
   properties) (done).
2. `Ledger`, `Inventory`, `OrderAccounting` (both, composed with the events of
   the shop), `WatchedAccounting`, `MCAccounting`, `MCBookings`; `BooksProofs`,
   `AccountingProofs`, `BookingProofs` (done).
3. `CachedView` and `Caches`, which implements it, `WatchedCaches`,
   `MCCatalogue`; `CachesProofs` (done).
4. The back office: `Showcase`, `Categories`, `Variants`, `Storefront`, `Sales`,
   `Fulfilment`, `Accounts`, `Desk`, `Registers`, each `Watched...`, all in
   `MCShop` (done); `BackOfficeProofs` and `ShopProofs` (done), `Storefront` in
   `CachesProofs` (done).
5. Modelling that is left: `OrderAccounting` composed with a payment that may
   roll back after `order.paid`; the dates of promotions.

## Checkout

`Checkout.tla` models the orders, both kinds of payments, the stock of one
product, the status of the users' carts, the gateway and the jobs.

State: `order`, `payStatus`, `receipt`, `stock`, `promoUsed` are columns of the
tables; `payOf` is the payment's foreign key; `invoices` and `cart` count rows;
`gateway` is what Zarinpal knows of an authority (issued, paid, captured);
`aged` are the orders older than the reservation timeout; `tx` holds, for each
session, the transaction in progress.  A row id that was not used yet is
`"NONE"`, one whose row was deleted `"DELETED"`.

A handler is two or more actions of a session.  `Begin...` makes its guards and
reads: in REPEATABLE READ all plain reads come from the snapshot of the first,
so they are one step.  `Commit...` makes its writes: `save` writes the columns
that differ from what was read (`Saved`), `increment` and update-where act on
the current rows (`ReturnStock`, `LockCart`, ...).  Between them any other
session may commit.  The gateway's actions lie in between, because the code
calls it inside the transaction.  `Rollback` is any exception or crash.

Row locks only show when a transaction waits outside the database while it
holds them.  Gateway callbacks do: their log entry refers to the order and the
payment, which locks both rows shared (`Holds`); a handler that writes such a
row has to wait (`CanWrite`, `CanRefer`, `CanWritePayment`).  Two of them can
therefore deadlock, and the code then goes on without its transaction, in
autocommit (`LosesDeadlock` then `RecordsFailed`; `LosesCartDeadlock` then
`CommitOrphaned`).

Left out: amounts, items (an order holds `Qty[o]` units of one product; a
product with variants behaves the same), log rows, SMS, caches, the accounting
event.  `PaymentRecoveryService` is no action because its query always throws.
Also left out: the deadlock of `createPayment` whose handler then unlocks the
cart in autocommit.

### Runs

| Run | Shows |
| --- | --- |
| OnlineRace | two sessions, two links of one order, callbacks, cancellation, expiry: `InvoicesBacked`, `PromotionUseBacked`, `PaidHasInvoice`, `FulfilmentPaid`, `TypeOK` hold in every interleaving |
| TransferRace | two transfers of one order and two sessions: `StockNonNegative`, `PaidHasInvoice` |
| OnlineSerial | online payments of two customers whose handlers do not overlap: `NoOversell`, `SettledOnce`, `ClosedForGood` |
| OneOrder | every handler, not overlapping, on one order: `MoneyBacks` (`InvoicesBacked` and `FulfilmentPaid`), `SuccessIsFinal`, and under `FairSpec` `ReservationsEnd`, `CartsUnlocked` |
| ExpirePaid | the expiry job marks an order as expired that was paid after the job had read it |
| VerifiedUnrecorded | code 101 is answered as "verified" for a payment that nothing records as such |
| LastUnitTwice | two overlapping reservations sell the last unit twice |

"Not overlapping" still leaves callbacks, links, jobs and crashes in any order.
These properties are stated for handlers that do not overlap because they are
false when they do: `NoOversell` (LastUnitTwice), `SuccessIsFinal` (two
callbacks of one link deadlock, or a receipt is uploaded while it is being
approved), `SettledOnce` (two links verified at the same time), `ClosedForGood`
(a late verification overlaps the expiry).  `ClosedForGood` and `NoOversell`
also exclude card-to-card payments and `awaitingPayment`: a receipt can be
uploaded for an order in any status, and neither reserves stock.

The last three runs are the findings, quoted in `PROJECT.json`.  Other
disagreements between the source and what it says, which the model also shows:

* `payment-creation.handler.ts:45` says a pending payment is returned instead
  of a second one; `handle` always makes another and reserves the stock again.
* `card-status.service.ts:23` says a user has only one OPEN cart; `addItem`
  makes one while another is LOCKED, and `unlockCart` opens that one again.
* `cart-cleanup.service.ts:35` says expiry releases reserved stock; an order
  whose transfer was rejected never reserved any.
* `cart-cleanup.service.ts:108` says only carts without an active order are
  unlocked; the job unlocks by user, from its snapshot.
* `cart-cleanup.service.ts:191` says abandoned carts are of no more use;
  `CardService.lock` takes one of any status.
* `payment-verification.handler.ts:192` saves the payment as failed in the
  transaction that the exception thrown afterwards rolls back.
* `payment-recovery.service.ts:24` promises to recover VERIFIED payments; its
  query joins `order.invoice`, which `order.entity.ts:27` calls `invoices`.
* `card-to-card.service.ts:89` admits a second administrator who has read the
  payment before the first one commits.

### Bounds

The sets of ids bound everything: one or two orders, two or three
authorities, two transfers, one or two sessions.  Two sessions are enough for
every pair of overlapping handlers; two links or transfers for one order are
enough for a second settlement, three (OnlineSerial) give both orders a retry.
`MaxCarts` stops carts being added for a user, `MaxStock` keeps orders that
reserved nothing from inflating the stock without end, `Handlers` chooses the handlers that are
called.  Deadlock is not checked: the ids run out, and the shop may then stop.

### Fairness

`FairSpec` assumes that time passes, that a request in progress ends (by a
commit or a rollback: Node answers, MySQL times out), and strong fairness for
the jobs: the scheduler starts them again and again, and a job is not rolled
back every time.  Nothing is assumed of customers, administrators or the
gateway.

### Proofs

`CheckoutProofs` proves for every value of the constants that satisfy
`CheckoutAssumption`, so for any number of orders, payments and sessions:

* `TypeCorrect`: `Spec => []TypeOK`.  `TypeOK` alone is not inductive: a
  handler indexes orders by what a payment or a session refers to, so `Typed`
  adds `RowsKnown`.  There is one lemma for each group of actions.
* `StockStaysNonNegative`: `Spec => []StockNonNegative`.  The stock is written
  from readings, so `StockInv` adds that no session has read, or summed up, a
  negative stock.

`PaymentProofs` builds one invariant on another; each part adds what the next
property needs and shows of each action only what it does to that.

* `PreparedOnlyIfCaptured`: a PREPARING order has a payment whose money the
  gateway has captured.  A commit prepares the order because of what its session
  heard from the gateway perhaps long before, so `IInv` says that what a session
  has heard is true (`Told`), which is stable because the gateway forgets
  nothing; that no two sessions hold the same new authority (`Single`); and
  that an authority nobody has asked for yet has no payment (`UnusedIsFree`).
* `SuccessIsInvoiced`: `PaidHasInvoice`.  SUCCESS is saved in the transaction
  that makes the invoice, or for an order that has one; saves of stale rows,
  which can take a payment back to an earlier status, never make it successful;
  an invoice is deleted only with the payments of its order.  An approval writes
  the order that its transfer belonged to when it was read, so `BilledInv` adds
  that this is still the transfer's order (`ReviewedBy`).
* `PromotionUseIsCaptured`: `PromotionUseBacked`.  The count is written outside
  the callback's transaction.  `PromotionInv` says that at most one session has
  heard code 100 for a payment (`HeardOnce`), and that the uses counted so far
  are at most the captured payments that no session has still to count
  (`UseCounted`).
* `InvoicesHaveMoney`, `FulfilmentHasMoney`, and both as `MoneyIsBehindIt`:
  `InvoicesBacked` and `FulfilmentPaid`, assuming `ReviewedAlone`: requests do not
  overlap, or no transfer is approved.  `MoneyInv` counts the invoices
  of an order against its approved transfers and the captured payments that no
  session can still make an invoice for (`InvoiceForEach`).
  Without the assumption two overlapping reviews of one transfer make two
  invoices, and a receipt uploaded during a review takes the approval back under
  an order that is being processed.  The runs do not show this: OnlineRace has
  no approvals, OneOrder no overlap.
* `SuccessStays`: `SuccessIsFinal`, an action property, assuming `Serial`.
  `FinalInv` adds where the orders of successful payments can be.
* `UnitsNeverOversold`, `OnePaymentSettles`, `ClosedOrdersStayClosed`:
  `NoOversell`, `SettledOnce`, `ClosedForGood`, assuming `OrderlyShop`: requests
  do not overlap and nobody calls `awaitingPayment` or `uploadReceipt`, which
  take an order back from any status without reserving stock.  `ShopInv`
  says that stock and held units fit together (`UnitsFit`), in the middle of an
  expiry as well (`Fresh`), and that an order with an accepted payment cannot be
  paid again (`SettledApart`).
  `Serial` is needed: LastUnitTwice is a run without it.

Only model-checked: the liveness properties `ReservationsEnd` and `CartsUnlocked`,
which are out of the prover's reach; `OnlyUnpaidExpire` and
`AlreadyVerifiedRecorded` are false.

## Accounting

`Ledger.tla` models accounts and their transactions, `Inventory.tla` warehouses,
the stock of products in them and stock movements, and `OrderAccounting.tla`
composes both with the events that the shop sends them.  `AccountingBase.tla`
holds what the two share: the desks, and what TypeORM's `save` writes.  This
stock (`product_stocks`) is not the stock column of the product that `Checkout`
sells from; nothing in the code compares the two.

State: `account`, `txn`, `warehouse`, `stock`, `movement` are the tables; rows
of `txn` and `movement` are never deleted, so their ids are positions of a
sequence.  `ledgerCall[d]` and `stockCall[d]` are the request in progress at
desk `d` with the entities it holds in memory, `booking[d]` the event that a
listener works on.

A request reads and checks in one step and writes in a later one, because the
repositories of the services use a connection of their own for each statement.
Only `approve` opens a transaction: `BeginApproval` and `BeginMovement` take its
snapshot, `CommitApproval` and `CommitMovement` write the columns that differ
from it (`Merged`) to whatever is stored by then.  The row of a transaction is
locked from its first save (`TxnUnlocked`).  A new default account or warehouse
clears the flag of the others in a statement of its own before it is saved.

`OrderPaid` and `ProductEvent` start a listener.  It calls `create` and
`approve` of the two services one after the other, so its actions are those of
`Ledger` and `Inventory` with a condition on its stage.  The transaction that
`processOrderPayment` opens is only a connection it holds (`Connected`).

### Runs

| Run | Shows |
| --- | --- |
| Staff | two accountants or two storekeepers with up to four requests on every handler |
| Bookings | `order.paid` for two orders, twice for one of them, and a new product, at two desks, while a storekeeper tries to remove the sold-out warehouse, with every failure a listener can meet |
| PartialBooking | an income that stays approved although the goods could not be moved |

`BalanceNonNegative` and `StockNotOverdrawn` hold in every interleaving, and so
does `AvailableMatches`, which is proved and in no run.  That balances and
stocks are what was approved (`RegularBooks`, `RegularStock`), that there is one
default (`RegularDefaults`) and that what is approved stays approved
(`ApprovedIsFinal`) is true only while requests do not touch the same rows at
the same time.  The history variable `regular` of `WatchedAccounting` says so: it
becomes FALSE for good when two requests in progress may write, or compute a
write from, the same row (`Orderly`), or when one of two requests is made that
break the books alone: a transfer of an account to itself (the credit is
overwritten by the debit, both computed from the balance read) and an update
that sets the status to APPROVED (nothing is posted).  What happens otherwise, as TLC shows when `regular` is dropped:

* two approvals on one account overlap: one amount is lost;
* two approvals of one transaction: its amount is posted twice;
* a rejection that was read before an approval and saved after it: REJECTED,
  but posted; an account updated meanwhile gets its old balance back;
* two requests that set a default: two defaults.  `order.paid` then uses any.

More that the model shows and no property states:

* the reference number of an order is the authority of its payment, so an order
  whose booking failed after its first record can never be booked again;
* `Generated` counts rows: a number changed by hand can make it repeat a number
  that exists, and every further create of the type fails in that month;
* a transfer to a warehouse without a row for the product fails the first time
  (`ReachDestination`) and leaves the destination flagged OUT_OF_STOCK when it
  succeeds;
* an ADJUSTMENT made through `create` sets the stock to what it was then;
* a warehouse in which a product was ever counted cannot be deleted;
* `ORDER_INTEGRATION_SUMMARY.md:94` says all transactions of an order are
  approved; shipping and gift wrapping stay PENDING, and are part of the total
  that is approved;
* card-to-card payments emit no `order.paid`; `order.cancelled` and
  `order.returned` are emitted nowhere;
* as many bookings at once as there are connections wait for each other forever.

### Bounds

Staff: two accounts, two warehouses, one product, two rows of each kind, four
requests.  A deviation needs two requests that overlap and the two that made
their rows.  Amounts and quantities are 1, opening balances 1, so that a
second withdrawal overdraws.  The staff keep books or warehouses (`team`): no
handler of one touches the tables of the other.  Bookings: two items of which
the orders compete for one and `product.created` brings one more, one extra
charge, three connections for two desks.

### Fairness

`FairSpec` has weak fairness for the steps of every desk in progress: a promise
that is awaited settles, by a result or an error.  Nothing is assumed of events
and staff.

### Proofs

They hold for every value of the constants that satisfy the assumptions of the
modules: any number of desks, accounts, warehouses, rows, orders and events.

* `BooksProofs`, `BooksSafe`: `LedgerSpec` keeps its types and
  `BalanceNonNegative`.  A balance is not computed from what is stored but from
  what an approval has read, and an account is saved as a request once found
  it.  `LedgerInv` therefore says of every request in progress that the
  balances it holds are not negative, and that the row it will write has the
  accounts and the type of the stored one.
* `BooksProofs`, `StockSafe`: `InventorySpec` keeps its types,
  `StockNotOverdrawn` and `AvailableMatches`.  `updateStockQuantity` tests
  `available_quantity` but takes from `quantity`, so one property needs the
  other; and `save` merges both columns into a row that may have changed since.
  `InventoryInv` says that the two columns agree in everything read and
  computed: then they are both written, or neither (`MergedSound`).
* `AccountingProofs`: `AccountingTypeCorrect`, `BalancesStayNonNegative`,
  `StockStaysSound`, the same of `Spec`, where the listeners use the services
  too.  What a listener passes to them is well typed (`BookingTyped`); everything
  else is the lemmas of `BooksProofs`.
* `BookingProofs`, `OrdersBookedOnce`: `BookedOnce`.  A delivered event is
  refused once its income has a row, by the unique reference number, so
  `Bookkeeping` says that each listener past its first record has recorded a
  sale of its own, and assigns to each shipment a sale and the item of the order
  that was moved for it (`Assigned`), no pair twice and none the listener has not
  come to.  The handler `update` is left out, because it can give any row the
  reference of a payment.
* `GoodsLeaveAfterMoney`: `GoodsAfterMoney`, assuming `OnlyApproving`: nobody
  calls `update`, `reject` or `remove`, which take an approval back.
  `GoodsInv` says that a listener that ships has seen its income approved, and
  that no request in progress would take that back.
* `OrderEarnsItsTotal`: `IncomeIsTotal`, assuming `ApprovedByOrders`: the staff
  neither update nor approve what is recorded of orders.  The approved amounts
  of an order are its total for each sale (`SalesEarn`).

* `AccountingProofs`, `BooksBalanceWhenOrderly`, `StockAddsUpWhenOrderly`,
  `OneDefaultWhenOrderly` and `ApprovalIsFinalWhenOrderly`: `RegularBooks`,
  `RegularStock`, `RegularDefaults` and `ApprovedIsFinal` of `WatchedSpec`.
  None is inductive: what a request writes was computed from what it read, so
  `RegularInv` adds that, while `regular` is TRUE, every request in progress goes
  by what is still stored.  `BookCall` says so of the books: the transaction and
  the balances an approval holds are the stored ones, what is about to be saved
  is not approved, and while a new default is stored no other account has the
  flag.  `StockCall` says it of the warehouses, where a transfer holds two rows,
  of which the second may have been made by the approval itself.  A step of one
  desk keeps this of the others because `Orderly` makes the rows of their
  requests disjoint (`WritesOnly`).  The listeners are covered by
  `StepUsesLedger` and `StepUsesInventory`: whatever they do is a request or a
  step of the two services.

The sums of these properties (`SumOver` in `AccountingBase`) count the units of
the approved rows as a set of pairs.  This gives the same number as adding the
amounts one by one, and what it gains by one more row follows from the theorems
about finite sets, without an induction over the rows.

Only model-checked: the liveness property `BookingsEnd`.

## Catalogue caches

`Caches.tla` models the Redis caches of products, the search, categories and
orders: every key somebody fills, every operation that changes a row they show,
and what each clears.  `CachedView.tla` is what a reader may expect of them.

State: `stored[r]` counts the commits of a row, `live` are the rows that exist,
`entry[k]` holds the versions a key's value was made of, `request[c]` what a
caller is doing.  A product stands for its variants, specifications and media;
`Attributes` and `Brands` are one row each; reviews are a row of each product.
The families of keys that have accessors but that nobody sets are left out.

A reader misses (`Misses`; three readers never look and always fill,
`AlwaysFills`), selects statement by statement (`Selects` along `ReadPlan(k)`),
and sets the key (`Sets`; Redis errors are swallowed).  A writer is the list of
steps its handler takes: `Insert`, `Update`, `Delete` are the commit, `Clear`
the keys of one of the clearing methods.  Products are cleared after the commit,
variants, stock, orders inside the transaction and so before it.  `ClearFails`
is Redis not answering, `Aborts` an exception or a crash.  `misses` names the
keys that show the changed row and that the handler does not clear.

| Run | Shows |
| --- | --- |
| Catalogue | two readers or writers of products, categories or orders: `CacheTypeOK`, `StaleOnlyByRace`, and `ShowsCommitted`, the refinement of `CachedView` |

`ShowsCommitted` (`View!Spec`) says that an entry only ever holds committed
versions, at most as new as the rows, and that each entry lapses.
`StaleOnlyByRace` says when it may be old: the history variable `excused` of
`WatchedCaches` has the keys the code leaves alone, those of a reader that
overlapped a writer, and those whose clearing failed; every other key is fresh
once nobody is about to clear it.

Divergences that the model shows:

* `product.service.ts:313` says the site's product has another key than the
  administrators'; it has the same, so a hidden product an administrator has
  looked at is served to the site.
* `findAllTree`, the order list and the product list are set but never got.
* `remove` and `updateOrder` of specifications clear the key of whatever
  product has the specification's id.
* A category's change clears no product, a product's no category, a brand's no
  product; attributes, reviews and promotions clear nothing.
* Clears inside a transaction are undone by any reader before the commit.

Bounds: two products, two categories, two orders of one customer, two callers,
two requests, at most one warm key.  Staleness needs one reader and one writer;
a second row of each kind shows which keys a request leaves alone.  Fairness: a
request in progress ends, and Redis keeps its time to live; nothing makes
anyone ask.

`CachesProofs` proves for all constants `CachesTypeCorrect`, `Spec =>
[]CacheTypeOK`, and `CachesShowCommitted`, that each step of `Caches` is a step
of `CachedView` or leaves its variables alone.  What a key gets was selected by
its own reader, so `IInv` says of a reader that it has run a prefix of its key's
plan, has seen exactly the rows of that prefix, in versions that existed by
then, and of a writer that all it will do concerns known rows and keys
(`StepsOfRequests`).

`StaleKeysAreExcused` proves `WatchedSpec => []StaleOnlyByRace`.  An entry is
made fresh or stale by what other callers have begun, so `RaceInv` says of each
reader that what it has read is current unless its key is excused
(`ReadersCurrent`), of each pair of a reader and a writer in
progress that the key is excused (`OverlapExcused`), and of each writer that
every key showing what it will commit is cleared by it, left alone by it, or
empty (`ClearedBefore`).  The last is checked for the list of steps of every
handler, from the definitions of the keys they clear (`Covers`).  Only the lapse
of entries, which is liveness, stays with TLC.

## Back office

The rest of the shop's state is in tables that the checkout does not touch, or
touches in ways modelled in `Checkout`.  Each part has a module with its
operations and a `Watched...` module that extends it with history variables and
states its property; `MCShop` plays one part (`scene`) at a time, since they
share no state.  A history variable records how a property may fail by an
overlap the code lets through; the property says that nothing else breaks it.

| Module | Code | State | Actions | Property |
| --- | --- | --- | --- | --- |
| `Showcase` | hero sliders, side and promo banners, sections, layout, collections with their caches | `rows` as sets of edits, `shelf` (Redis), `desk` (steps left) | every operation, awaiting step by step: get, select, set, save, clear, move the others | `EditsKept`, `ShelfFresh` |
| `Categories` | `category.service.ts`, the importer's closure | `parent`, `level`, `closure`, `plan` (snapshot of a transaction) | create, move, remove, begin and write apart; rollback | `TreeSound` |
| `Variants` | `variant-product.service.ts`, `product-attribute-value.service.ts`, `category-attribute.service.ts` | `variants`, `specs`, `linked`, `change` | create (all combinations), remove, strip a value, specify; delete a value by cascade | `VariantsSound` |
| `Storefront` | `catalog.service.ts`, `catalog-query.service.ts`, `findSimilarProducts` | `goods`, `answer` | one query of each page | `PagesSound` |
| `Sales` | `card.service.ts`, totals and manual orders of `order.service.ts`, `promotion/` | `tag` (prices), `cards`, `promotions`, `orders` | cart lines and status, orders with or without a code, counting, changes of prices and promotions | `SalesSound`, `PromotionsDeserved` |
| `Fulfilment` | the administrators' half of `order.service.ts` | `parcel`, `paid`, `returned`, `packing` | update, cancel, refund, deliver, remove, refer, await: begin and commit apart | `OrdersSettled` |
| `Accounts` | `otps.service.ts`, sign-in of `auth.service.ts`, `user*.service.ts`, `address.service.ts` | `otps`, `users`, `addresses`, `call` | each statement a step; codes age | `AccountsSound` |
| `Desk` | `support.service.ts`, `review.service.ts` | `ticket`, `messages`, `review`, `visit` | read, insert, save, close; lock of the ticket by an inserted message, deadlock | `DeskSound` |
| `Registers` | brands, attributes, groups, values, pages, wrappings, links, places, wishlist, compare list, recent views | `table`, `entered`, `entry` | look up, then save; unique index where there is one; clean-up of views | `RegistersSound` |

The run Shop checks them all, and `ShopTypeOK`.  What they say:

* `EditsKept`: a saved edit stays and a deleted row stays deleted, unless a
  request that was overtaken, or was served an old copy, saved the row.
  `ShelfFresh`: a key shows the rows once those who clear it are done, unless a
  change missed it (a `reorder` leaves the single copies, an address change the
  old address) or a fill overtook it.
* `TreeSound`: the closure table is exact until two moves overlap; levels and
  breadcrumbs until a move overlaps anything.
* `VariantsSound`: after a create the variants are the product of the values in
  use, each combination once until a value is taken away.
* `PagesSound`: a page lists all that was asked for, and beyond it only what
  the unparenthesised OR of `applyAttributeFilter` lets in; an offered value
  leads to a product, unless hidden or of the parent category.  Similar products
  are visible, distinct, in number, and of the same kind first.
* `SalesSound`: one open cart until a locked one is unlocked beside it; cart
  figures are the sums of the lines; an order's total is what its lines come to
  up to the rounding; the formulas of a discount agree when a product has
  one kind.  `PromotionsDeserved`: what is granted has its conditions met, except
  the customers of a promotion that another of its conditions found.
* `OrdersSettled`: units come back once, and payment and order agree after
  `updateStatus`, unless transactions overlapped or someone reopened the order.
* `AccountsSound`: one usable code for a number, each accepted once; a user
  keeps the number last given; one primary address.
* `DeskSound`: a ticket is answered exactly if the staff wrote last; a review is
  what its author and the staff made it.
* `RegistersSound`: a key once; places distinct; the compare list within its
  limit, the recent views beyond theirs only by adds still to clean up and
  clean-ups that failed.

Bounds (`Shop.cfg`): two requests in progress, the overlap every property is
about, and two to five requests in all; two ids of each kind on the home page;
three categories, so that two moves can make a cycle; four values of three
attributes; two wares of one product and one of another; two codes, two users.
There is no fairness: the properties are about safety.  Requests that run out
stop the system, so deadlock is not checked.

### Proofs

For every value of the constants that satisfy the assumptions of the modules:
any number of requests, rows, wares, promotions, attributes and values.  The
assumptions are that bounds are numbers, that prices and promotions have the
columns of their tables, and that requests, attributes and values are finite in
number.  Each theorem is about the specification of its part
(`WatchedDeskSpec` and so on), of which `MCShop` plays one at a time.  Typing
theorems come with all of them (`FulfilmentTyping`, `DeskTyping`,
`AccountsTyping`, `RegistersTyping`, `VariantsTyping`, `SalesTyping`,
`TreeTyping`, `ShowcaseTyping`, `StorefrontTyping`).

* `BackOfficeProofs`, `OrdersStaySettled`: `OrdersSettled`.  A commit writes what
  its transaction read, so the invariant says that a transaction that is alone
  has read what is stored (`Alone`), that one which returns units has read a
  status that allows it (`Grounds`), that once units are back the status allows
  none (`UnitsBack`), and the claim about the payment itself (`PaymentFits`), each
  but for `together` and `reopened`.
* `RequestsServed`: `DeskSound`.  A message gets its id before it is committed,
  and the status is saved by another statement; `TicketAlone` says what a
  request about the ticket that met no other holds at each of its steps, and
  that its message is then the last, `ReviewAlone` the same of the review.
* `AccountsKept`: `AccountsSound`.  Every clause is about one number or one
  user, and so is the invariant: as long as requests of a number have not met,
  the one in progress goes by the code it found, nobody accepts it twice, and it
  saves a user as it was read; the same for the addresses of a user.
* `CachesProofs`, `PagesRight`: `PagesSound`, for any list of products, any tree
  and any query.  An answer is about the rows as they are, so the proof is about
  the functions: whether a set of values has one of each attribute can be counted
  (`CountingFits`), an offered value leads to the active product it is from
  (`OffersLead`), and of the four lists of `findSimilarProducts` each is cut short
  only when it is long enough to fill what is missing (`NewestAreMany`,
  `FillingUp`, `SimilarFilled`).
* `RegistersKept`: `RegistersSound`.  An index keeps keys single; without one,
  `OneWrites` says that until two requests met at most one is between its look
  and its save, and that what it saw is still so (`KeysSingle`, `PlacesSingle`,
  `CompareBounded`).  `ViewsBounded` counts the adds that have yet to clean up.
* `ShopProofs`, `VariantsKept`: `VariantsSound`.  A create writes what is missing
  from the product of the values it read and drops what has fewer attributes;
  `CreatesFit` says that this is still right when it writes, `Products` that the
  variants are products of sets of values, from which a removal takes away.
* `SalesAddUp` and `GrantsDeserved`: `SalesSound`, `PromotionsDeserved`.
  `SalesInv` has the figures of a cart as sums of its lines (`CardFits`), each
  line within its columns and at the price of its ware unless that was changed
  or the line edited (`LineFits`), and each order's total within the rounding of
  what its own lines come to (`OrdersFit`).  That is proved of a new order from
  its cart: the discounts of the lines are summed with the columns' rounding,
  half a unit for each.
* `TreeKept`: `TreeSound`.  Following the parents is a recursive function
  (`Up`); where every category hangs one deeper than its parent (`Hangs`), the
  way up meets each of the categories above once, and the root after as many
  steps as the depth (`WayUp`).  A relation that follows the parents row by row
  (`Follows`) is then the whole ancestry (`FollowsIsExact`), the importer's
  closure is it too (`RebuildIsExact`), and moving, adding and cutting off a
  branch keep both (`MoveHangs`, `InsertHangs`, `DeleteHangs`).  `TreeInv` has
  that as long as no two moves overlapped, with a move in progress not going
  below its own category (`Grown`), and, as long as a move overlapped nothing,
  the levels as depths and the snapshots of pending requests as still current
  (`Levelled`).  A create needs an id that no snapshot knows (`BirthsFit`).  The
  breadcrumb sorts by level what is above a category: as many as it is deep and
  all of different levels, so in the order of the way down (`CrumbsLead`).
* `EditsStay` and `ShelfStaysFresh`: `EditsKept`, `ShelfFresh`, of the
  specification `WatchedShowcaseSpec`.  Neither is inductive, for what a request
  holds decides what it saves and sets later.  `ShowInv` adds that the steps a
  request has left are the rest of its operation's (`Lasts`), that what it is
  about to set is what its key should show, unless the key is `unswept`
  (`HoldsFresh`), and that what it is about to save is the row as it is, unless
  the request is `late` (`HoldsCurrent`).  A key that does not show the rows is
  still to be cleared by a request that has written already (`FreshOrCleared`):
  one that had yet to write could make the key old again after another's clear.
  Nobody has seen a row that was never there (`UnbornUnseen`), and two creates
  are about two rows (`CreatesApart`), so that a new row finds no copy of itself.

Sums (`Sum`, which is `MapThenSumSet`) and the highest id of a set (`Max`) are
defined by recursion and choice.  What is needed of them (a sum gains and loses
what a row adds, sums of equal and of smaller terms, a highest id) is proved by
a smallest counterexample among the subsets of a finite set
(`SmallestSubset`), since induction theorems cannot be applied here.

The proof of `PromotionsDeserved` corrected the property: it had excused the
customers of every promotion with another kind of condition, which is too
little for a promotion with two lists of customers, where one list loads it and
the other is never seen.

Only model-checked: `ShopTypeOK`, the conjunction of all parts' types, which each
typing theorem proves of its part.

More that the models show and no property states:

* Orders: `updateStatus` assigns the invoice a status and does not save it, and
  never touches the stock; `cancelOrder` and `refundOrder` leave the payment;
  `awaitingPayment` takes an order in any status; `remove` loses reserved units.
* Carts: `unlockCart` opens all locked carts of the customer although `addItem`
  or `getMyCard` made a new one: two open carts.  `clear` and `lock` take any
  cart.  `addItem` without a variant changes any line of the product;
  `updateItem` keeps the line's old price.
* Promotions: two orders made before one is paid exceed a promotion's limit;
  an update resets the count; promotions without conditions are never found;
  an order adds up uncapped amounts.
* Percent discounts are rounded down in carts and not in manual orders; the
  search shows the percentage first, the cart the amount first, and the sort
  takes both away.
* Catalogue: the filters of a category count hidden products and those of its
  parent; the price filter ignores percentages; the product itself takes a
  place in the first list of similar ones.
* Variants: the SKU is made of a position and repeats, although
  `variant-product.service.ts:156` says it is unique.
* Home page: `getHomePageData` sets keys it never returns; the order of side
  banners has no route.
* Tickets: two messages at once may deadlock, or leave "answered" after the
  customer's message.  Reviews: an edit keeps the approval.
* Codes: a sign-up that loses the race for a new number has used its code up.
  Addresses: unsetting the primary one leaves none; a stale save restores a
  removed one.
* A full compare list refuses a product it has; the comment says seven days,
  the code one.

## Not modelled

`PROJECT.json` lists every part with its status and what is left out of it.
Pure input and output (SMS, uploads, PDF and site-map generation, the Sepidar
and backup clients, health checks, API documentation, the reports of the books)
has no state a model could say anything about; roles are constants that guards
compare a user with; reminders only send.  Of the parts that are modelled, the
columns that no operation decides by are left out: titles, texts, media, dates
of promotions, click counts.  `fixDuplicateCarts`, an administrator's repair of
carts, and the administrators' changes of invoices are not modelled.
