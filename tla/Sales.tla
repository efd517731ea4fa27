-------------------------------- MODULE Sales --------------------------------
(***************************************************************************)
(* What a customer's carts and orders cost: the prices a line keeps, the   *)
(* figures a cart keeps of its lines, the promotions an order is granted,  *)
(* and the total.  The transactions lock the cart, so a request is a step; *)
(* who locks and pays an order, and when, is the matter of Checkout.       *)
(***************************************************************************)
EXTENDS Integers, FiniteSets, FiniteSetsExt

CONSTANTS
  Buyer,         \* the customer
  Wares,         \* what can be put in a cart: << product, variant or Plain >>
  Plain,         \* no variant
  CategoryOf,    \* the category of each product
  Cards,         \* ids of the customer's carts, in order
  Tags,          \* prices with their discounts, as records
  MaxQuantity, MaxLines, MaxOrders   \* bounds

ASSUME SalesAssumption ==
  /\ MaxQuantity \in Nat /\ MaxLines \in Nat
  /\ Tags \subseteq [price : Nat, amount : Nat, percent : Nat]

VARIABLES
  tag,           \* the price and discounts of each ware
  cards,         \* the carts: lines and figures
  lastLine,      \* the last id given to a line
  promotions,    \* the rows of promotions, with conditions and actions
  orders         \* the orders of the customer

salesVars == << tag, cards, lastLine, promotions, orders >>

NoCard == [status |-> "none", lines |-> {}, subtotal |-> 0, discount |-> 0]

-----------------------------------------------------------------------------
\* Prices

\* What a whole-number column keeps of an amount in hundredths.
Kept(x) == IF x >= 0 THEN (x + 50) \div 100 ELSE -((50 - x) \div 100)

\* resolveUnitDiscount of the carts: the amount first, the percentage rounded down.
ResolveUnitDiscount(t) ==
  IF t.amount > 0 THEN t.amount ELSE (t.price * t.percent) \div 100
FinalUnit(line) == IF line.off > line.unit THEN 0 ELSE line.unit - line.off

\* calculateItemDiscount of manual orders, in hundredths: the percentage first.
CalculateItemDiscount(t) ==
  IF t.percent > 0 THEN t.price * t.percent ELSE IF t.amount > 0 THEN 100 * t.amount ELSE 0

\* The discount the search shows, in hundredths, and the one it sorts by.
SearchDiscount(t) ==
  IF t.percent > 0 THEN t.price * t.percent ELSE IF t.amount > 0 THEN 100 * t.amount ELSE 0
SortDiscount(t) == 100 * t.amount + t.price * t.percent

Sum(f, rows) == MapThenSumSet(LAMBDA r : f[r], rows)
Subtotal(lines) == Sum([l \in lines |-> l.unit * l.quantity], lines)
DiscountTotal(lines) == Sum([l \in lines |-> l.off * l.quantity], lines)

ComputeSnapshot(card) ==
  [card EXCEPT !.subtotal = Subtotal(card.lines), !.discount = DiscountTotal(card.lines)]

-----------------------------------------------------------------------------
\* Carts

OpenCards == { c \in Cards : cards[c].status = "open" }
OpenCard(c) == c \in OpenCards
NewCard(c) == OpenCards = {} /\ cards[c].status = "none" /\ \A d \in Cards : d < c => cards[d].status # "none"

SalesInit(tags, rows) ==
  /\ tag = tags
  /\ cards = [c \in Cards |-> NoCard]
  /\ lastLine = 0
  /\ promotions = rows
  /\ orders = {}

\* Asked for the line with no variant, TypeORM leaves the null condition out:
\* any line of the product will do.
LinesFor(card, ware) ==
  { l \in card.lines : l.ware[1] = ware[1] /\ (ware[2] # Plain => l.ware = ware) }

AddToCard(c, ware, quantity) ==
  LET card == IF OpenCard(c) THEN cards[c] ELSE [NoCard EXCEPT !.status = "open"]
      unit == tag[ware].price
      off == ResolveUnitDiscount(tag[ware])
  IN
  /\ OpenCard(c) \/ NewCard(c)
  /\ \/ \E l \in LinesFor(card, ware) :
          /\ l.quantity + quantity <= MaxQuantity
          /\ cards' = [cards EXCEPT ![c] = ComputeSnapshot([card EXCEPT
               !.lines = (@ \ {l}) \cup {[l EXCEPT !.quantity = @ + quantity, !.unit = unit, !.off = off]}])]
          /\ UNCHANGED lastLine
     \/ /\ LinesFor(card, ware) = {}
        /\ lastLine < MaxLines
        /\ cards' = [cards EXCEPT ![c] = ComputeSnapshot([card EXCEPT
             !.lines = @ \cup {[id |-> lastLine + 1, ware |-> ware, quantity |-> quantity,
                                unit |-> unit, off |-> off]}])]
        /\ lastLine' = lastLine + 1
  /\ UNCHANGED << tag, promotions, orders >>

\* Mutant of UpdateCartLine: the figures of the cart stay.
UpdateLineOnly(c, l, quantity) ==
  /\ OpenCard(c)
  /\ l \in cards[c].lines
  /\ cards' = [cards EXCEPT ![c].lines =
       (@ \ {l}) \cup (IF quantity = 0 THEN {} ELSE {[l EXCEPT !.quantity = quantity]})]
  /\ UNCHANGED << tag, lastLine, promotions, orders >>

\* Mutant of UpdateCartLine: a line of nothing stays.
UpdateLineToNothing(c, l, quantity) ==
  /\ OpenCard(c)
  /\ l \in cards[c].lines
  /\ cards' = [cards EXCEPT ![c] = ComputeSnapshot([@ EXCEPT
       !.lines = (@ \ {l}) \cup {[l EXCEPT !.quantity = quantity]}])]
  /\ UNCHANGED << tag, lastLine, promotions, orders >>

\* A quantity of nothing removes the line.
UpdateCartLine(c, l, quantity) ==
  LET lines == (cards[c].lines \ {l})
                 \cup (IF quantity = 0 THEN {} ELSE {[l EXCEPT !.quantity = quantity]})
  IN
  /\ OpenCard(c)
  /\ l \in cards[c].lines
  /\ cards' = [cards EXCEPT ![c] = ComputeSnapshot([@ EXCEPT !.lines = lines])]
  /\ UNCHANGED << tag, lastLine, promotions, orders >>

\* The first cart of the customer, whatever its status.
ClearCart(c) ==
  /\ cards[c].status # "none"
  /\ cards' = [cards EXCEPT ![c].lines = {}, ![c].subtotal = 0, ![c].discount = 0]
  /\ UNCHANGED << tag, lastLine, promotions, orders >>

\* getMyCard: a cart is made for who has none open.
GetMyCard(c) ==
  /\ NewCard(c)
  /\ cards' = [cards EXCEPT ![c].status = "open"]
  /\ UNCHANGED << tag, lastLine, promotions, orders >>

\* lock, of any cart with lines.
LockCard(c) ==
  /\ cards[c].lines # {}
  /\ cards' = [cards EXCEPT ![c].status = "locked"]
  /\ UNCHANGED << tag, lastLine, promotions, orders >>

\* CardStatusService works on all carts of the customer.
Moved(from, to) == [c \in Cards |-> IF cards[c].status = from THEN [cards[c] EXCEPT !.status = to] ELSE cards[c]]
LockCart == cards' = Moved("open", "locked") /\ UNCHANGED << tag, lastLine, promotions, orders >>
UnlockCart == cards' = Moved("locked", "open") /\ UNCHANGED << tag, lastLine, promotions, orders >>
AbandonCart ==
  /\ \/ OpenCards # {} /\ cards' = Moved("locked", "abandoned")
     \/ \E c \in Cards : NewCard(c) /\ cards' = [Moved("locked", "abandoned") EXCEPT ![c].status = "open"]
  /\ UNCHANGED << tag, lastLine, promotions, orders >>

\* An administrator changes a price.
ChangeTag(ware, t) ==
  /\ t # tag[ware]
  /\ tag' = [tag EXCEPT ![ware] = t]
  /\ UNCHANGED << cards, lastLine, promotions, orders >>

-----------------------------------------------------------------------------
\* Promotions

\* validateCondition: does the order meet the condition?
Meets(order, c) ==
  CASE c.type = "user" -> c.of = {} \/ Buyer \in c.of
    [] c.type = "product" -> c.of = {} \/ \E l \in order.lines, rule \in c.of :
             l.ware[1] = rule.product /\ (rule.variants = {} \/ l.ware[2] \in rule.variants)
    [] c.type = "category" -> c.of = {} \/ \E l \in order.lines : CategoryOf[l.ware[1]] \in c.of
    [] c.type = "min_order_amount" -> c.least <= order.subtotal
    [] c.type = "first_order" -> order.first

\* Mutant of Validate: one condition that is met is enough.
ValidateAny(order, p) ==
  /\ p.active
  /\ p.limit > 0 => p.used < p.limit
  /\ \E c \in p.conditions : Meets(order, c)

Validate(order, p) ==
  /\ p.active
  /\ p.limit > 0 => p.used < p.limit
  /\ \A c \in p.conditions : Meets(order, c)

\* findActiveForOrder: the WHERE on the joined conditions also decides which of
\* them are loaded, and a promotion with none is not found.
FindActiveForOrder ==
  LET Loaded(p) == [p EXCEPT !.conditions = { c \in @ : c.type # "user" \/ Buyer \in c.of }]
  IN  { Loaded(p) : p \in { x \in promotions :
          x.active /\ x.type # "coupon" /\ Loaded(x).conditions # {} } }
FindActiveByCode(code) == { p \in promotions : p.active /\ p.code = code }

\* In hundredths: a percentage is not rounded.
ActionGives(order, a) ==
  CASE a.type = "percent_discount" -> order.subtotal * a.value
    [] a.type = "amount_discount" -> 100 * a.value
    [] OTHER -> 0
DiscountOf(order, p) ==
  LET given == Sum([a \in p.actions |-> ActionGives(order, a)], p.actions)
  IN  IF p.max > 0 /\ given > 100 * p.max THEN 100 * p.max ELSE given
ShipsFree(p) == \E a \in p.actions : a.type = "free_shipping"

\* applyPromotions.  Once one of the promotions ships for free, those that give
\* nothing count as applied too, if their turn comes later.
Applied(order, found) ==
  LET valid == { p \in found : Validate(order, p) }
      works == { p \in valid : DiscountOf(order, p) > 0 \/ ShipsFree(p) }
      idle == IF \E p \in works : ShipsFree(p) THEN valid \ works ELSE {}
  IN  { works \cup more : more \in SUBSET idle }

-----------------------------------------------------------------------------
\* Orders

\* calculateShippingCost: nothing is charged yet.
ShippingCost == 0

Started == { o \in orders : o.status = "start_order" }
NextOrder == 1 + Max({0} \cup { o.id : o \in orders })

\* CheckPromotionUseCase: a code that gives nothing is an error.
Granted(order, code) ==
  IF code = "" THEN Applied(order, FindActiveForOrder)
  ELSE Applied(order, FindActiveByCode(code)) \ {{}}

\* The promotions' amounts are added up uncapped.
NewOrder(c, order, gift, granted) ==
  LET given == Sum([p \in granted |-> DiscountOf(order, p)], granted)
      discount == 100 * cards[c].discount + given
      carriage == IF \E p \in granted : ShipsFree(p) THEN 0 ELSE ShippingCost
  IN  [id |-> NextOrder, status |-> "start_order", lines |-> order.lines, first |-> order.first,
       subtotal |-> order.subtotal, discount |-> Kept(discount),
       granted |-> { p.id : p \in granted }, given |-> given, extras |-> carriage + gift,
       total |-> Kept(100 * (order.subtotal + carriage + gift) - discount)]

\* code is "" for none; the started order is deleted, and does not count for
\* isFirstOrder.
OrderFromCard(c, code, gift) ==
  LET kept == orders \ Started
      order == [lines |-> cards[c].lines, subtotal |-> cards[c].subtotal, first |-> kept = {}]
  IN
  /\ OpenCard(c) /\ cards[c].lines # {}
  /\ Cardinality(kept) < MaxOrders
  /\ \E granted \in Granted(order, code) : orders' = kept \cup {NewOrder(c, order, gift, granted)}
  /\ UNCHANGED << tag, cards, lastLine, promotions >>

\* The order is paid: its promotions are counted.
CountPromotions(o) ==
  /\ o \in Started
  /\ orders' = (orders \ {o}) \cup {[o EXCEPT !.status = "paid"]}
  /\ promotions' = { IF p.id \in o.granted THEN [p EXCEPT !.used = @ + 1] ELSE p : p \in promotions }
  /\ UNCHANGED << tag, cards, lastLine >>

\* The row is built from the request, with usedCount 0.
CreatePromotion(p) ==
  /\ \A q \in promotions : q.id < p.id
  /\ \A o \in orders : p.id \notin o.granted
  /\ promotions' = promotions \cup {[p EXCEPT !.used = 0]}
  /\ UNCHANGED << tag, cards, lastLine, orders >>

RemovePromotion(p) ==
  /\ p \in promotions /\ promotions' = promotions \ {p}
  /\ UNCHANGED << tag, cards, lastLine, orders >>

\* UpdatePromotionUseCase builds the row from the request, with usedCount 0.
UpdatePromotion(p, active) ==
  /\ p \in promotions
  /\ promotions' = (promotions \ {p}) \cup {[p EXCEPT !.active = active, !.used = 0]}
  /\ UNCHANGED << tag, cards, lastLine, orders >>

\* createManualOrder: lines at today's prices, less what the administrator
\* gives: an amount, or a percentage of what is left (the bounds keep its
\* hundredths whole).  Each column is rounded by itself.
NewManual(ware, quantity, off, percent) ==
  LET t == tag[ware]
      subtotal == t.price * quantity
      discount == CalculateItemDiscount(t) * quantity
      given == IF percent THEN ((100 * subtotal - discount) * off) \div 100 ELSE 100 * off
  IN  [id |-> NextOrder, status |-> "manual",
       lines |-> {[id |-> 0, ware |-> ware, quantity |-> quantity, unit |-> t.price,
                   off |-> Kept(CalculateItemDiscount(t))]},
       first |-> FALSE, subtotal |-> subtotal, discount |-> Kept(discount + given),
       granted |-> {}, given |-> given, extras |-> 0,
       total |-> Kept(100 * subtotal - discount - given)]
ManualOrder(ware, quantity, off, percent) ==
  /\ Cardinality(orders) < MaxOrders
  /\ orders' = orders \cup {NewManual(ware, quantity, off, percent)}
  /\ UNCHANGED << tag, cards, lastLine, promotions >>

-----------------------------------------------------------------------------
\* The requests.

Adds(ware) == \E c \in Cards, quantity \in 1 .. MaxQuantity : AddToCard(c, ware, quantity)
CardRequests(c) ==
  \/ \E l \in cards[c].lines, quantity \in 0 .. MaxQuantity : UpdateCartLine(c, l, quantity)
  \/ ClearCart(c) \/ GetMyCard(c) \/ LockCard(c)
OrderRequests(codes) ==
  \/ \E c \in Cards, code \in codes, gift \in {0, 1} : OrderFromCard(c, code, gift)
  \/ \E ware \in Wares, quantity \in 1 .. MaxQuantity :
       ManualOrder(ware, quantity, 1, FALSE) \/ ManualOrder(ware, quantity, 20, TRUE)
PromotionRequests(offers) ==
  \/ \E p \in offers : CreatePromotion(p)
  \/ \E p \in promotions : RemovePromotion(p) \/ \E active \in BOOLEAN : UpdatePromotion(p, active)

\* The rows.  A line of a manual order has no id of a cart's line.
Lines == [id : 0 .. MaxLines, ware : Wares, quantity : 1 .. MaxQuantity, unit : Nat, off : Nat]
Carts == [status : {"none", "open", "locked", "abandoned"}, lines : SUBSET Lines, subtotal : Nat, discount : Nat]
Orders == [id : Nat, status : {"start_order", "paid", "manual"}, lines : SUBSET Lines, first : BOOLEAN,
           subtotal : Nat, discount : Nat, granted : SUBSET Nat, given : Int, extras : Nat, total : Int]
PromotionRow(p) ==
  /\ DOMAIN p = {"id", "type", "code", "active", "limit", "used", "max", "actions", "conditions"}
  /\ p.id \in Nat /\ p.limit \in Nat /\ p.used \in Nat /\ p.max \in Nat /\ p.active \in BOOLEAN
  /\ IsFiniteSet(p.actions) /\ \A a \in p.actions : a.value \in Nat
PromotionsTypeOK ==
  /\ IsFiniteSet(promotions) /\ \A p \in promotions : PromotionRow(p)
  /\ \A p, q \in promotions : p.id = q.id => p = q

SalesTypeOK ==
  /\ tag \in [Wares -> Tags]
  /\ cards \in [Cards -> Carts]
  /\ \A c \in Cards : \A l, m \in cards[c].lines : l.id = m.id => l = m
  /\ lastLine \in 0 .. MaxLines
  /\ PromotionsTypeOK
  /\ IsFiniteSet(orders) /\ orders \subseteq Orders

=============================================================================
