----------------------------- MODULE WatchedSales -----------------------------
(***************************************************************************)
(* Sales with what explains a figure that does not add up.                 *)
(***************************************************************************)
EXTENDS Sales

CONSTANTS
  MaxSales,      \* bound: how many requests are made
  Codes,         \* the codes customers try, "" for none
  NewOffers      \* promotions that may be created

ASSUME OffersAssumption == \A p \in NewOffers : PromotionRow(p)

VARIABLES
  sales,         \* how many requests there have been
  retagged,      \* wares whose price or discount was changed
  mixed,         \* lines that got the price of another ware of the product
  unlocked       \* a locked cart was unlocked

salesWatch == << sales, retagged, mixed, unlocked >>

WatchedSalesInit(tags, rows) ==
  SalesInit(tags, rows) /\ sales = 0 /\ retagged = {} /\ mixed = {} /\ unlocked = FALSE

\* The lines that have got a price, or a quantity, with the ware that gave it.
Mixes(ware) == { l.id : l \in { x \in UNION { cards[c].lines : c \in Cards } :
                                  x.ware[1] = ware[1] /\ x.ware # ware } }

WatchesCarts ==
  unlocked' = (unlocked \/ \E c \in Cards : cards[c].status = "locked" /\ cards'[c].status = "open")

WatchedSalesNext ==
  /\ sales < MaxSales /\ sales' = sales + 1
  /\ \/ \E ware \in Wares :
          /\ Adds(ware)
          /\ mixed' = mixed \cup (IF ware[2] = Plain THEN Mixes(ware) ELSE {})
          /\ UNCHANGED retagged
     \/ \E ware \in Wares, t \in Tags :
          ChangeTag(ware, t) /\ retagged' = retagged \cup {ware} /\ UNCHANGED mixed
     \/ /\ \/ OrderRequests(Codes) \/ PromotionRequests(NewOffers)
           \/ \E o \in orders : CountPromotions(o)
           \/ (\E c \in Cards : CardRequests(c)) \/ LockCart \/ UnlockCart \/ AbandonCart
        /\ UNCHANGED << retagged, mixed >>
  /\ WatchesCarts

\* Any prices and any table of promotions to begin with.
WatchedSalesSpec ==
  /\ tag \in [Wares -> Tags] /\ PromotionsTypeOK /\ WatchedSalesInit(tag, promotions)
  /\ [][WatchedSalesNext]_<< salesVars, salesWatch >>

-----------------------------------------------------------------------------
\* What the rounding of single prices and of the whole may move a total by.
Tolerance(o) ==
  50 + (IF o.status = "manual" THEN Sum([l \in o.lines |-> 50 * l.quantity], o.lines) ELSE 0)

\* What an order comes to, in hundredths.
Due(o) ==
  100 * (Sum([l \in o.lines |-> FinalUnit(l) * l.quantity], o.lines) + o.extras) - o.given
TotalFits(o) ==
  (\A l \in o.lines : l.off <= l.unit) => 100 * o.total - Due(o) \in -Tolerance(o) .. Tolerance(o)
TagFits(t) ==
  t.amount = 0 \/ t.percent = 0 =>
    /\ CalculateItemDiscount(t) = SearchDiscount(t) /\ SearchDiscount(t) = SortDiscount(t)
    /\ 100 * ResolveUnitDiscount(t) \in SearchDiscount(t) - 99 .. SearchDiscount(t)

\* The figures of a cart are the sums of its lines; a line has the price of its
\* ware, unless that has changed or the product was added without a variant;
\* the total of an order is the sum of what its lines come to, less what it is
\* given, plus the carriage and the wrapping, but for the rounding, half a unit
\* for an order from a cart; and with one kind of discount every part of the
\* shop shows the same price.
FiguresAddUp ==
  /\ \A c \in Cards : cards[c] = ComputeSnapshot(cards[c])
  /\ \A c \in Cards : \A l \in cards[c].lines : l.id \notin mixed /\ l.ware \notin retagged =>
       l.unit = tag[l.ware].price /\ l.off = ResolveUnitDiscount(tag[l.ware])
  /\ \A o \in orders : TotalFits(o)
  /\ \A t \in Tags : TagFits(t)

\* A customer has one open cart, until a locked cart is unlocked while another
\* is open; and the figures add up.
SalesSound ==
  /\ unlocked \/ Cardinality(OpenCards) <= 1
  /\ FiguresAddUp

\* A promotion an order was granted without a code, or with one, has its
\* conditions met by that order; only the customers named by a promotion that
\* is found by another of its conditions, and needs no code, are not asked about.
Deserves(o, p) ==
  \A c \in p.conditions :
    \/ Meets(o, c)
    \/ c.type = "user" /\ p.type # "coupon"
       /\ \E d \in p.conditions \ {c} : d.type # "user" \/ Buyer \in d.of
PromotionsDeserved ==
  \A o \in orders : \A p \in promotions : p.id \in o.granted => Deserves(o, p)

=============================================================================
