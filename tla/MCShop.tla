------------------------------- MODULE MCShop --------------------------------
(***************************************************************************)
(* The parts of the back office on small instances.  They share no state,  *)
(* so a behaviour plays one scene: the others stay as they begin.          *)
(***************************************************************************)
EXTENDS WatchedShowcase, WatchedCategories, WatchedVariants, Storefront, WatchedSales,
        WatchedFulfilment, WatchedAccounts, WatchedDesk, WatchedRegisters, TLC

CONSTANTS
  a1, a2,              \* requests in progress at once, of every part
  k1, k2, k3, top,     \* categories
  phone1, phone2, text1, text2, key1, key2

VARIABLE scene

Alike == Permutations({a1, a2})

-----------------------------------------------------------------------------
\* Colours and a size vary, the fabric is a specification.
MCAttributeOf ==
  ("red" :> "color") @@ ("blue" :> "color") @@ ("large" :> "size") @@ ("wool" :> "fabric")

\* Two categories under one another, under a third; a fourth apart.
MCParentNode == << 1, 1, 2, 4 >>
MCFeatureOf ==
  ("red" :> "color") @@ ("blue" :> "color") @@ ("wool" :> "fabric") @@ ("eco" :> "label")

Sample == [node |-> 3, maker |-> "m", price |-> 1, marks |-> {}, active |-> TRUE, visible |-> TRUE,
           specs |-> {}, variants |-> {}]
\* A product in sight or hidden.
OneGood == { [Sample EXCEPT !.node = n, !.marks = k, !.visible = v, !.specs = s, !.variants = w] :
   n \in 2 .. 4, k \in SUBSET Marks, v \in BOOLEAN,
   s \in {{}, {"wool"}, {"wool", "eco"}},
   w \in {{}, {{"red"}}, {{"red", "wool"}}, {{"red"}, {"blue"}}} }
\* Of the same or another category and brand or of none, or hidden.
Relative ==
  { [Sample EXCEPT !.node = n, !.maker = m] : n \in {3, 4}, m \in Makers \cup {NoMaker} }
  \cup { [Sample EXCEPT !.maker = m, !.visible = FALSE] : m \in Makers }

Queries ==
  [page : {"category"}, on : {1, 2, 3}, makers : {{}}, min : {0}, max : {2}, marks : SUBSET Marks,
   values : SUBSET Options]
  \cup [page : {"all"}, on : {0}, makers : {{}, {"m"}}, min : {0, 2}, max : {2},
        marks : SUBSET Marks, values : SUBSET Options]
  \cup [page : {"brand"}, on : Makers, makers : {{}}, min : {0}, max : {2}, marks : SUBSET Marks,
        values : SUBSET Options]

\* A product with one variant, one with two, and three prices of them.
MCWares == {<< 1, 0 >>, << 1, 1 >>, << 2, 0 >>}
MCCategoryOf == << "x", "y" >>
Price(price, amount, percent) == [price |-> price, amount |-> amount, percent |-> percent]
MCTags == {Price(10, 0, 0), Price(10, 3, 0), Price(9, 0, 25)}
MCPrices == [w \in MCWares |-> IF w = << 1, 1 >> THEN Price(9, 0, 25) ELSE Price(10, 3, 0)]

Action(type, value) == [type |-> type, value |-> value]
Promotion(id, conditions, action) ==
  [id |-> id, type |-> "flash_deal", code |-> "-", active |-> TRUE, limit |-> 0, used |-> 0, max |-> 0,
   actions |-> {action}, conditions |-> conditions]
Condition(type, of, least) == [type |-> type, of |-> of, least |-> least]
Ware(product, which) == [product |-> product, variants |-> which]
Coupon(p) == [p EXCEPT !.type = "coupon", !.code = "a"]
MCPromotions == {
  { Promotion(1, {Condition("user", {"him"}, 0), Condition("min_order_amount", {}, 15)},
              Action("amount_discount", 4)),
    Promotion(2, {Condition("first_order", {}, 0)}, Action("free_shipping", 0)),
    Promotion(3, {Condition("category", {"y"}, 0)}, Action("next_order_coupon", 0)) },
  { [Coupon(Promotion(1, {Condition("user", {"me"}, 0), Condition("product", {Ware(1, {1})}, 0)},
                      Action("percent_discount", 15)))
       EXCEPT !.max = 3, !.limit = 1, !.actions = @ \cup {Action("amount_discount", 1)}] },
  { Coupon(Promotion(1, {Condition("user", {"him"}, 0), Condition("product", {Ware(1, {})}, 0)},
                     Action("amount_discount", 4))) } }

MCOffers == { [Coupon(Promotion(4, {Condition("category", {"x"}, 0)}, Action("percent_discount", 10)))
                EXCEPT !.limit = 1] }

-----------------------------------------------------------------------------
\* How a part begins that is not played.
ShowcaseAway == WatchedInit({"layout"})
CategoriesAway == WatchedTreeInit /\ alive = {}
VariantsAway == WatchedVariantsInit /\ variants = {} /\ specs = {}
StorefrontAway == StorefrontInit(<< Sample >>, [n \in Nodes |-> Features])
SalesAway == WatchedSalesInit(MCPrices, {})
FulfilmentAway == WatchedFulfilmentInit /\ parcel = "preparing" /\ paid.transfer = "null"
RegistersAway == WatchedRegistersInit /\ table = "brands"

StorefrontScene ==
  \/ \E good \in OneGood : \E features \in { [n \in Nodes |-> Features],
                                             [n \in Nodes |-> IF n = 1 THEN {} ELSE {"color"}] } :
       StorefrontInit(<< good >>, features)
  \/ \E g \in [1 .. 4 -> Relative] :
       StorefrontInit(<< g[1], g[2], Sample, g[3], g[4] >>, [n \in Nodes |-> {}])

ShopInit ==
  /\ scene \in {"showcase", "categories", "variants", "storefront", "sales", "orders", "accounts", "desk", "registers"}
  /\ WatchedAccountsInit /\ WatchedDeskInit
  /\ IF scene = "showcase" THEN WatchedInit(Kinds) ELSE ShowcaseAway
  /\ IF scene = "categories" THEN WatchedTreeInit ELSE CategoriesAway
  /\ IF scene = "variants" THEN WatchedVariantsInit ELSE VariantsAway
  /\ IF scene = "sales" THEN \E offers \in MCPromotions : WatchedSalesInit(MCPrices, offers) ELSE SalesAway
  /\ IF scene = "orders" THEN WatchedFulfilmentInit ELSE FulfilmentAway
  /\ IF scene = "registers" THEN WatchedRegistersInit ELSE RegistersAway
  /\ IF scene = "storefront" THEN StorefrontScene ELSE StorefrontAway

AsksStorefront ==
  /\ asked = NoQuery
  /\ IF Len(goods) = 1
     THEN \E q \in Queries : AsksCatalogue(q)
     ELSE \E self \in DOMAIN goods, limit \in 1 .. 3 : GetSimilarProducts(self, limit)

showcaseAll == << showcaseVars, watch >>
treeAll == << treeVars, treeWatch >>
variantAll == << variantVars, variantWatch >>
salesAll == << salesVars, salesWatch >>
fulfilmentAll == << fulfilmentVars, fulfilmentWatch >>
accountsAll == << accountsVars, accountsWatch >>
deskAll == << deskVars, deskWatch >>
registerAll == << registerVars, registerWatch >>

ShopNext ==
  /\ \/ scene = "showcase" /\ WatchedNext
     \/ scene # "showcase" /\ UNCHANGED showcaseAll
  /\ \/ scene = "categories" /\ WatchedTreeNext
     \/ scene # "categories" /\ UNCHANGED treeAll
  /\ \/ scene = "variants" /\ WatchedVariantsNext
     \/ scene # "variants" /\ UNCHANGED variantAll
  /\ \/ scene = "storefront" /\ AsksStorefront
     \/ scene # "storefront" /\ UNCHANGED storefrontVars
  /\ \/ scene = "sales" /\ WatchedSalesNext
     \/ scene # "sales" /\ UNCHANGED salesAll
  /\ \/ scene = "orders" /\ WatchedFulfilmentNext
     \/ scene # "orders" /\ UNCHANGED fulfilmentAll
  /\ \/ scene = "accounts" /\ WatchedAccountsNext
     \/ scene # "accounts" /\ UNCHANGED accountsAll
  /\ \/ scene = "desk" /\ WatchedDeskNext
     \/ scene # "desk" /\ UNCHANGED deskAll
  /\ \/ scene = "registers" /\ WatchedRegistersNext
     \/ scene # "registers" /\ UNCHANGED registerAll
  /\ UNCHANGED scene

shopVars == << scene, showcaseAll, treeAll, variantAll, storefrontVars, salesAll, fulfilmentAll,
               accountsAll, deskAll, registerAll >>
ShopSpec == ShopInit /\ [][ShopNext]_shopVars

\* The rows of every part are of the kinds its tables admit, and ids and open
\* carts are single.
ShopTypeOK ==
  /\ ShowcaseTypeOK /\ TreeTypeOK /\ VariantsTypeOK /\ StorefrontTypeOK /\ SalesTypeOK
  /\ FulfilmentTypeOK /\ AccountsTypeOK /\ DeskTypeOK /\ RegistersTypeOK

=============================================================================
