------------------------------ MODULE Storefront ------------------------------
(***************************************************************************)
(* What the pages of the catalogue list for a query, which filters they    *)
(* offer, and which products a product page shows as similar.  The answers *)
(* are functions of the rows; the statements are taken at one moment.      *)
(***************************************************************************)
EXTENDS Naturals, Sequences, FiniteSets

CONSTANTS
  Nodes,         \* ids of categories
  ParentNode,    \* the parent of each, itself for a root
  Features,      \* ids of attributes
  PublicFeatures,\* those with is_public
  Options,       \* values of attributes
  FeatureOf,     \* the attribute of each value
  Makers,        \* ids of brands
  Prices,        \* a price after discount_amount
  Marks          \* the yes-or-no filters: discounted, in_stock, ...

VARIABLES
  goods,         \* the products, newest first
  offeredIn,     \* category_attributes: the attributes of each category
  asked,         \* the query of the last request
  answer         \* what it was answered

storefrontVars == << goods, offeredIn, asked, answer >>

ASSUME StorefrontAssumption ==
  /\ IsFiniteSet(Features) /\ FeatureOf \in [Options -> Features]
  /\ Prices \subseteq Nat

NoQuery == [page |-> "none"]
NoMaker == "no brand"

Good == [node : Nodes, maker : Makers \cup {NoMaker}, price : Prices, marks : SUBSET Marks,
         active : BOOLEAN, visible : BOOLEAN,
         specs : SUBSET Options, variants : SUBSET SUBSET Options]

Question(page, places) ==
  [page : {page}, on : places, makers : SUBSET Makers, min : Nat, max : Nat,
   marks : SUBSET Marks, values : SUBSET Options]
Questions == Question("category", Nodes) \cup Question("all", {0}) \cup Question("brand", Makers)
SimilarQuestions == [page : {"similar"}, on : DOMAIN goods, limit : Nat \ {0}]

\* How many of these places come before one, and the places in their order: the
\* newest first, as ORDER BY created_at DESC lists the rows.
Before(i, S) == Cardinality({ j \in S : j < i })
NewestFirst(S) == [n \in 1 .. Cardinality(S) |-> CHOOSE i \in S : Before(i, S) = n - 1]

-----------------------------------------------------------------------------
\* extractCategoryIds of the tree below a node; the parent was loaded one level
\* up, so includeParents adds one category.
Subtree(n) == { m \in Nodes : m = n \/ ParentNode[m] = n \/ ParentNode[ParentNode[m]] = n }
ExtractCategoryIds(n, includeParents) ==
  Subtree(n) \cup (IF includeParents THEN {ParentNode[n]} ELSE {})

\* parseAttributeFilter gives the values asked for by attribute; attributes
\* that are not public are dropped.
ValidFilter(values) == { v \in values : FeatureOf[v] \in PublicFeatures }

\* Mutant of HasAll: the values are counted, not their attributes.
HasEveryValue(has, values) == Cardinality(has \cap values) = Cardinality(values)

\* COUNT(DISTINCT attribute_id) of the rows that match, against the number of
\* attributes in the filter.
HasAll(has, values) ==
  Cardinality({ FeatureOf[v] : v \in has \cap values }) = Cardinality({ FeatureOf[v] : v \in values })

\* The conditions that are joined by AND, each page with its own first one.
Where(good, q) ==
  /\ good.active /\ good.visible
  /\ q.page = "category" => good.node \in ExtractCategoryIds(q.on, FALSE)
  /\ q.page = "brand" => good.maker = q.on
  /\ q.makers # {} /\ q.page # "brand" => good.maker \in q.makers
  /\ q.min <= good.price /\ good.price <= q.max
  /\ q.marks \subseteq good.marks

\* applyAttributeFilter joins "variants OR specifications" to them with no
\* parentheses: the second EXISTS is an alternative to all that stands before.
Filtered(good, q) ==
  LET values == ValidFilter(q.values) IN
  IF values = {} THEN Where(good, q)
  ELSE \/ Where(good, q) /\ \E v \in good.variants : HasAll(v, values)
       \/ HasAll(good.specs, values)

\* buildFilters: the values of the attributes of these categories that active
\* products there have, and how many products there are of each brand.
BuildFilters(n) ==
  LET ids == ExtractCategoryIds(n, TRUE)
      there == { i \in DOMAIN goods : goods[i].active /\ goods[i].node \in ids }
  IN  [values |-> { v \in UNION { goods[i].specs \cup UNION goods[i].variants : i \in there } :
                      \E c \in ids : FeatureOf[v] \in offeredIn[c] },
       brands |-> [b \in Makers |-> Cardinality({ i \in there : goods[i].maker = b })]]

\* buildFiltersForAllProducts asks no category and no category_attributes.
BuildFiltersForAllProducts ==
  LET there == { i \in DOMAIN goods : goods[i].active }
  IN  [values |-> UNION { goods[i].specs \cup UNION goods[i].variants : i \in there },
       brands |-> [b \in Makers |-> Cardinality({ i \in there : goods[i].maker = b })]]

\* buildFiltersForBrand offers categories in place of brands.
BuildFiltersForBrand(b) ==
  LET there == { i \in DOMAIN goods : goods[i].active /\ goods[i].maker = b }
  IN  [values |-> UNION { goods[i].specs \cup UNION goods[i].variants : i \in there },
       brands |-> [m \in {b} |-> Cardinality(there)]]

-----------------------------------------------------------------------------
\* findSimilarProducts: four lists, each cut (`take`), each filling up what is
\* missing.  A product need not have a brand.
NewestOf(S, n) == { i \in S : Before(i, S) < n }
Members(s) == { s[i] : i \in DOMAIN s }
Take(s, n) == SubSeq(s, 1, IF n < Len(s) THEN n ELSE Len(s))

FillsUp(found, more, self, limit) ==
  Take(found \o NewestFirst(more \ (Members(found) \cup {self})), limit)

Visible == { i \in DOMAIN goods : goods[i].visible }
SameCategory(self) == { i \in Visible : goods[i].node = goods[self].node }
SameBrand(self) == { i \in Visible : goods[i].maker = goods[self].maker /\ goods[self].maker # NoMaker }

SimilarProducts(self, limit) ==
  LET one == FillsUp(<< >>, NewestOf(SameCategory(self) \cap SameBrand(self), limit), self, limit)
      two == FillsUp(one, NewestOf(SameCategory(self), 2 * limit), self, limit)
      three == FillsUp(two, NewestOf(SameBrand(self), 2 * limit), self, limit)
  IN  FillsUp(three, NewestOf(Visible, 2 * limit), self, limit)

-----------------------------------------------------------------------------
StorefrontInit(stock, features) ==
  /\ goods = stock
  /\ offeredIn = features
  /\ asked = NoQuery
  /\ answer = << >>

Answers(q, result) ==
  /\ asked' = q
  /\ answer' = result
  /\ UNCHANGED << goods, offeredIn >>

Listed(q) == NewestFirst({ i \in DOMAIN goods : Filtered(goods[i], q) })

GetProductsByCategory(q) ==
  q.page = "category" /\ Answers(q, [list |-> Listed(q), filters |-> BuildFilters(q.on)])
GetAllProducts(q) ==
  q.page = "all" /\ Answers(q, [list |-> Listed(q), filters |-> BuildFiltersForAllProducts])
GetProductsByBrand(q) ==
  q.page = "brand" /\ Answers(q, [list |-> Listed(q), filters |-> BuildFiltersForBrand(q.on)])
GetSimilarProducts(self, limit) ==
  /\ self \in DOMAIN goods
  /\ Answers([page |-> "similar", on |-> self, limit |-> limit],
             [list |-> SimilarProducts(self, limit)])

AsksCatalogue(q) == GetProductsByCategory(q) \/ GetAllProducts(q) \/ GetProductsByBrand(q)

StorefrontNext ==
  \/ \E q \in Questions : AsksCatalogue(q)
  \/ \E self \in DOMAIN goods, limit \in Nat \ {0} : GetSimilarProducts(self, limit)

StorefrontSpec ==
  /\ \E stock \in Seq(Good), features \in [Nodes -> SUBSET Features] : StorefrontInit(stock, features)
  /\ [][StorefrontNext]_storefrontVars

StorefrontTypeOK ==
  /\ goods \in Seq(Good) /\ offeredIn \in [Nodes -> SUBSET Features]
  /\ asked \in {NoQuery} \cup Questions \cup SimilarQuestions

-----------------------------------------------------------------------------
\* One variant, or the specifications, have a value of each attribute asked for.
Offers(good, values) ==
  \E has \in good.variants \cup {good.specs} :
    \A v \in values : \E w \in has \cap values : FeatureOf[w] = FeatureOf[v]

\* A page lists every product it should; what it lists beyond that has all the
\* attributes asked for among its specifications.  A value that is offered
\* leads to a product, unless all that have it are hidden or of the parent.
ListsWhatIsAsked ==
  asked.page \in {"category", "brand", "all"} =>
    LET values == ValidFilter(asked.values)
        listed == Members(answer.list)
        right == { i \in DOMAIN goods : Where(goods[i], asked)
                     /\ (values # {} => Offers(goods[i], values)) }
    IN  /\ right \subseteq listed
        /\ \A i \in listed \ right : values # {} /\ Offers([goods[i] EXCEPT !.variants = {}], values)
        /\ \A v \in answer.filters.values :
             \E i \in DOMAIN goods :
               /\ v \in goods[i].specs \cup UNION goods[i].variants
               /\ \/ ~goods[i].visible
                  \/ asked.page = "category" /\ goods[i].node = ParentNode[asked.on]
                  \/ Filtered(goods[i], [asked EXCEPT !.values = {v}, !.makers = {}, !.marks = {},
                                        !.min = 0, !.max = goods[i].price])

\* Similar products are other visible products, each once, as many as asked for
\* if there are that many, and those of the same category and brand first.  One
\* of these may be missing for another: the product takes a place itself.
SimilarIsFull ==
  asked.page = "similar" =>
    LET others == Visible \ {asked.on}
        kin == (SameCategory(asked.on) \cap SameBrand(asked.on)) \ {asked.on}
        list == answer.list
    IN  /\ Members(list) \subseteq others
        /\ Cardinality(Members(list)) = Len(list)
        /\ Len(list) = IF Cardinality(others) < asked.limit THEN Cardinality(others) ELSE asked.limit
        /\ \A i \in DOMAIN list : \A j \in 1 .. i : list[i] \in kin => list[j] \in kin
        /\ kin \subseteq Members(list) \/ Members(Take(list, asked.limit - 1)) \subseteq kin

\* What a page of the catalogue lists is what was asked for, and what a product
\* page shows as similar is as much as there is.
PagesSound == ListsWhatIsAsked /\ SimilarIsFull

=============================================================================
