---------------------------- MODULE CachesProofs ----------------------------
(***************************************************************************)
(* For any number of products, categories, orders, customers and requests: *)
(* the caches are well formed, and every step of them is a step of         *)
(* CachedView, the abstract specification, or changes nothing it shows.    *)
(* And no key is stale without one of the excuses of WatchedCaches.  For   *)
(* any products and any query, the pages list what they should.            *)
(***************************************************************************)
EXTENDS WatchedCaches, Storefront, FunctionTheorems, FiniteSetTheorems, SequenceTheorems, TLAPS

\* The rows a reader has selected before its statement number at.
Selected(k, at) == UNION { ReadPlan(k)[i] : i \in 1 .. (at - 1) }

Readers == [op : {"read"}, key : Keys, at : Nat \ {0},
            seen : UNION { [S -> Nat] : S \in SUBSET Rows }]
Steps == [do : {"insert", "update", "delete"}, on : SUBSET Rows]
           \cup [do : {"clear"}, on : SUBSET Keys]
Writers == [op : {"write"}, todo : Seq(Steps) \ {<< >>}, misses : SUBSET Keys]

\* A reader has run its statements in order, and what it has seen is committed.
Reads(q) ==
  /\ 1 .. (q.at - 1) \subseteq DOMAIN ReadPlan(q.key)
  /\ DOMAIN q.seen = Selected(q.key, q.at)
  /\ \A r \in DOMAIN q.seen : q.seen[r] <= stored[r]

Requests ==
  /\ request \in [Callers -> {Idle} \cup Readers \cup Writers]
  /\ \A c \in Callers : request[c].op = "read" => Reads(request[c])

Entries == entry \in [Keys -> {NoEntry} \cup UNION { [S -> Nat] : S \in SUBSET Rows }]

IInv == CacheTypeOK /\ Entries /\ Requests

-----------------------------------------------------------------------------
\* The plan of a reader is a sequence of sets of rows.

LEMMA PlansAreSequences ==
  ASSUME NEW k \in Keys
  PROVE  \E n \in {1, 2, 3} : /\ DOMAIN ReadPlan(k) = 1 .. n
                              /\ \A i \in 1 .. n : ReadPlan(k)[i] \in SUBSET Rows
<1> DEFINE Plan(s) == \E n \in {1, 2, 3} : DOMAIN s = 1 .. n /\ \A i \in 1 .. n : s[i] \in SUBSET Rows
<1>r. /\ \A p \in Products : Product(p) \in Rows /\ Reviews(p) \in Rows
      /\ \A c \in Categories : Category(c) \in Rows
      /\ \A o \in Orders : Order(o) \in Rows
      /\ Attributes \in Rows /\ Brands \in Rows
      /\ AllProducts \subseteq Rows /\ AllCategories \subseteq Rows
  BY DEF Rows, AllProducts, AllCategories
<1>one. ASSUME NEW S \in SUBSET Rows PROVE Plan(<< S >>)
  OBVIOUS
<1>two. ASSUME NEW S \in SUBSET Rows, NEW T \in SUBSET Rows PROVE Plan(<< S, T >>)
  OBVIOUS
<1>three. ASSUME NEW S \in SUBSET Rows, NEW T \in SUBSET Rows, NEW U \in SUBSET Rows
          PROVE Plan(<< S, T, U >>)
  OBVIOUS
<1> HIDE DEF Plan
<1>s. Shown \in SUBSET Rows /\ \A u \in Users : OrdersOf(u) \in SUBSET Rows
  BY <1>r DEF Shown, OrdersOf
<1> USE DEF ProductList, SearchResults, SearchSuggestions, CategoryTree, CategoryTreePage,
            AdminOrderList
<1>1. ASSUME NEW p \in Products, k = ProductById(p) PROVE Plan(ReadPlan(k))
  <2>1. ReadPlan(k) = FindOneForSite(p)
    BY <1>1 DEF ReadPlan, ProductById
  <2> QED BY <2>1, <1>r, <1>two DEF FindOneForSite
<1>2. ASSUME NEW p \in Products, k = ProductSimilar(p) PROVE Plan(ReadPlan(k))
  <2>1. ReadPlan(k) = FindSimilarProducts(p)
    BY <1>2 DEF ReadPlan, ProductSimilar
  <2> QED BY <2>1, <1>r, <1>s, <1>two DEF FindSimilarProducts
<1>3. ASSUME k = ProductList PROVE Plan(ReadPlan(k))
  <2>1. ReadPlan(k) = FindAllProducts
    BY <1>3 DEF ReadPlan
  <2> QED BY <2>1, <1>s, <1>one DEF FindAllProducts
<1>4. ASSUME k = SearchResults PROVE Plan(ReadPlan(k))
  <2>1. ReadPlan(k) = SearchAll
    BY <1>4 DEF ReadPlan
  <2> QED BY <2>1, <1>r, <1>three DEF SearchAll
<1>5. ASSUME k = SearchSuggestions PROVE Plan(ReadPlan(k))
  <2>1. ReadPlan(k) = GetSuggestions
    BY <1>5 DEF ReadPlan
  <2> QED BY <2>1, <1>r, <1>one DEF GetSuggestions
<1>6. ASSUME NEW c \in Categories, k = CategoryBySlug(c) PROVE Plan(ReadPlan(k))
  <2>1. ReadPlan(k) = FindOneSlug(c)
    BY <1>6 DEF ReadPlan, CategoryBySlug
  <2> QED BY <2>1, <1>r, <1>two DEF FindOneSlug
<1>7. ASSUME NEW c \in Categories, k = CategoryWithProducts(c) PROVE Plan(ReadPlan(k))
  <2>1. ReadPlan(k) = FindByIdWithDescendants(c)
    BY <1>7 DEF ReadPlan, CategoryWithProducts
  <2> QED BY <2>1, <1>r, <1>two DEF FindByIdWithDescendants
<1>8. ASSUME k = CategoryTree PROVE Plan(ReadPlan(k))
  <2>1. ReadPlan(k) = FindAllTreeForSite
    BY <1>8 DEF ReadPlan
  <2> QED BY <2>1, <1>r, <1>one DEF FindAllTreeForSite
<1>9. ASSUME k = CategoryTreePage PROVE Plan(ReadPlan(k))
  <2>1. ReadPlan(k) = FindAllTree
    BY <1>9 DEF ReadPlan
  <2> QED BY <2>1, <1>r, <1>one DEF FindAllTree
<1>10. ASSUME NEW u \in Users, k = UserOrderList(u) PROVE Plan(ReadPlan(k))
  <2>1. ReadPlan(k) = FindAllByUser(u)
    BY <1>10 DEF ReadPlan, UserOrderList
  <2> QED BY <2>1, <1>s, <1>one DEF FindAllByUser
<1>11. ASSUME NEW o \in Orders, k = OrderDetail(o) PROVE Plan(ReadPlan(k))
  <2>1. ReadPlan(k) = FindOneById(o)
    BY <1>11 DEF ReadPlan, OrderDetail
  <2> QED BY <2>1, <1>r, <1>one DEF FindOneById
<1>12. ASSUME k = AdminOrderList PROVE Plan(ReadPlan(k))
  <2>1. ReadPlan(k) = GetAllOrders
    BY <1>12 DEF ReadPlan
  <2>2. { Order(o) : o \in Orders } \in SUBSET Rows
    BY <1>r
  <2> QED BY <2>1, <2>2, <1>one DEF GetAllOrders
<1>13. Plan(ReadPlan(k))
  BY <1>1, <1>2, <1>3, <1>4, <1>5, <1>6, <1>7, <1>8, <1>9, <1>10, <1>11, <1>12
     DEF Keys, ProductKeys, CatalogKeys, CategoryKeys, OrderKeys
<1> QED BY <1>13 DEF Plan

\* A reader whose statements have all run has selected the rows of its key.
LEMMA PlanEnds ==
  ASSUME NEW k \in Keys, NEW at \in Nat \ {0},
         1 .. (at - 1) \subseteq DOMAIN ReadPlan(k)
  PROVE  /\ Sources(k) \in SUBSET Rows
         /\ Selected(k, at) \in SUBSET Rows
         /\ at \notin DOMAIN ReadPlan(k) => Selected(k, at) = Sources(k)
         /\ at \in DOMAIN ReadPlan(k) =>
              /\ ReadPlan(k)[at] \in SUBSET Rows
              /\ 1 .. at \subseteq DOMAIN ReadPlan(k)
              /\ Selected(k, at + 1) = Selected(k, at) \cup ReadPlan(k)[at]
<1>1. PICK n \in {1, 2, 3} : /\ DOMAIN ReadPlan(k) = 1 .. n
                             /\ \A i \in 1 .. n : ReadPlan(k)[i] \in SUBSET Rows
  BY PlansAreSequences
<1> DEFINE plan == ReadPlan(k)
<1> HIDE DEF plan
<1>2. /\ DOMAIN plan = 1 .. n
      /\ \A i \in 1 .. n : plan[i] \in SUBSET Rows
      /\ 1 .. (at - 1) \subseteq DOMAIN plan
      /\ \A m : Selected(k, m) = UNION { plan[i] : i \in 1 .. (m - 1) }
      /\ Sources(k) = UNION { plan[i] : i \in DOMAIN plan }
  BY <1>1 DEF plan, Selected, Sources
<1>3. Sources(k) \in SUBSET Rows /\ Selected(k, at) \in SUBSET Rows
  BY <1>2
<1>4. ASSUME at \notin DOMAIN plan PROVE Selected(k, at) = Sources(k)
  <2>1. 1 .. (at - 1) = DOMAIN plan
    BY <1>2, <1>4
  <2> QED BY <2>1, <1>2
<1>5. ASSUME at \in DOMAIN plan
      PROVE /\ plan[at] \in SUBSET Rows
            /\ 1 .. at \subseteq DOMAIN plan
            /\ Selected(k, at + 1) = Selected(k, at) \cup plan[at]
  <2>1. 1 .. ((at + 1) - 1) = (1 .. (at - 1)) \cup {at}
    OBVIOUS
  <2>2. Selected(k, at + 1) = UNION { plan[i] : i \in (1 .. (at - 1)) \cup {at} }
    BY <2>1, <1>2
  <2>3. Selected(k, at + 1) = Selected(k, at) \cup plan[at]
    BY <2>2, <1>2
  <2> QED BY <2>3, <1>2, <1>5
<1> QED BY <1>3, <1>4, <1>5 DEF plan

-----------------------------------------------------------------------------
\* Every request to write is a list of well-formed steps.

LEMMA KeysAndRows ==
  /\ ProductKeys \subseteq Keys /\ CatalogKeys \subseteq Keys
  /\ CategoryKeys \subseteq Keys /\ OrderKeys \subseteq Keys
  /\ Attributes \in Rows /\ Brands \in Rows
  /\ \A p \in Products : /\ Product(p) \in Rows /\ Reviews(p) \in Rows
                         /\ ProductById(p) \in Keys
                         /\ ClearProductCache(p) \in SUBSET Keys
  /\ ProductLists \in SUBSET Keys
  /\ \A c \in Categories : Category(c) \in Rows /\ ClearCategoryCache(c) \in SUBSET Keys
  /\ \A u \in Users : /\ ClearUserOrderCache(u) \in SUBSET Keys
                      /\ ClearCacheAfterCreate(u) \in SUBSET Keys
  /\ \A o \in Orders : /\ Order(o) \in Rows /\ OrderUser[o] \in Users
                       /\ OrderDetail(o) \in Keys /\ AdminOrderList \in Keys
                       /\ ClearCacheAfterStatusChange(o) \in SUBSET Keys
<1>1. /\ ProductKeys \subseteq Keys /\ CatalogKeys \subseteq Keys
      /\ CategoryKeys \subseteq Keys /\ OrderKeys \subseteq Keys
  BY DEF Keys
<1>2. /\ Attributes \in Rows /\ Brands \in Rows
      /\ \A p \in Products : Product(p) \in Rows /\ Reviews(p) \in Rows
      /\ \A c \in Categories : Category(c) \in Rows
      /\ \A o \in Orders : Order(o) \in Rows
  BY DEF Rows, AllProducts, AllCategories
<1>3. /\ \A p \in Products : ProductById(p) \in ProductKeys
      /\ \A c \in Categories : CategoryBySlug(c) \in CategoryKeys /\ CategoryWithProducts(c) \in CategoryKeys
      /\ \A u \in Users : UserOrderList(u) \in OrderKeys
      /\ \A o \in Orders : OrderDetail(o) \in OrderKeys
      /\ AdminOrderList \in OrderKeys
  BY DEF ProductKeys, CategoryKeys, OrderKeys
<1>4. ProductLists \in SUBSET Keys
  BY <1>1 DEF ProductLists
<1>5. /\ \A p \in Products : ClearProductCache(p) \in SUBSET Keys
      /\ \A c \in Categories : ClearCategoryCache(c) \in SUBSET Keys
      /\ \A u \in Users : ClearUserOrderCache(u) \in SUBSET Keys
      /\ ClearAdminListCache \in SUBSET Keys
  BY <1>1, <1>3, <1>4 DEF ClearProductCache, ClearCategoryCache, ClearAllCategoryCache,
     ClearUserOrderCache, ClearAdminListCache
<1>6. \A o \in Orders : OrderUser[o] \in Users
  BY CachesAssumption
<1>7. /\ \A u \in Users : ClearCacheAfterCreate(u) \in SUBSET Keys
      /\ \A o \in Orders : ClearCacheAfterStatusChange(o) \in SUBSET Keys
  BY <1>1, <1>3, <1>5, <1>6 DEF ClearCacheAfterCreate, ClearCacheAfterStatusChange
<1> QED BY <1>1, <1>2, <1>3, <1>4, <1>5, <1>6, <1>7

Lists == Seq(Steps) \ {<< >>}

LEMMA StepsOfRequests ==
  /\ \A rows \in SUBSET Rows :
       Insert(rows) \in Steps /\ Update(rows) \in Steps /\ Delete(rows) \in Steps
  /\ \A keys \in SUBSET Keys : Clear(keys) \in Steps
  /\ \A a \in Steps : << a >> \in Lists
  /\ \A a, b \in Steps : << a, b >> \in Lists
  /\ \A a, b, d \in Steps : << a, b, d >> \in Lists
  /\ \A a, b, d, e \in Steps : << a, b, d, e >> \in Lists
<1>1. /\ \A rows \in SUBSET Rows :
           Insert(rows) \in Steps /\ Update(rows) \in Steps /\ Delete(rows) \in Steps
      /\ \A keys \in SUBSET Keys : Clear(keys) \in Steps
  BY DEF Steps, Insert, Update, Delete, Clear
<1>2. \A S : /\ \A a \in S : << a >> \in Seq(S) \ {<< >>}
             /\ \A a, b \in S : << a, b >> \in Seq(S) \ {<< >>}
             /\ \A a, b, d \in S : << a, b, d >> \in Seq(S) \ {<< >>}
             /\ \A a, b, d, e \in S : << a, b, d, e >> \in Seq(S) \ {<< >>}
  OBVIOUS
<1> QED BY <1>1, <1>2 DEF Lists

Begins(c) == \E steps \in Lists, misses \in SUBSET Keys : Starts(c, steps, misses)

LEMMA ProductRequestsBegin ==
  ASSUME NEW c \in Callers, ProductRequests(c)
  PROVE  Begins(c)
<1> USE KeysAndRows, StepsOfRequests
<1> DEFINE Own(ps) == { Product(p) : p \in ps }
<1>c. /\ ClearAllCatalogCache \in SUBSET Keys
      /\ \A ps \in SUBSET Products : /\ Own(ps) \in SUBSET Rows
                                     /\ { ProductById(p) : p \in ps } \in SUBSET Keys
                                     /\ UNION { ClearProductCache(p) : p \in ps } \in SUBSET Keys
  BY DEF ClearAllCatalogCache
<1>1. ASSUME NEW p \in Products,
             \/ CreateProduct(c, p) \/ UpdateProduct(c, p) \/ RemoveProduct(c, p)
             \/ CreateVariants(c, p) \/ UpdateVariant(c, p) \/ RemoveVariant(c, p)
             \/ RemoveByVariant(c, p)
             \/ CreateAttributeValues(c, p) \/ UpdateAttributeValues(c, p)
             \/ RemoveByProductAttribute(c, p) \/ AddedImportant(c, p)
      PROVE  Begins(c)
  <2>1. {Product(p)} \in SUBSET Rows
    OBVIOUS
  <2>2. CASE CreateProduct(c, p)
    BY <1>c, <2>1, <2>2 DEF CreateProduct, Begins
  <2>3. CASE UpdateProduct(c, p)
    BY <1>c, <2>1, <2>3 DEF UpdateProduct, Begins
  <2>4. CASE RemoveProduct(c, p)
    BY <1>c, <2>1, <2>4 DEF RemoveProduct, Begins
  <2>5. CASE AddedImportant(c, p)
    BY <1>c, <2>1, <2>5 DEF AddedImportant, Begins
  <2>6. CASE ClearsInside(c, p)
    BY <1>c, <2>1, <2>6 DEF ClearsInside, Begins
  <2> QED BY <1>1, <2>2, <2>3, <2>4, <2>5, <2>6 DEF CreateVariants, UpdateVariant,
         RemoveVariant, RemoveByVariant, CreateAttributeValues, UpdateAttributeValues,
         RemoveByProductAttribute
<1>2. ASSUME NEW p \in Products, NEW id \in Products,
             RemoveAttributeValue(c, p, id) \/ OrderAttributeValue(c, p, id)
      PROVE  Begins(c)
  <2>1. {Product(p)} \in SUBSET Rows /\ CategoryKeys \cup {ProductById(p)} \in SUBSET Keys
    OBVIOUS
  <2> QED BY <1>2, <1>c, <2>1 DEF RemoveAttributeValue, OrderAttributeValue, Begins
<1>3. ASSUME NEW p \in Products, OrderAttributes(c, p) \/ ChangeReview(c, p) \/ ChangeStock(c, p)
      PROVE  Begins(c)
  <2>1. /\ {Product(p)} \in SUBSET Rows /\ {Reviews(p)} \in SUBSET Rows
        /\ {Attributes} \in SUBSET Rows /\ {ProductById(p)} \in SUBSET Keys
        /\ { ProductById(q) : q \in Products } \in SUBSET Keys
        /\ CategoryKeys \cup CatalogKeys \in SUBSET Keys
    OBVIOUS
  <2> QED BY <1>3, <1>c, <2>1 DEF OrderAttributes, ChangeReview, ChangeStock, Begins
<1>4. ASSUME NEW ps \in SUBSET Products, UpdateBulk(c, ps) \/ RemoveBulk(c, ps)
      PROVE  Begins(c)
  <2>1. { ProductById(p) : p \in ps } \cup CategoryKeys \in SUBSET Keys
    BY <1>c
  <2>2. CASE UpdateBulk(c, ps)
    BY <2>2, <1>c, <2>1 DEF UpdateBulk, Begins
  <2>3. CASE RemoveBulk(c, ps)
    BY <2>3, <1>c, <2>1 DEF RemoveBulk, Begins
  <2> QED BY <1>4, <2>2, <2>3
<1>5. ASSUME ChangeAttributes(c) \/ ChangeBrand(c) PROVE Begins(c)
  <2>1. {Attributes} \in SUBSET Rows /\ {Brands} \in SUBSET Rows
    OBVIOUS
  <2> QED BY <1>5, <1>c, <2>1 DEF ChangeAttributes, ChangeBrand, Begins
<1> QED BY <1>1, <1>2, <1>3, <1>4, <1>5 DEF ProductRequests

LEMMA OtherRequestsBegin ==
  ASSUME NEW c \in Callers, CategoryRequests(c) \/ OrderRequests(c) \/ ClearsAll(c)
  PROVE  Begins(c)
<1> USE KeysAndRows, StepsOfRequests
<1>c. /\ ClearAllCatalogCache \in SUBSET Keys /\ ClearAllCategoryCache \in SUBSET Keys
      /\ ProductKeys \cup CatalogKeys \in SUBSET Keys
      /\ \A moved \in SUBSET Categories : { Category(d) : d \in moved } \in SUBSET Rows
  BY DEF ClearAllCatalogCache, ClearAllCategoryCache
<1>1. ASSUME NEW g \in Categories, CreateCategory(c, g) \/ RemoveCategory(c, g) PROVE Begins(c)
  <2>1. {Category(g)} \in SUBSET Rows
    OBVIOUS
  <2>2. CASE CreateCategory(c, g)
    BY <2>1, <2>2, <1>c DEF CreateCategory, Begins
  <2>3. CASE RemoveCategory(c, g)
    BY <2>1, <2>3, <1>c DEF RemoveCategory, Begins
  <2> QED BY <1>1, <2>2, <2>3
<1>2. ASSUME NEW g \in Categories, NEW moved \in SUBSET Categories, UpdateCategory(c, g, moved)
      PROVE  Begins(c)
  BY <1>2, <1>c DEF UpdateCategory, Begins
<1>3. ASSUME NEW o \in Orders,
             \/ CreateOrder(c, o) \/ ChangeOrder(c, o) \/ RemoveOrder(c, o)
             \/ UpdateOrderStatus(c, o) \/ AwaitsPayment(c, o)
      PROVE  Begins(c)
  <2>1. /\ {Order(o)} \in SUBSET Rows /\ {OrderDetail(o), AdminOrderList} \in SUBSET Keys
        /\ {} \in SUBSET Keys
    OBVIOUS
  <2>2. CASE CreateOrder(c, o)
    BY <2>1, <2>2 DEF CreateOrder, Begins
  <2>3. CASE ChangeOrder(c, o)
    BY <2>1, <2>3 DEF ChangeOrder, Begins
  <2>4. CASE RemoveOrder(c, o)
    BY <2>1, <2>4 DEF RemoveOrder, Begins
  <2>5. CASE UpdateOrderStatus(c, o)
    BY <2>1, <2>5 DEF UpdateOrderStatus, Begins
  <2>6. CASE AwaitsPayment(c, o)
    BY <2>1, <2>6 DEF AwaitsPayment, Begins
  <2> QED BY <1>3, <2>2, <2>3, <2>4, <2>5, <2>6
<1>4. ASSUME ClearsAll(c) PROVE Begins(c)
  <2>1. PICK keys \in SUBSET Keys : Starts(c, << Clear(keys) >>, {})
    BY <1>4 DEF ClearsAll, ClearAllProductCache, ClearAllCatalogCache, ClearAllCategoryCache,
       ClearAllOrderCache
  <2>2. << Clear(keys) >> \in Lists /\ {} \in SUBSET Keys
    OBVIOUS
  <2> QED BY <2>1, <2>2 DEF Begins
<1> QED BY <1>1, <1>2, <1>3, <1>4 DEF CategoryRequests, OrderRequests

-----------------------------------------------------------------------------
\* The invariant is inductive.

LEMMA InitInvariant == Init => IInv
<1> SUFFICES ASSUME Init PROVE IInv
  OBVIOUS
<1>1. PICK rows \in SUBSET Rows, warm \in SUBSET Keys : InitWith(rows, warm)
  BY DEF Init
<1>2. \A k \in Keys : Sources(k) \in SUBSET Rows
  <2> SUFFICES ASSUME NEW k \in Keys PROVE Sources(k) \in SUBSET Rows
    OBVIOUS
  <2>1. 1 .. (1 - 1) \subseteq DOMAIN ReadPlan(k)
    OBVIOUS
  <2> QED BY <2>1, PlanEnds
<1>3. stored \in [Rows -> Nat] /\ live \subseteq Rows
  BY <1>1, KeysAndRows DEF InitWith
<1>4. /\ DOMAIN entry = Keys
      /\ \A k \in Keys : entry[k] = NoEntry \/ entry[k] \in [Sources(k) -> Nat]
  BY <1>1 DEF InitWith
<1>5. entry \in [Keys -> {NoEntry} \cup UNION { [S -> Nat] : S \in SUBSET Rows }]
  BY <1>1, <1>2 DEF InitWith
<1>6. request \in [Callers -> {Idle}] /\ Idle.op = "idle"
  BY <1>1 DEF InitWith, Idle
<1> QED BY <1>3, <1>4, <1>5, <1>6 DEF IInv, CacheTypeOK, Entries, Requests

\* A step that changes one request alone.
LEMMA RequestStep ==
  ASSUME IInv, UNCHANGED << stored, live, entry >>, NEW c \in Callers,
         NEW q \in {Idle} \cup Readers \cup Writers,
         request' = [request EXCEPT ![c] = q],
         q.op = "read" => Reads(q)
  PROVE  IInv'
<1>1. CacheTypeOK' /\ Entries'
  BY DEF IInv, CacheTypeOK, Entries
<1>2. \A d \in Callers : request'[d] = IF d = c THEN q ELSE request[d]
  BY DEF IInv, Requests
<1>3. request' \in [Callers -> {Idle} \cup Readers \cup Writers]
  BY DEF IInv, Requests
<1>4. ASSUME NEW d \in Callers, request'[d].op = "read" PROVE Reads(request[d])'
  BY <1>2, <1>4 DEF IInv, Requests, Reads
<1> QED BY <1>1, <1>3, <1>4 DEF IInv, Requests

\* A writer goes on to the next step of its list.
LEMMA ProceedsRight ==
  ASSUME IInv, NEW c \in Callers, request[c].op = "write", Proceeds(c)
  PROVE  /\ Step(c) \in Steps
         /\ request' \in [Callers -> {Idle} \cup Readers \cup Writers]
         /\ \A d \in Callers : d # c => request'[d] = request[d]
         /\ request'[c].op # "read"
<1>1. request[c] \in Writers
  BY DEF IInv, Requests, Idle, Readers
<1> DEFINE todo == request[c].todo
<1>2. todo \in Seq(Steps) /\ todo # << >>
  BY <1>1 DEF Writers
<1> DEFINE rest == IF Len(todo) = 1 THEN Idle ELSE [request[c] EXCEPT !.todo = Tail(todo)]
<1>3. rest \in {Idle} \cup Writers /\ rest.op # "read"
  <2>1. CASE Len(todo) = 1
    BY <2>1 DEF Idle
  <2>2. CASE Len(todo) # 1
    <3>1. Tail(todo) \in Seq(Steps) /\ Tail(todo) # << >>
      <4> HIDE DEF todo
      <4>1. Tail(todo) \in Seq(Steps) /\ Len(Tail(todo)) = Len(todo) - 1
        BY <1>2, HeadTailProperties
      <4>2. Len(todo) \in Nat /\ Len(todo) # 0
        BY <1>2
      <4>3. Len(Tail(todo)) # 0
        BY <4>1, <4>2, <2>2
      <4>4. Len(<< >>) = 0
        OBVIOUS
      <4> QED BY <4>1, <4>3, <4>4, Zenon
    <3> QED BY <3>1, <2>2, <1>1 DEF Writers
  <2> QED BY <2>1, <2>2
<1>4. request' = [request EXCEPT ![c] = rest]
  BY DEF Proceeds
<1>5. Head(todo) \in Steps
  BY <1>2
<1> QED BY <1>3, <1>4, <1>5 DEF IInv, Requests, Step

LEMMA SetsRight ==
  ASSUME IInv, NEW c \in Callers, Sets(c)
  PROVE  LET q == request[c] IN
         /\ q \in Readers /\ Reads(q)
         /\ DOMAIN q.seen = Sources(q.key)
         /\ q.seen \in [Sources(q.key) -> Nat]
<1>1. request[c] \in Readers /\ Reads(request[c])
  BY DEF IInv, Requests, Sets, Idle, Writers
<1> DEFINE q == request[c]
<1>2. /\ q.key \in Keys /\ q.at \in Nat \ {0}
      /\ q.seen \in UNION { [S -> Nat] : S \in SUBSET Rows }
  BY <1>1 DEF Readers
<1>3. q.at \notin DOMAIN ReadPlan(q.key)
  BY DEF Sets
<1>4. DOMAIN q.seen = Sources(q.key)
  BY <1>1, <1>2, <1>3, PlanEnds DEF Reads
<1>5. q.seen \in [Sources(q.key) -> Nat]
  BY <1>2, <1>4
<1> QED BY <1>1, <1>4, <1>5

LEMMA SelectsInvariant ==
  ASSUME IInv, NEW c \in Callers, Selects(c)
  PROVE  IInv'
<1> DEFINE q == request[c]
           rows == ReadPlan(q.key)[q.at]
           seen == [r \in DOMAIN q.seen \cup rows |-> IF r \in rows THEN stored[r] ELSE q.seen[r]]
           next == [q EXCEPT !.at = q.at + 1, !.seen = seen]
<1>1. q \in Readers /\ Reads(q)
  BY DEF IInv, Requests, Selects, Idle, Writers
<1>2. /\ q.key \in Keys /\ q.at \in Nat \ {0}
      /\ q.seen \in UNION { [S -> Nat] : S \in SUBSET Rows }
  BY <1>1 DEF Readers
<1>3. /\ rows \in SUBSET Rows
      /\ 1 .. q.at \subseteq DOMAIN ReadPlan(q.key)
      /\ Selected(q.key, q.at + 1) = Selected(q.key, q.at) \cup rows
  BY <1>1, <1>2, PlanEnds DEF Reads, Selects
<1>4. stored \in [Rows -> Nat]
  BY DEF IInv, CacheTypeOK
<1>5. seen \in [DOMAIN q.seen \cup rows -> Nat] /\ DOMAIN q.seen \cup rows \in SUBSET Rows
  BY <1>2, <1>3, <1>4
<1>6. /\ next \in Readers
      /\ next.key = q.key /\ next.at = q.at + 1 /\ next.seen = seen /\ next.op = "read"
  <2>1. seen \in UNION { [S -> Nat] : S \in SUBSET Rows }
    BY <1>5
  <2> HIDE DEF seen
  <2>2. q.at + 1 \in Nat \ {0}
    BY <1>2
  <2> HIDE DEF q
  <2> QED BY <1>1, <2>1, <2>2 DEF Readers
<1>7. \A r \in DOMAIN seen : seen[r] <= stored[r]
  BY <1>1, <1>3, <1>4 DEF Reads
<1>8. Reads(next)
  <2> HIDE DEF seen, next
  <2>1. DOMAIN seen = Selected(q.key, q.at + 1)
    BY <1>3, <1>1 DEF Reads, seen
  <2>2. 1 .. ((q.at + 1) - 1) = 1 .. q.at
    BY <1>2
  <2> QED BY <1>6, <1>7, <2>1, <2>2, <1>3 DEF Reads
<1>9. request' = [request EXCEPT ![c] = next] /\ UNCHANGED << stored, live, entry >>
  BY DEF Selects, IInv, Requests
<1> HIDE DEF next
<1> QED BY <1>6, <1>8, <1>9, RequestStep

LEMMA NextInvariant == IInv /\ [Next]_vars => IInv'
<1> SUFFICES ASSUME IInv, [Next]_vars PROVE IInv'
  OBVIOUS
<1>n. Idle.op = "idle"
  BY DEF Idle
<1>1. ASSUME NEW c \in Callers, NEW k \in Keys, Misses(c, k) \/ AlwaysFills(c, k)
      PROVE  IInv'
  <2> DEFINE q == [op |-> "read", key |-> k, at |-> 1, seen |-> NoEntry]
  <2>1. NoEntry \in [{} -> Nat] /\ DOMAIN NoEntry = {}
    BY DEF NoEntry
  <2>2. q \in Readers
    BY <2>1 DEF Readers
  <2>3. Reads(q)
    BY <2>1 DEF Reads, Selected
  <2>4. request' = [request EXCEPT ![c] = q] /\ UNCHANGED << stored, live, entry >>
    BY <1>1 DEF Misses, AlwaysFills
  <2> QED BY <2>2, <2>3, <2>4, RequestStep
<1>2. ASSUME NEW c \in Callers,
             ProductRequests(c) \/ CategoryRequests(c) \/ OrderRequests(c) \/ ClearsAll(c)
      PROVE  IInv'
  <2>1. PICK steps \in Lists, misses \in SUBSET Keys : Starts(c, steps, misses)
    BY <1>2, ProductRequestsBegin, OtherRequestsBegin DEF Begins
  <2> DEFINE q == [op |-> "write", todo |-> steps, misses |-> misses]
  <2>2. q \in Writers /\ q.op # "read"
    BY DEF Writers, Lists
  <2>3. request' = [request EXCEPT ![c] = q] /\ UNCHANGED << stored, live, entry >>
    BY <2>1 DEF Starts
  <2> QED BY <2>2, <2>3, RequestStep
<1>3. ASSUME NEW c \in Callers, Selects(c) PROVE IInv'
  BY <1>3, SelectsInvariant
<1>4. ASSUME NEW c \in Callers, NotFound(c) \/ Aborts(c) PROVE IInv'
  <2>1. request' = [request EXCEPT ![c] = Idle] /\ UNCHANGED << stored, live, entry >>
    BY <1>4 DEF NotFound, Aborts
  <2> QED BY <2>1, <1>n, RequestStep
<1>5. ASSUME NEW c \in Callers, Sets(c) PROVE IInv'
  <2> DEFINE q == request[c]
  <2>1. q \in Readers /\ q.seen \in [Sources(q.key) -> Nat] /\ q.key \in Keys
    BY <1>5, SetsRight DEF Readers
  <2>2. /\ UNCHANGED << stored, live >>
        /\ request' = [request EXCEPT ![c] = Idle]
        /\ entry' = entry \/ entry' = [entry EXCEPT ![q.key] = q.seen]
    BY <1>5 DEF Sets
  <2>3. q.seen \in UNION { [S -> Nat] : S \in SUBSET Rows }
    BY <2>1 DEF Readers
  <2>4. CacheTypeOK'
    BY <2>1, <2>2 DEF IInv, CacheTypeOK, Requests
  <2>5. Entries'
    BY <2>1, <2>2, <2>3 DEF IInv, Entries
  <2>6. Requests'
    BY <2>2, <1>n DEF IInv, Requests, Reads
  <2> QED BY <2>4, <2>5, <2>6 DEF IInv
<1>6. ASSUME NEW c \in Callers, Commits(c) PROVE IInv'
  <2>1. /\ Step(c) \in Steps
        /\ request' \in [Callers -> {Idle} \cup Readers \cup Writers]
        /\ \A d \in Callers : d # c => request'[d] = request[d]
        /\ request'[c].op # "read"
    BY <1>6, ProceedsRight DEF Commits
  <2>2. Step(c).on \in SUBSET Rows
    BY <2>1, <1>6 DEF Commits, Steps
  <2>3. /\ stored \in [Rows -> Nat]
        /\ stored' = [r \in Rows |-> IF r \in Step(c).on THEN stored[r] + 1 ELSE stored[r]]
    BY <1>6 DEF Commits, IInv, CacheTypeOK
  <2>4. stored' \in [Rows -> Nat] /\ \A r \in Rows : stored[r] <= stored'[r]
    BY <2>3
  <2>5. live' \subseteq Rows
    BY <1>6, <2>2 DEF Commits, IInv, CacheTypeOK
  <2>6. CacheTypeOK' /\ Entries'
    BY <1>6, <2>1, <2>4, <2>5 DEF Commits, IInv, CacheTypeOK, Entries
  <2>7. ASSUME NEW d \in Callers, request'[d].op = "read" PROVE Reads(request[d])'
    <3>1. request'[d] = request[d] /\ request[d] \in Readers /\ Reads(request[d])
      BY <2>1, <2>7, <1>n DEF IInv, Requests, Writers
    <3> DEFINE seen == request[d].seen
    <3>2. seen \in UNION { [S -> Nat] : S \in SUBSET Rows }
      BY <3>1 DEF Readers
    <3>3. \A r \in DOMAIN seen : seen[r] \in Nat /\ r \in Rows /\ seen[r] <= stored[r]
      BY <3>1, <3>2 DEF Reads
    <3>4. \A r \in DOMAIN seen : seen[r] <= stored'[r]
      BY <3>3, <2>3, <2>4
    <3> QED BY <3>1, <3>4 DEF Reads
  <2> QED BY <2>1, <2>6, <2>7 DEF IInv, Requests
<1>7. ASSUME NEW c \in Callers, Clears(c) \/ ClearFails(c) PROVE IInv'
  <2>1. /\ request' \in [Callers -> {Idle} \cup Readers \cup Writers]
        /\ \A d \in Callers : d # c => request'[d] = request[d]
        /\ request'[c].op # "read"
    BY <1>7, ProceedsRight DEF Clears, ClearFails
  <2>2. /\ UNCHANGED << stored, live >>
        /\ \/ UNCHANGED entry
           \/ entry' = [k \in Keys |-> IF k \in Step(c).on THEN NoEntry ELSE entry[k]]
    BY <1>7 DEF Clears, ClearFails
  <2>3. CacheTypeOK' /\ Entries'
    BY <2>1, <2>2 DEF IInv, CacheTypeOK, Entries
  <2>4. Requests'
    BY <2>1, <2>2 DEF IInv, Requests, Reads
  <2> QED BY <2>3, <2>4 DEF IInv
<1>8. ASSUME NEW k \in Keys, Expires(k) PROVE IInv'
  <2>1. CacheTypeOK' /\ Entries'
    BY <1>8 DEF Expires, IInv, CacheTypeOK, Entries
  <2>2. Requests'
    BY <1>8 DEF Expires, IInv, Requests, Reads
  <2> QED BY <2>1, <2>2 DEF IInv
<1>9. ASSUME UNCHANGED vars PROVE IInv'
  BY <1>9 DEF vars, IInv, CacheTypeOK, Entries, Requests, Reads
<1> QED BY <1>1, <1>2, <1>3, <1>4, <1>5, <1>6, <1>7, <1>8, <1>9 DEF Next, Continues

LEMMA InvariantHolds == Spec => []IInv
  BY InitInvariant, NextInvariant, PTL DEF Spec

\* A cached value is made of rows of its own key, each in a version that is a
\* number of commits (the set that ends a reader, after its last statement).
THEOREM CachesTypeCorrect == Spec => []CacheTypeOK
  BY InvariantHolds, PTL DEF IInv

-----------------------------------------------------------------------------
\* The caches implement CachedView.

LEMMA ViewInit == Init => View!Init
<1> SUFFICES ASSUME Init PROVE View!Init
  OBVIOUS
<1>1. PICK rows \in SUBSET Rows, warm \in SUBSET Keys : InitWith(rows, warm)
  BY DEF Init
<1>2. /\ stored = [r \in Rows |-> 0]
      /\ entry = [k \in Keys |-> IF k \in warm THEN [r \in Sources(k) |-> 0] ELSE << >>]
  BY <1>1 DEF InitWith, NoEntry
<1>3. \A k \in Keys : entry[k] \in {<< >>, [r \in Sources(k) |-> 0]}
  BY <1>2
<1>4. entry \in [Keys -> {<< >>} \cup UNION { {[r \in Sources(k) |-> 0]} : k \in Keys }]
  BY <1>2
<1> QED BY <1>2, <1>3, <1>4 DEF View!Init, View!NoEntry

LEMMA ViewStep == IInv /\ [Next]_vars => [View!Next]_<< stored, entry >>
<1> SUFFICES ASSUME IInv, [Next]_vars, ~ UNCHANGED << stored, entry >> PROVE View!Next
  OBVIOUS
<1>1. ASSUME NEW c \in Callers, Commits(c) PROVE View!Next
  <2> DEFINE changed == Rows \cap Step(c).on
  <2>1. /\ changed \in SUBSET Rows
        /\ stored' = [r \in Rows |-> IF r \in changed THEN stored[r] + 1 ELSE stored[r]]
        /\ UNCHANGED entry
    BY <1>1 DEF Commits
  <2> QED BY <2>1 DEF View!Next, View!Write
<1>2. ASSUME NEW c \in Callers, Clears(c) PROVE View!Next
  <2> DEFINE removed == Keys \cap Step(c).on
  <2>1. /\ removed \in SUBSET Keys
        /\ entry' = [k \in Keys |-> IF k \in removed THEN << >> ELSE entry[k]]
        /\ UNCHANGED stored
    BY <1>2 DEF Clears, NoEntry
  <2> QED BY <2>1 DEF View!Next, View!Drop, View!NoEntry
<1>3. ASSUME NEW c \in Callers, Sets(c) PROVE View!Next
  <2> DEFINE q == request[c]
  <2>1. /\ q \in Readers /\ Reads(q)
        /\ DOMAIN q.seen = Sources(q.key) /\ q.seen \in [Sources(q.key) -> Nat]
        /\ q.key \in Keys
    BY <1>3, SetsRight DEF Readers
  <2>2. entry' = [entry EXCEPT ![q.key] = q.seen] /\ UNCHANGED stored
    BY <1>3 DEF Sets
  <2>3. entry'[q.key] = q.seen
    BY <2>1, <2>2 DEF IInv, Entries
  <2>4. Sources(q.key) \in SUBSET Rows
    BY <2>1, PlanEnds DEF Readers, Reads
  <2>5. \A r \in Sources(q.key) : q.seen[r] \in 0 .. stored[r]
    BY <2>1, <2>4 DEF Reads, IInv, CacheTypeOK
  <2>6. View!Fill(q.key)
    BY <2>1, <2>2, <2>3, <2>5 DEF View!Fill
  <2> QED BY <2>1, <2>6 DEF View!Next
<1>4. ASSUME NEW k \in Keys, Expires(k) PROVE View!Next
  <2>1. entry' = [x \in Keys |-> IF x \in {k} THEN << >> ELSE entry[x]] /\ UNCHANGED stored
    BY <1>4 DEF Expires, NoEntry, IInv, Entries
  <2>2. {k} \in SUBSET Keys
    OBVIOUS
  <2> QED BY <2>1, <2>2 DEF View!Next, View!Drop, View!NoEntry
<1>5. ASSUME NEW c \in Callers,
             \/ ProductRequests(c) \/ CategoryRequests(c) \/ OrderRequests(c) \/ ClearsAll(c)
      PROVE  UNCHANGED << stored, entry >>
  <2>1. PICK steps \in Lists, misses \in SUBSET Keys : Starts(c, steps, misses)
    BY <1>5, ProductRequestsBegin, OtherRequestsBegin DEF Begins
  <2> QED BY <2>1 DEF Starts
<1>6. ASSUME NEW c \in Callers,
             \/ \E k \in Keys : Misses(c, k) \/ AlwaysFills(c, k)
             \/ Selects(c) \/ NotFound(c) \/ ClearFails(c) \/ Aborts(c)
      PROVE  UNCHANGED << stored, entry >>
  BY <1>6 DEF Misses, AlwaysFills, Selects, NotFound, ClearFails, Aborts
<1> QED BY <1>1, <1>2, <1>3, <1>4, <1>5, <1>6 DEF Next, Continues, vars

\* Whatever overlaps, fails or is removed, a reader of the shop is shown rows as
\* they were once committed, each perhaps as it was some time ago: nothing of a
\* transaction that was rolled back, and nothing half selected.
THEOREM CachesShowCommitted ==
  Spec => View!Init /\ [][View!Next]_<< stored, entry >>
<1>1. IInv /\ [Next]_vars => [View!Next]_<< stored, entry >>
  BY ViewStep
<1> QED BY <1>1, ViewInit, InvariantHolds, PTL DEF Spec

-----------------------------------------------------------------------------
(***************************************************************************)
(* A key is stale only with an excuse: while nobody reads it, every writer *)
(* clears it after the commit, or has cleared it before and nobody has set *)
(* it since, or says that it leaves it alone.                              *)
(***************************************************************************)

\* What a list of steps will commit and clear.
Writes(steps) == UNION { steps[i].on : i \in { j \in DOMAIN steps : steps[j].do # "clear" } }
Removes(steps) == UNION { steps[i].on : i \in { j \in DOMAIN steps : steps[j].do = "clear" } }

\* A row that exists or has existed: its absence no longer ends a reader.
Born(r) == r \in live \/ stored[r] # 0

SubjectsBorn ==
  /\ \A k \in Keys : entry[k] # NoEntry => \A r \in Subject(k) : Born(r)
  /\ \A c \in Callers : request[c].op = "read" /\ request[c].at > 1 =>
       \A r \in Subject(request[c].key) : Born(r)

OverlapExcused == \A k \in Keys : Overlapped(k) => k \in excused

ReadersCurrent ==
  \A c \in Callers : request[c].op = "read" /\ request[c].key \notin excused =>
    \A r \in DOMAIN request[c].seen : request[c].seen[r] = stored[r]

\* A key that its writer has cleared before it commits is still empty then.
ClearedBefore ==
  \A c \in Callers, k \in Keys :
    /\ request[c].op = "write" /\ Sources(k) \cap Writing(c) # {}
    /\ k \notin request[c].misses \cup Clearing(c)
    => entry[k] = NoEntry \/ k \in excused

RaceInv ==
  /\ IInv /\ excused \subseteq Keys
  /\ SubjectsBorn /\ OverlapExcused /\ ReadersCurrent /\ StaleOnlyByRace /\ ClearedBefore

-----------------------------------------------------------------------------
\* Who shows which rows.

LEMMA SourcesOfKeys ==
  /\ \A p \in Products :
       /\ Sources(ProductById(p)) = {Product(p), Attributes, Brands, Reviews(p)} \cup AllCategories
       /\ Sources(ProductSimilar(p)) = {Product(p), Brands} \cup AllCategories \cup Shown
  /\ Sources(ProductList) = Shown
  /\ Sources(SearchResults) = AllProducts \cup {Brands} \cup AllCategories
  /\ Sources(SearchSuggestions) = AllProducts
  /\ \A c \in Categories :
       /\ Sources(CategoryBySlug(c)) = {Category(c)} \cup AllCategories
       /\ Sources(CategoryWithProducts(c)) = {Category(c)} \cup AllCategories \cup AllProducts
  /\ Sources(CategoryTree) = AllCategories /\ Sources(CategoryTreePage) = AllCategories
  /\ \A u \in Users : Sources(UserOrderList(u)) = OrdersOf(u)
  /\ \A o \in Orders : Sources(OrderDetail(o)) = {Order(o)}
  /\ Sources(AdminOrderList) = { Order(o) : o \in Orders }
<1>one. \A S : UNION { << S >>[i] : i \in DOMAIN << S >> } = S
  <2> SUFFICES ASSUME NEW S PROVE UNION { << S >>[i] : i \in DOMAIN << S >> } = S
    OBVIOUS
  <2>1. DOMAIN << S >> = {1} /\ << S >>[1] = S
    OBVIOUS
  <2> QED BY <2>1
<1>two. \A S, T : UNION { << S, T >>[i] : i \in DOMAIN << S, T >> } = S \cup T
  <2> SUFFICES ASSUME NEW S, NEW T
               PROVE UNION { << S, T >>[i] : i \in DOMAIN << S, T >> } = S \cup T
    OBVIOUS
  <2>1. DOMAIN << S, T >> = {1, 2} /\ << S, T >>[1] = S /\ << S, T >>[2] = T
    OBVIOUS
  <2> QED BY <2>1
<1>three. \A S, T, U : UNION { << S, T, U >>[i] : i \in DOMAIN << S, T, U >> } = S \cup T \cup U
  <2> SUFFICES ASSUME NEW S, NEW T, NEW U
               PROVE UNION { << S, T, U >>[i] : i \in DOMAIN << S, T, U >> } = S \cup T \cup U
    OBVIOUS
  <2>1. /\ DOMAIN << S, T, U >> = {1, 2, 3} /\ << S, T, U >>[1] = S
        /\ << S, T, U >>[2] = T /\ << S, T, U >>[3] = U
    OBVIOUS
  <2> QED BY <2>1
<1> USE DEF ProductList, SearchResults, SearchSuggestions, CategoryTree, CategoryTreePage,
            AdminOrderList
<1>1. ASSUME NEW p \in Products
      PROVE  /\ Sources(ProductById(p)) = {Product(p), Attributes, Brands, Reviews(p)} \cup AllCategories
             /\ Sources(ProductSimilar(p)) = {Product(p), Brands} \cup AllCategories \cup Shown
  <2>1. ReadPlan(ProductById(p)) = FindOneForSite(p)
    BY DEF ReadPlan, ProductById
  <2>2. ReadPlan(ProductSimilar(p)) = FindSimilarProducts(p)
    BY DEF ReadPlan, ProductSimilar
  <2>3. Sources(ProductById(p)) = ({Product(p), Attributes, Brands} \cup AllCategories) \cup {Reviews(p)}
    BY <2>1, <1>two DEF Sources, FindOneForSite
  <2>4. Sources(ProductSimilar(p)) = ({Product(p)} \cup AllCategories \cup {Brands}) \cup Shown
    BY <2>2, <1>two DEF Sources, FindSimilarProducts
  <2> QED BY <2>3, <2>4
<1>2. Sources(ProductList) = Shown
  <2>1. ReadPlan(ProductList) = FindAllProducts
    BY DEF ReadPlan
  <2> QED BY <2>1, <1>one DEF Sources, FindAllProducts
<1>3. Sources(SearchResults) = AllProducts \cup {Brands} \cup AllCategories
  <2>1. ReadPlan(SearchResults) = SearchAll
    BY DEF ReadPlan
  <2>2. Sources(SearchResults) = (AllProducts \cup {Brands} \cup AllCategories) \cup {Brands} \cup AllCategories
    BY <2>1, <1>three DEF Sources, SearchAll
  <2> QED BY <2>2
<1>4. Sources(SearchSuggestions) = AllProducts
  <2>1. ReadPlan(SearchSuggestions) = GetSuggestions
    BY DEF ReadPlan
  <2> QED BY <2>1, <1>one DEF Sources, GetSuggestions
<1>5. ASSUME NEW c \in Categories
      PROVE  /\ Sources(CategoryBySlug(c)) = {Category(c)} \cup AllCategories
             /\ Sources(CategoryWithProducts(c)) = {Category(c)} \cup AllCategories \cup AllProducts
  <2>1. ReadPlan(CategoryBySlug(c)) = FindOneSlug(c)
    BY DEF ReadPlan, CategoryBySlug
  <2>2. ReadPlan(CategoryWithProducts(c)) = FindByIdWithDescendants(c)
    BY DEF ReadPlan, CategoryWithProducts
  <2>3. Sources(CategoryBySlug(c)) = {Category(c)} \cup AllCategories
    BY <2>1, <1>two DEF Sources, FindOneSlug
  <2>4. Sources(CategoryWithProducts(c)) = {Category(c)} \cup (AllCategories \cup AllProducts)
    BY <2>2, <1>two DEF Sources, FindByIdWithDescendants
  <2> QED BY <2>3, <2>4
<1>6. Sources(CategoryTree) = AllCategories /\ Sources(CategoryTreePage) = AllCategories
  <2>1. ReadPlan(CategoryTree) = FindAllTreeForSite
    BY DEF ReadPlan
  <2>2. ReadPlan(CategoryTreePage) = FindAllTree
    BY DEF ReadPlan
  <2> QED BY <2>1, <2>2, <1>one DEF Sources, FindAllTreeForSite, FindAllTree
<1>7. ASSUME NEW u \in Users PROVE Sources(UserOrderList(u)) = OrdersOf(u)
  <2>1. ReadPlan(UserOrderList(u)) = FindAllByUser(u)
    BY DEF ReadPlan, UserOrderList
  <2> QED BY <2>1, <1>one DEF Sources, FindAllByUser
<1>8. ASSUME NEW o \in Orders PROVE Sources(OrderDetail(o)) = {Order(o)}
  <2>1. ReadPlan(OrderDetail(o)) = FindOneById(o)
    BY DEF ReadPlan, OrderDetail
  <2> QED BY <2>1, <1>one DEF Sources, FindOneById
<1>9. Sources(AdminOrderList) = { Order(o) : o \in Orders }
  <2>1. ReadPlan(AdminOrderList) = GetAllOrders
    BY DEF ReadPlan
  <2> QED BY <2>1, <1>one DEF Sources, GetAllOrders
<1> QED BY <1>1, <1>2, <1>3, <1>4, <1>5, <1>6, <1>7, <1>8, <1>9

\* No two kinds of rows are the same row.
LEMMA RowsApart ==
  /\ \A p, q \in Products : /\ Product(p) = Product(q) => p = q
                            /\ Reviews(p) = Reviews(q) => p = q
                            /\ Product(p) # Reviews(q)
  /\ \A p \in Products : /\ Product(p) \notin AllCategories \cup {Attributes, Brands}
                         /\ Reviews(p) \notin AllProducts \cup AllCategories \cup {Attributes, Brands}
  /\ {Attributes, Brands} \cap (AllProducts \cup AllCategories) = {} /\ Attributes # Brands
  /\ \A c \in Categories : Category(c) \notin AllProducts
  /\ \A p \in Products, c \in Categories : Category(c) \notin {Product(p), Reviews(p)}
  /\ \A o, x \in Orders : Order(o) = Order(x) => o = x
  /\ \A o \in Orders : /\ Order(o) \notin AllProducts \cup AllCategories \cup {Attributes, Brands}
                       /\ \A p \in Products : Order(o) \notin {Product(p), Reviews(p)}
                       /\ \A c \in Categories : Order(o) # Category(c)
  /\ \A r \in {Attributes, Brands} \cup AllProducts \cup AllCategories \cup { Reviews(p) : p \in Products } :
       \A o \in Orders : r # Order(o)
BY DEF Product, Reviews, Category, Order, Attributes, Brands, AllProducts, AllCategories

LEMMA ShownBy ==
  ASSUME NEW k \in Keys
  PROVE  /\ \A p \in Products : Product(p) \in Sources(k) =>
              k \in ClearProductCache(p) \cup CatalogKeys \cup CategoryKeys
         /\ \A p \in Products : Reviews(p) \in Sources(k) => k = ProductById(p)
         /\ Attributes \in Sources(k) => k \in ProductKeys
         /\ Brands \in Sources(k) => k \in ProductKeys \cup CatalogKeys
         /\ \A c \in Categories : Category(c) \in Sources(k) =>
              k \in ProductKeys \cup CategoryKeys \cup CatalogKeys
         /\ \A o \in Orders : Order(o) \in Sources(k) => k \in ClearCacheAfterStatusChange(o)
<1> DEFINE Goal ==
   /\ \A p \in Products : Product(p) \in Sources(k) =>
        k \in ClearProductCache(p) \cup CatalogKeys \cup CategoryKeys
   /\ \A p \in Products : Reviews(p) \in Sources(k) => k = ProductById(p)
   /\ Attributes \in Sources(k) => k \in ProductKeys
   /\ Brands \in Sources(k) => k \in ProductKeys \cup CatalogKeys
   /\ \A c \in Categories : Category(c) \in Sources(k) =>
        k \in ProductKeys \cup CategoryKeys \cup CatalogKeys
   /\ \A o \in Orders : Order(o) \in Sources(k) => k \in ClearCacheAfterStatusChange(o)
<1>o. \A o \in Orders : Order(o) \notin Shown /\ Order(o) \notin AllProducts /\ Order(o) \notin AllCategories
  BY RowsApart DEF Shown
<1>r. \A p \in Products : Reviews(p) \notin Shown
  BY RowsApart DEF Shown
<1>1. ASSUME NEW p \in Products, k = ProductById(p) PROVE Goal
  <2>1. /\ k \in ProductKeys /\ k \in ClearProductCache(p)
    BY <1>1 DEF ProductKeys, ClearProductCache
  <2>2. Sources(k) = {Product(p), Attributes, Brands, Reviews(p)} \cup AllCategories
    BY <1>1, SourcesOfKeys
  <2>3. \A q \in Products : Product(q) \in Sources(k) \/ Reviews(q) \in Sources(k) => q = p
    BY <2>2, RowsApart
  <2>4. \A o \in Orders : Order(o) \notin Sources(k)
    BY <2>2, RowsApart
  <2> QED BY <1>1, <2>1, <2>3, <2>4
<1>2. ASSUME NEW p \in Products, k = ProductSimilar(p) PROVE Goal
  <2>1. k \in ProductKeys /\ k \in ProductLists
    BY <1>2 DEF ProductKeys, ProductLists, ProductSimilar
  <2>2. Sources(k) = {Product(p), Brands} \cup AllCategories \cup Shown
    BY <1>2, SourcesOfKeys
  <2>3. \A o \in Orders : Order(o) \notin Sources(k)
    BY <2>2, <1>o, RowsApart
  <2>4. \A q \in Products : Reviews(q) \notin Sources(k)
    BY <2>2, <1>r, RowsApart
  <2> QED BY <2>1, <2>3, <2>4 DEF ClearProductCache
<1>3. ASSUME k = ProductList PROVE Goal
  <2>1. k \in ProductKeys /\ k \in ProductLists
    BY <1>3 DEF ProductKeys, ProductLists, ProductList
  <2>2. Sources(k) = Shown
    BY <1>3, SourcesOfKeys
  <2> QED BY <2>1, <2>2, <1>o, <1>r DEF ClearProductCache
<1>4. ASSUME k \in CatalogKeys PROVE Goal
  <2>1. Sources(k) \subseteq AllProducts \cup {Brands} \cup AllCategories
    BY <1>4, SourcesOfKeys DEF CatalogKeys
  <2>2. \A o \in Orders : Order(o) \notin Sources(k)
    BY <2>1, RowsApart
  <2>3. \A q \in Products : Reviews(q) \notin Sources(k)
    BY <2>1, RowsApart
  <2>4. Attributes \notin Sources(k)
    BY <2>1, RowsApart
  <2> QED BY <1>4, <2>2, <2>3, <2>4
<1>5. ASSUME k \in CategoryKeys PROVE Goal
  <2>1. Sources(k) \subseteq AllProducts \cup AllCategories
    BY <1>5, SourcesOfKeys DEF CategoryKeys, AllCategories
  <2>2. \A o \in Orders : Order(o) \notin Sources(k)
    BY <2>1, RowsApart
  <2>3. \A q \in Products : Reviews(q) \notin Sources(k)
    BY <2>1, RowsApart
  <2>4. Attributes \notin Sources(k) /\ Brands \notin Sources(k)
    BY <2>1, RowsApart
  <2> QED BY <1>5, <2>2, <2>3, <2>4
<1>6. ASSUME k \in OrderKeys PROVE Goal
  <2>1. Sources(k) \subseteq { Order(o) : o \in Orders }
    BY <1>6, SourcesOfKeys DEF OrderKeys, OrdersOf
  <2>2. /\ Attributes \notin Sources(k) /\ Brands \notin Sources(k)
        /\ \A p \in Products : Product(p) \notin Sources(k) /\ Reviews(p) \notin Sources(k)
        /\ \A c \in Categories : Category(c) \notin Sources(k)
    BY <2>1, RowsApart
  <2>3. ASSUME NEW o \in Orders, Order(o) \in Sources(k)
        PROVE  k \in ClearCacheAfterStatusChange(o)
    <3>1. CASE k = AdminOrderList
      BY <3>1 DEF ClearCacheAfterStatusChange, ClearAdminListCache
    <3>2. ASSUME NEW u \in Users, k = UserOrderList(u) PROVE k \in ClearCacheAfterStatusChange(o)
      <4>1. Order(o) \in OrdersOf(u)
        BY <2>3, <3>2, SourcesOfKeys
      <4>2. OrderUser[o] = u
        BY <4>1, RowsApart DEF OrdersOf
      <4> QED BY <3>2, <4>2 DEF ClearCacheAfterStatusChange, ClearUserOrderCache
    <3>3. ASSUME NEW x \in Orders, k = OrderDetail(x) PROVE k \in ClearCacheAfterStatusChange(o)
      <4>1. o = x
        BY <2>3, <3>3, SourcesOfKeys, RowsApart
      <4> QED BY <3>3, <4>1 DEF ClearCacheAfterStatusChange
    <3> QED BY <1>6, <3>1, <3>2, <3>3 DEF OrderKeys
  <2> QED BY <2>2, <2>3
<1> QED BY <1>1, <1>2, <1>3, <1>4, <1>5, <1>6 DEF Keys, ProductKeys

-----------------------------------------------------------------------------
\* A writer clears, leaves alone or finds empty each key that shows what it
\* will commit.

Covers(steps, misses) ==
  \A k \in Keys : Sources(k) \cap Writes(steps) # {} =>
    k \in misses \cup Removes(steps) \/ entry[k] = NoEntry

CommitsOf(a) == IF a.do = "clear" THEN {} ELSE a.on
ClearsOf(a) == IF a.do = "clear" THEN a.on ELSE {}

LEMMA EffectsOfList ==
  ASSUME NEW s
  PROVE  /\ \A r : r \in Writes(s) <=> \E i \in DOMAIN s : r \in CommitsOf(s[i])
         /\ \A r : r \in Removes(s) <=> \E i \in DOMAIN s : r \in ClearsOf(s[i])
BY DEF Writes, Removes, CommitsOf, ClearsOf

LEMMA ListOfOne ==
  ASSUME NEW a
  PROVE  Writes(<< a >>) = CommitsOf(a) /\ Removes(<< a >>) = ClearsOf(a)
<1>1. DOMAIN << a >> = {1} /\ << a >>[1] = a
  OBVIOUS
<1> DEFINE s == << a >>
<1> HIDE DEF s
<1>2. DOMAIN s = {1} /\ s[1] = a
  BY <1>1 DEF s
<1>3. Writes(s) = CommitsOf(a)
  BY <1>2, EffectsOfList
<1>4. Removes(s) = ClearsOf(a)
  <2>1. \A r : r \in Removes(s) <=> r \in ClearsOf(a)
    BY <1>2, EffectsOfList
  <2> QED BY <2>1
<1> QED BY <1>3, <1>4 DEF s

LEMMA ListOfTwo ==
  ASSUME NEW a, NEW b
  PROVE  /\ Writes(<< a, b >>) = CommitsOf(a) \cup CommitsOf(b)
         /\ Removes(<< a, b >>) = ClearsOf(a) \cup ClearsOf(b)
<1> DEFINE s == << a, b >>
<1>1. DOMAIN s = {1, 2} /\ s[1] = a /\ s[2] = b
  OBVIOUS
<1> HIDE DEF s
<1>3. Writes(s) = CommitsOf(a) \cup CommitsOf(b)
  BY <1>1, EffectsOfList
<1>4. Removes(s) = ClearsOf(a) \cup ClearsOf(b)
  BY <1>1, EffectsOfList
<1> QED BY <1>3, <1>4 DEF s

LEMMA ListOfThree ==
  ASSUME NEW a, NEW b, NEW d
  PROVE  /\ Writes(<< a, b, d >>) = CommitsOf(a) \cup CommitsOf(b) \cup CommitsOf(d)
         /\ Removes(<< a, b, d >>) = ClearsOf(a) \cup ClearsOf(b) \cup ClearsOf(d)
<1> DEFINE s == << a, b, d >>
<1>1. DOMAIN s = {1, 2, 3} /\ s[1] = a /\ s[2] = b /\ s[3] = d
  OBVIOUS
<1> HIDE DEF s
<1>3. Writes(s) = CommitsOf(a) \cup CommitsOf(b) \cup CommitsOf(d)
  BY <1>1, EffectsOfList
<1>4. Removes(s) = ClearsOf(a) \cup ClearsOf(b) \cup ClearsOf(d)
  BY <1>1, EffectsOfList
<1> QED BY <1>3, <1>4 DEF s

LEMMA ListOfFour ==
  ASSUME NEW a, NEW b, NEW d, NEW e
  PROVE  /\ Writes(<< a, b, d, e >>) = CommitsOf(a) \cup CommitsOf(b) \cup CommitsOf(d) \cup CommitsOf(e)
         /\ Removes(<< a, b, d, e >>) = ClearsOf(a) \cup ClearsOf(b) \cup ClearsOf(d) \cup ClearsOf(e)
<1> DEFINE s == << a, b, d, e >>
<1>1. DOMAIN s = {1, 2, 3, 4} /\ s[1] = a /\ s[2] = b /\ s[3] = d /\ s[4] = e
  OBVIOUS
<1> HIDE DEF s
<1>3. Writes(s) = CommitsOf(a) \cup CommitsOf(b) \cup CommitsOf(d) \cup CommitsOf(e)
  BY <1>1, EffectsOfList
<1>4. Removes(s) = ClearsOf(a) \cup ClearsOf(b) \cup ClearsOf(d) \cup ClearsOf(e)
  BY <1>1, EffectsOfList
<1> QED BY <1>3, <1>4 DEF s

LEMMA StepEffects ==
  /\ \A rows : /\ CommitsOf(Insert(rows)) = rows /\ ClearsOf(Insert(rows)) = {}
               /\ CommitsOf(Update(rows)) = rows /\ ClearsOf(Update(rows)) = {}
               /\ CommitsOf(Delete(rows)) = rows /\ ClearsOf(Delete(rows)) = {}
  /\ \A keys : CommitsOf(Clear(keys)) = {} /\ ClearsOf(Clear(keys)) = keys
BY DEF CommitsOf, ClearsOf, Insert, Update, Delete, Clear

\* A key of a row that was never there is empty.
LEMMA UnbornIsEmpty ==
  ASSUME SubjectsBorn, NEW k \in Keys, NEW r \in Subject(k), Unborn(r)
  PROVE  entry[k] = NoEntry
BY DEF SubjectsBorn, Born, Unborn

Covered(c) == \E steps, misses : Starts(c, steps, misses) /\ Covers(steps, misses)

\* What a writer has to clear or leave alone, by the rows it commits.
Spared(k, steps, misses) == k \in misses \cup Removes(steps) \/ entry[k] = NoEntry

LEMMA CoversProducts ==
  ASSUME NEW steps, NEW misses, NEW ps \in SUBSET Products, Writes(steps) = { Product(p) : p \in ps },
         \A p \in ps : \A k \in ClearProductCache(p) \cup CatalogKeys \cup CategoryKeys :
           Spared(k, steps, misses)
  PROVE  Covers(steps, misses)
<1> SUFFICES ASSUME NEW k \in Keys, NEW p \in ps, Product(p) \in Sources(k)
             PROVE  Spared(k, steps, misses)
  BY DEF Covers, Spared
<1>1. k \in ClearProductCache(p) \cup CatalogKeys \cup CategoryKeys
  BY ShownBy
<1> QED BY <1>1

LEMMA CoversProduct ==
  ASSUME NEW steps, NEW misses, NEW p \in Products, Writes(steps) = {Product(p)},
         \A k \in {ProductById(p)} \cup ProductLists \cup CatalogKeys \cup CategoryKeys :
           Spared(k, steps, misses)
  PROVE  Covers(steps, misses)
<1> SUFFICES ASSUME NEW k \in Keys, Product(p) \in Sources(k) PROVE Spared(k, steps, misses)
  BY DEF Covers, Spared
<1>1. k \in ClearProductCache(p) \cup CatalogKeys \cup CategoryKeys
  BY ShownBy
<1> QED BY <1>1 DEF ClearProductCache

LEMMA CoversCategories ==
  ASSUME NEW steps, NEW misses, NEW gs \in SUBSET Categories, Writes(steps) = { Category(g) : g \in gs },
         \A k \in ProductKeys \cup CatalogKeys \cup CategoryKeys : Spared(k, steps, misses)
  PROVE  Covers(steps, misses)
<1> SUFFICES ASSUME NEW k \in Keys, NEW g \in gs, Category(g) \in Sources(k)
             PROVE  Spared(k, steps, misses)
  BY DEF Covers, Spared
<1>1. k \in ProductKeys \cup CatalogKeys \cup CategoryKeys
  BY ShownBy
<1> QED BY <1>1

LEMMA CoversOrder ==
  ASSUME NEW steps, NEW misses, NEW o \in Orders, Writes(steps) = {Order(o)},
         \A k \in ClearCacheAfterStatusChange(o) : Spared(k, steps, misses)
  PROVE  Covers(steps, misses)
<1> SUFFICES ASSUME NEW k \in Keys, Order(o) \in Sources(k) PROVE Spared(k, steps, misses)
  BY DEF Covers, Spared
<1>1. k \in ClearCacheAfterStatusChange(o)
  BY ShownBy
<1> QED BY <1>1

LEMMA ProductsCovered ==
  ASSUME SubjectsBorn, NEW c \in Callers, ProductRequests(c)
  PROVE  Covered(c)
<1> DEFINE Own(ps) == { Product(p) : p \in ps }
<1>s. \A p \in Products : ClearProductCache(p) = {ProductById(p)} \cup ProductLists
  BY DEF ClearProductCache
<1>1. ASSUME NEW p \in Products, CreateProduct(c, p) PROVE Covered(c)
  <2> DEFINE steps == << Insert({Product(p)}), Clear(ProductLists), Clear(ClearAllCatalogCache) >>
  <2>1. /\ Writes(steps) = {Product(p)}
        /\ Removes(steps) = ProductLists \cup CatalogKeys
    BY ListOfThree, StepEffects DEF ClearAllCatalogCache
  <2>2. Unborn(Product(p)) /\ Starts(c, steps, CategoryKeys)
    BY <1>1 DEF CreateProduct
  <2>3. ProductById(p) \in Keys /\ Product(p) \in Subject(ProductById(p))
    BY DEF Keys, ProductKeys, ProductById, Subject
  <2>4. entry[ProductById(p)] = NoEntry
    BY <2>2, <2>3, UnbornIsEmpty
  <2> HIDE DEF steps
  <2>5. Covers(steps, CategoryKeys)
    BY <1>s, <2>1, <2>4, CoversProduct DEF Spared
  <2> QED BY <2>2, <2>5 DEF Covered
<1>2. ASSUME NEW p \in Products, NEW steps, Starts(c, steps, CategoryKeys),
             Writes(steps) = {Product(p)}, Removes(steps) = ClearProductCache(p) \cup CatalogKeys
      PROVE  Covered(c)
  <2>1. Covers(steps, CategoryKeys)
    BY <1>s, <1>2, CoversProduct DEF Spared
  <2> QED BY <1>2, <2>1 DEF Covered
<1>3. ASSUME NEW p \in Products,
             \/ UpdateProduct(c, p) \/ RemoveProduct(c, p) \/ AddedImportant(c, p)
             \/ ClearsInside(c, p)
      PROVE  Covered(c)
  <2> DEFINE after(write) ==
               << write, Clear(ClearProductCache(p)), Clear(ClearAllCatalogCache) >>
             inside == << Clear(ClearProductCache(p)), Clear(ClearAllCatalogCache), Update({Product(p)}) >>
  <2>1. \A write \in {Update({Product(p)}), Delete({Product(p)})} :
          /\ Writes(after(write)) = {Product(p)}
          /\ Removes(after(write)) = ClearProductCache(p) \cup CatalogKeys
    BY ListOfThree, StepEffects DEF ClearAllCatalogCache
  <2>2. /\ Writes(inside) = {Product(p)}
        /\ Removes(inside) = ClearProductCache(p) \cup CatalogKeys
    BY ListOfThree, StepEffects DEF ClearAllCatalogCache
  <2>3. \/ \E write \in {Update({Product(p)}), Delete({Product(p)})} : Starts(c, after(write), CategoryKeys)
        \/ Starts(c, inside, CategoryKeys)
    BY <1>3 DEF UpdateProduct, RemoveProduct, AddedImportant, ClearsInside
  <2> HIDE DEF after, inside
  <2> QED BY <2>1, <2>2, <2>3, <1>2
<1>4. ASSUME NEW p \in Products, NEW id \in Products,
             RemoveAttributeValue(c, p, id) \/ OrderAttributeValue(c, p, id)
      PROVE  Covered(c)
  <2> DEFINE inside == << Clear(ClearProductCache(id)), Clear(ClearAllCatalogCache), Update({Product(p)}) >>
             after == << Update({Product(p)}), Clear(ClearProductCache(id)), Clear(ClearAllCatalogCache) >>
             misses == CategoryKeys \cup {ProductById(p)}
  <2>1. \A steps \in {inside, after} :
          /\ Writes(steps) = {Product(p)}
          /\ Removes(steps) = ClearProductCache(id) \cup CatalogKeys
    BY ListOfThree, StepEffects DEF ClearAllCatalogCache
  <2>2. \E steps \in {inside, after} : Starts(c, steps, misses)
    BY <1>4 DEF RemoveAttributeValue, OrderAttributeValue
  <2> HIDE DEF inside, after
  <2>3. \A steps \in {inside, after} : Covers(steps, misses)
    BY <1>s, <2>1, CoversProduct DEF Spared
  <2> QED BY <2>2, <2>3 DEF Covered
<1>5. ASSUME NEW p \in Products, OrderAttributes(c, p) PROVE Covered(c)
  <2> DEFINE steps == << Update({Attributes}), Clear(ClearProductCache(p)), Clear(ClearAllCatalogCache) >>
             misses == { ProductById(q) : q \in Products }
  <2>1. Writes(steps) = {Attributes} /\ Removes(steps) = ClearProductCache(p) \cup CatalogKeys
    BY ListOfThree, StepEffects DEF ClearAllCatalogCache
  <2>2. Starts(c, steps, misses)
    BY <1>5 DEF OrderAttributes
  <2>3. \A k \in ProductKeys : k \in misses \cup ProductLists
    BY DEF ProductLists, ProductKeys, ProductSimilar, ProductList
  <2> HIDE DEF steps, misses
  <2>4. \A k \in Keys : Attributes \in Sources(k) => k \in misses \cup Removes(steps)
    BY <1>s, <2>1, <2>3, ShownBy
  <2> QED BY <2>1, <2>2, <2>4 DEF Covered, Covers
<1>6. ASSUME NEW p \in Products, ChangeReview(c, p) PROVE Covered(c)
  <2> DEFINE steps == << Update({Reviews(p)}) >>
  <2>1. Writes(steps) = {Reviews(p)} /\ Starts(c, steps, {ProductById(p)})
    BY <1>6, ListOfOne, StepEffects DEF ChangeReview
  <2>2. \A k \in Keys : Reviews(p) \in Sources(k) => k = ProductById(p)
    BY ShownBy
  <2> HIDE DEF steps
  <2> QED BY <2>1, <2>2 DEF Covered, Covers
<1>7. ASSUME NEW p \in Products, ChangeStock(c, p) PROVE Covered(c)
  <2> DEFINE steps == << Clear(ClearProductCache(p)), Update({Product(p)}) >>
             misses == CategoryKeys \cup CatalogKeys
  <2>1. Writes(steps) = {Product(p)} /\ Removes(steps) = ClearProductCache(p)
    BY ListOfTwo, StepEffects
  <2>2. Starts(c, steps, misses)
    BY <1>7 DEF ChangeStock
  <2> HIDE DEF steps
  <2>3. Covers(steps, misses)
    BY <1>s, <2>1, CoversProduct DEF Spared
  <2> QED BY <2>2, <2>3 DEF Covered
<1>8. ASSUME NEW ps \in SUBSET Products, UpdateBulk(c, ps) PROVE Covered(c)
  <2> DEFINE steps == << Update(Own(ps)), Clear(ProductLists), Clear(ClearAllCatalogCache) >>
             misses == { ProductById(p) : p \in ps } \cup CategoryKeys
  <2>1. Writes(steps) = Own(ps) /\ Removes(steps) = ProductLists \cup CatalogKeys
    BY ListOfThree, StepEffects DEF ClearAllCatalogCache
  <2>2. Starts(c, steps, misses)
    BY <1>8 DEF UpdateBulk
  <2> HIDE DEF steps
  <2>3. Covers(steps, misses)
    BY <1>s, <2>1, CoversProducts DEF Spared
  <2> QED BY <2>2, <2>3 DEF Covered
<1>9. ASSUME NEW ps \in SUBSET Products, RemoveBulk(c, ps) PROVE Covered(c)
  <2> DEFINE own == UNION { ClearProductCache(p) : p \in ps }
             one == << Delete(Own(ps)), Clear(own), Clear(ClearAllCatalogCache) >>
             two == << Delete(Own(ps)), Clear(ClearAllCatalogCache), Clear(own) >>
  <2>1. \A steps \in {one, two} : Writes(steps) = Own(ps) /\ Removes(steps) = own \cup CatalogKeys
    BY ListOfThree, StepEffects DEF ClearAllCatalogCache
  <2>2. \E steps \in {one, two} : Starts(c, steps, CategoryKeys)
    BY <1>9 DEF RemoveBulk
  <2> HIDE DEF one, two
  <2>3. \A steps \in {one, two} : Covers(steps, CategoryKeys)
    BY <2>1, CoversProducts DEF Spared
  <2> QED BY <2>2, <2>3 DEF Covered
<1>10. ASSUME ChangeAttributes(c) PROVE Covered(c)
  <2> DEFINE steps == << Update({Attributes}) >>
  <2>1. Writes(steps) = {Attributes} /\ Starts(c, steps, ProductKeys)
    BY <1>10, ListOfOne, StepEffects DEF ChangeAttributes
  <2> HIDE DEF steps
  <2>2. \A k \in Keys : Attributes \in Sources(k) => k \in ProductKeys
    BY ShownBy
  <2> QED BY <2>1, <2>2 DEF Covered, Covers
<1>11. ASSUME ChangeBrand(c) PROVE Covered(c)
  <2> DEFINE steps == << Update({Brands}), Clear(ClearAllCatalogCache) >>
  <2>1. /\ Writes(steps) = {Brands} /\ Removes(steps) = CatalogKeys
        /\ Starts(c, steps, ProductKeys)
    BY <1>11, ListOfTwo, StepEffects DEF ChangeBrand, ClearAllCatalogCache
  <2> HIDE DEF steps
  <2>2. \A k \in Keys : Brands \in Sources(k) => k \in ProductKeys \cup CatalogKeys
    BY ShownBy
  <2> QED BY <2>1, <2>2 DEF Covered, Covers
<1> QED BY <1>1, <1>3, <1>4, <1>5, <1>6, <1>7, <1>8, <1>9, <1>10, <1>11 DEF ProductRequests,
       CreateVariants, UpdateVariant, RemoveVariant, RemoveByVariant, CreateAttributeValues,
       UpdateAttributeValues, RemoveByProductAttribute

LEMMA OthersCovered ==
  ASSUME SubjectsBorn, NEW c \in Callers, CategoryRequests(c) \/ OrderRequests(c) \/ ClearsAll(c)
  PROVE  Covered(c)
<1>1. ASSUME NEW g \in Categories, NEW moved \in SUBSET Categories, UpdateCategory(c, g, moved)
      PROVE  Covered(c)
  <2> DEFINE steps == << Update({ Category(d) : d \in moved }), Clear(ClearCategoryCache(g)) >>
             misses == ProductKeys \cup CatalogKeys
  <2>1. /\ Writes(steps) = { Category(d) : d \in moved } /\ Removes(steps) = ClearCategoryCache(g)
        /\ Starts(c, steps, misses)
    BY <1>1, ListOfTwo, StepEffects DEF UpdateCategory
  <2> HIDE DEF steps
  <2>2. Covers(steps, misses)
    BY <2>1, CoversCategories DEF Spared, ClearCategoryCache, ClearAllCategoryCache
  <2> QED BY <2>1, <2>2 DEF Covered
<1>2. ASSUME NEW g \in Categories, CreateCategory(c, g) \/ RemoveCategory(c, g) PROVE Covered(c)
  <2> DEFINE one == << Insert({Category(g)}), Clear(ClearAllCategoryCache), Clear(ClearAllCatalogCache) >>
             two == << Clear(ClearAllCatalogCache), Delete({Category(g)}),
                       Clear(ClearCategoryCache(g)), Clear(ClearAllCatalogCache) >>
  <2>1. \A steps \in {one, two} : /\ Writes(steps) = {Category(g)}
                                  /\ CategoryKeys \cup CatalogKeys \subseteq Removes(steps)
    BY ListOfThree, ListOfFour, StepEffects DEF ClearAllCatalogCache, ClearAllCategoryCache, ClearCategoryCache
  <2>2. \E steps \in {one, two} : Starts(c, steps, ProductKeys)
    BY <1>2 DEF CreateCategory, RemoveCategory
  <2> HIDE DEF one, two
  <2>3. {Category(g)} = { Category(d) : d \in {g} } /\ {g} \in SUBSET Categories
    OBVIOUS
  <2>4. \A steps \in {one, two} : Covers(steps, ProductKeys)
    BY <2>1, <2>3, CoversCategories DEF Spared
  <2> QED BY <2>2, <2>4 DEF Covered
<1>3. ASSUME NEW o \in Orders, CreateOrder(c, o) PROVE Covered(c)
  <2> DEFINE steps == << Clear(ClearCacheAfterCreate(OrderUser[o])), Insert({Order(o)}) >>
  <2>1. /\ Writes(steps) = {Order(o)} /\ Removes(steps) = ClearCacheAfterCreate(OrderUser[o])
        /\ Starts(c, steps, {}) /\ Unborn(Order(o))
    BY <1>3, ListOfTwo, StepEffects DEF CreateOrder
  <2>2. OrderDetail(o) \in Keys /\ Order(o) \in Subject(OrderDetail(o))
    BY DEF Keys, OrderKeys, OrderDetail, Subject
  <2>3. entry[OrderDetail(o)] = NoEntry
    BY <2>1, <2>2, UnbornIsEmpty
  <2> HIDE DEF steps
  <2>4. Covers(steps, {})
    BY <2>1, <2>3, CoversOrder DEF Spared, ClearCacheAfterCreate, ClearCacheAfterStatusChange
  <2> QED BY <2>1, <2>4 DEF Covered
<1>4. ASSUME NEW o \in Orders, ChangeOrder(c, o) \/ RemoveOrder(c, o) PROVE Covered(c)
  <2> DEFINE steps(write) == << Clear(ClearCacheAfterStatusChange(o)), write >>
  <2>1. \A write \in {Update({Order(o)}), Delete({Order(o)})} :
          /\ Writes(steps(write)) = {Order(o)}
          /\ Removes(steps(write)) = ClearCacheAfterStatusChange(o)
    BY ListOfTwo, StepEffects
  <2>2. \E write \in {Update({Order(o)}), Delete({Order(o)})} : Starts(c, steps(write), {})
    BY <1>4 DEF ChangeOrder, RemoveOrder
  <2> HIDE DEF steps
  <2>3. \A write \in {Update({Order(o)}), Delete({Order(o)})} : Covers(steps(write), {})
    BY <2>1, CoversOrder DEF Spared
  <2> QED BY <2>2, <2>3 DEF Covered
<1>5. ASSUME NEW o \in Orders, UpdateOrderStatus(c, o) PROVE Covered(c)
  <2> DEFINE steps == << Clear(ClearUserOrderCache(OrderUser[o])), Update({Order(o)}) >>
             misses == {OrderDetail(o), AdminOrderList}
  <2>1. /\ Writes(steps) = {Order(o)} /\ Removes(steps) = ClearUserOrderCache(OrderUser[o])
        /\ Starts(c, steps, misses)
    BY <1>5, ListOfTwo, StepEffects DEF UpdateOrderStatus
  <2> HIDE DEF steps
  <2>2. Covers(steps, misses)
    BY <2>1, CoversOrder DEF Spared, ClearCacheAfterStatusChange, ClearAdminListCache
  <2> QED BY <2>1, <2>2 DEF Covered
<1>6. ASSUME NEW o \in Orders, AwaitsPayment(c, o) PROVE Covered(c)
  <2> DEFINE steps == << Update({Order(o)}) >>
  <2>1. Writes(steps) = {Order(o)} /\ Starts(c, steps, OrderKeys)
    BY <1>6, ListOfOne, StepEffects DEF AwaitsPayment
  <2>2. ClearCacheAfterStatusChange(o) \subseteq OrderKeys
    BY CachesAssumption DEF ClearCacheAfterStatusChange, ClearUserOrderCache, ClearAdminListCache,
       OrderKeys
  <2> HIDE DEF steps
  <2>3. Covers(steps, OrderKeys)
    BY <2>1, <2>2, CoversOrder DEF Spared
  <2> QED BY <2>1, <2>3 DEF Covered
<1>7. ASSUME ClearsAll(c) PROVE Covered(c)
  <2>1. PICK keys : Starts(c, << Clear(keys) >>, {})
    BY <1>7 DEF ClearsAll
  <2>2. Writes(<< Clear(keys) >>) = {}
    BY ListOfOne, StepEffects
  <2>3. Covers(<< Clear(keys) >>, {})
    BY <2>2 DEF Covers
  <2> QED BY <2>1, <2>3 DEF Covered
<1> QED BY <1>1, <1>2, <1>3, <1>4, <1>5, <1>6, <1>7 DEF CategoryRequests, OrderRequests

-----------------------------------------------------------------------------
\* What stays to be written and cleared as a writer goes on.
LEMMA HeadAndTail ==
  ASSUME NEW S, NEW s \in Seq(S), s # << >>
  PROVE  /\ Writes(s) = CommitsOf(Head(s)) \cup Writes(Tail(s))
         /\ Removes(s) = ClearsOf(Head(s)) \cup Removes(Tail(s))
         /\ Len(s) = 1 => Writes(Tail(s)) = {} /\ Removes(Tail(s)) = {}
<1>1. /\ Len(s) \in Nat /\ Len(s) > 0 /\ Head(s) = s[1] /\ DOMAIN s = 1 .. Len(s)
      /\ DOMAIN Tail(s) = 1 .. (Len(s) - 1)
      /\ \A i \in 1 .. (Len(s) - 1) : Tail(s)[i] = s[i + 1]
  OBVIOUS
<1> DEFINE t == Tail(s)
           h == Head(s)
<1> HIDE DEF t, h
<1>2. /\ Len(s) \in Nat /\ Len(s) > 0 /\ h = s[1] /\ DOMAIN s = 1 .. Len(s)
      /\ DOMAIN t = 1 .. (Len(s) - 1)
      /\ \A i \in 1 .. (Len(s) - 1) : t[i] = s[i + 1]
  BY <1>1 DEF t, h
<1>3. ASSUME NEW r PROVE r \in Writes(s) <=> r \in CommitsOf(h) \cup Writes(t)
  <2>1. ASSUME r \in Writes(s) PROVE r \in CommitsOf(h) \cup Writes(t)
    <3>1. PICK i \in DOMAIN s : r \in CommitsOf(s[i])
      BY <2>1, EffectsOfList
    <3>2. CASE i = 1
      BY <3>1, <3>2, <1>2
    <3>3. CASE i # 1
      <4>1. i - 1 \in DOMAIN t /\ t[i - 1] = s[i]
        BY <3>3, <1>2
      <4> QED BY <4>1, <3>1, EffectsOfList
    <3> QED BY <3>2, <3>3
  <2>2. ASSUME r \in CommitsOf(h) PROVE r \in Writes(s)
    <3>1. 1 \in DOMAIN s /\ r \in CommitsOf(s[1])
      BY <2>2, <1>2
    <3> QED BY <3>1, EffectsOfList
  <2>3. ASSUME r \in Writes(t) PROVE r \in Writes(s)
    <3>1. PICK i \in DOMAIN t : r \in CommitsOf(t[i])
      BY <2>3, EffectsOfList
    <3>2. i + 1 \in DOMAIN s /\ r \in CommitsOf(s[i + 1])
      BY <3>1, <1>2
    <3> QED BY <3>2, EffectsOfList
  <2> QED BY <2>1, <2>2, <2>3
<1>4. ASSUME NEW r PROVE r \in Removes(s) <=> r \in ClearsOf(h) \cup Removes(t)
  <2>1. ASSUME r \in Removes(s) PROVE r \in ClearsOf(h) \cup Removes(t)
    <3>1. PICK i \in DOMAIN s : r \in ClearsOf(s[i])
      BY <2>1, EffectsOfList
    <3>2. CASE i = 1
      BY <3>1, <3>2, <1>2
    <3>3. CASE i # 1
      <4>1. i - 1 \in DOMAIN t /\ t[i - 1] = s[i]
        BY <3>3, <1>2
      <4> QED BY <4>1, <3>1, EffectsOfList
    <3> QED BY <3>2, <3>3
  <2>2. ASSUME r \in ClearsOf(h) PROVE r \in Removes(s)
    <3>1. 1 \in DOMAIN s /\ r \in ClearsOf(s[1])
      BY <2>2, <1>2
    <3> QED BY <3>1, EffectsOfList
  <2>3. ASSUME r \in Removes(t) PROVE r \in Removes(s)
    <3>1. PICK i \in DOMAIN t : r \in ClearsOf(t[i])
      BY <2>3, EffectsOfList
    <3>2. i + 1 \in DOMAIN s /\ r \in ClearsOf(s[i + 1])
      BY <3>1, <1>2
    <3> QED BY <3>2, EffectsOfList
  <2> QED BY <2>1, <2>2, <2>3
<1>5. Len(s) = 1 => Writes(t) = {} /\ Removes(t) = {}
  <2> SUFFICES ASSUME Len(s) = 1 PROVE Writes(t) = {} /\ Removes(t) = {}
    OBVIOUS
  <2>1. DOMAIN t = {}
    BY <1>2
  <2> QED BY <2>1, EffectsOfList
<1> QED BY <1>3, <1>4, <1>5 DEF t, h

LEMMA WritersProceed ==
  ASSUME IInv, NEW c \in Callers, request[c].op = "write", Proceeds(c)
  PROVE  /\ Writing(c) = CommitsOf(Step(c)) \cup Writing(c)'
         /\ Clearing(c) = ClearsOf(Step(c)) \cup Clearing(c)'
         /\ request'[c].op = "write" => request'[c].misses = request[c].misses
         /\ request'[c].op # "read"
         /\ \A d \in Callers : d # c => request'[d] = request[d]
<1> DEFINE todo == request[c].todo
           rest == IF Len(todo) = 1 THEN Idle ELSE [request[c] EXCEPT !.todo = Tail(todo)]
<1>1. request[c] \in Writers /\ todo \in Seq(Steps) /\ todo # << >>
  BY DEF IInv, Requests, Idle, Readers, Writers
<1>2. Writing(c) = Writes(todo) /\ Clearing(c) = Removes(todo)
  BY DEF Writing, Clearing, Writes, Removes
<1>3. request' = [request EXCEPT ![c] = rest]
  BY DEF Proceeds
<1>4. request'[c] = rest /\ \A d \in Callers : d # c => request'[d] = request[d]
  BY <1>3 DEF IInv, Requests
<1>5. CASE Len(todo) = 1
  <2>1. request'[c] = Idle /\ Idle.op = "idle"
    BY <1>4, <1>5 DEF Idle
  <2>2. Writing(c)' = {} /\ Clearing(c)' = {}
    BY <2>1 DEF Writing, Clearing
  <2>3. Writes(todo) = CommitsOf(Step(c)) /\ Removes(todo) = ClearsOf(Step(c))
    <3> HIDE DEF todo
    <3>1. /\ Writes(todo) = CommitsOf(Head(todo)) \cup Writes(Tail(todo))
          /\ Removes(todo) = ClearsOf(Head(todo)) \cup Removes(Tail(todo))
          /\ Len(todo) = 1 => Writes(Tail(todo)) = {} /\ Removes(Tail(todo)) = {}
      BY <1>1, HeadAndTail, Zenon
    <3>2. Step(c) = Head(todo)
      BY DEF Step, todo
    <3> QED BY <3>1, <3>2, <1>5
  <2> QED BY <1>2, <1>4, <2>1, <2>2, <2>3
<1>6. CASE Len(todo) # 1
  <2>1. /\ request'[c] = [request[c] EXCEPT !.todo = Tail(todo)]
    BY <1>4, <1>6
  <2>2. /\ request'[c].op = "write" /\ request'[c].todo = Tail(todo)
        /\ request'[c].misses = request[c].misses
    BY <2>1, <1>1 DEF Writers
  <2>3. Writing(c)' = Writes(Tail(todo)) /\ Clearing(c)' = Removes(Tail(todo))
    BY <2>2 DEF Writing, Clearing, Writes, Removes
  <2>4. /\ Writes(todo) = CommitsOf(Step(c)) \cup Writes(Tail(todo))
        /\ Removes(todo) = ClearsOf(Step(c)) \cup Removes(Tail(todo))
    BY <1>1, HeadAndTail DEF Step
  <2> QED BY <1>2, <1>4, <2>2, <2>3, <2>4
<1> QED BY <1>5, <1>6

-----------------------------------------------------------------------------
\* The invariant is kept.

\* An excused key that is set, or about to be, stays excused.
LEMMA StaysExcused ==
  ASSUME Excuses, NEW k \in Keys, entry'[k] # NoEntry \/ Reading(k)',
         k \in excused \/ Missed(k) \/ Overlapped(k)' \/ LosesClear(k)
  PROVE  k \in excused'
BY DEF Excuses

LEMMA OverlapsAreExcused ==
  ASSUME Excuses
  PROVE  OverlapExcused' /\ excused' \subseteq Keys
<1>1. ASSUME NEW k \in Keys, Overlapped(k)' PROVE k \in excused'
  <2>1. Reading(k)'
    BY <1>1 DEF Overlapped, Reading
  <2> QED BY <1>1, <2>1, StaysExcused
<1> QED BY <1>1 DEF OverlapExcused, Excuses

\* Rows once born stay born, while versions only grow and what goes is deleted.
LEMMA BornStays ==
  ASSUME IInv, SubjectsBorn, IInv',
         \A r \in Rows : Born(r) => Born(r)',
         \A k \in Keys : entry'[k] # NoEntry => entry[k] # NoEntry \/ \A r \in Subject(k) : Born(r),
         \A c \in Callers : request'[c].op = "read" /\ request'[c].at > 1 =>
           \/ request'[c] = request[c]
           \/ \A r \in Subject(request'[c].key) : Born(r)
  PROVE  SubjectsBorn'
<1>1. \A k \in Keys : Subject(k) \subseteq Rows
  <2> SUFFICES ASSUME NEW k \in Keys PROVE Subject(k) \subseteq Rows
    OBVIOUS
  <2>1. /\ \A p \in Products : Product(p) \in Rows
        /\ \A c \in Categories : Category(c) \in Rows
        /\ \A o \in Orders : Order(o) \in Rows
    BY KeysAndRows
  <2>2. ASSUME NEW p \in Products, k \in {ProductById(p), ProductSimilar(p)} PROVE k[3] = p
    BY <2>2 DEF ProductById, ProductSimilar
  <2>3. ASSUME NEW g \in Categories, k \in {CategoryBySlug(g), CategoryWithProducts(g)} PROVE k[3] = g
    BY <2>3 DEF CategoryBySlug, CategoryWithProducts
  <2>4. ASSUME NEW o \in Orders, k = OrderDetail(o) PROVE k[3] = o
    BY <2>4 DEF OrderDetail
  <2>5. /\ k[2] \in {"id", "similar"} => \E p \in Products : k \in {ProductById(p), ProductSimilar(p)}
        /\ k[2] \in {"slug", "products"} =>
             \E g \in Categories : k \in {CategoryBySlug(g), CategoryWithProducts(g)}
        /\ k[2] = "detail" => \E o \in Orders : k = OrderDetail(o)
    BY DEF Keys, ProductKeys, CatalogKeys, CategoryKeys, OrderKeys, ProductById, ProductSimilar,
       ProductList, SearchResults, SearchSuggestions, CategoryBySlug, CategoryWithProducts,
       CategoryTree, CategoryTreePage, UserOrderList, OrderDetail, AdminOrderList
  <2> QED BY <2>1, <2>2, <2>3, <2>4, <2>5 DEF Subject
<1>2. \A c \in Callers : request'[c].op = "read" => request'[c].key \in Keys
  BY DEF IInv, Requests, Readers, Writers, Idle
<1> QED BY <1>1, <1>2 DEF SubjectsBorn

\* What a key that is set, or about to be, and has no excuse has not met.
LEMMA WithoutExcuse ==
  ASSUME Excuses, NEW k \in Keys, k \notin excused', entry'[k] # NoEntry \/ Reading(k)'
  PROVE  /\ k \notin excused /\ ~ Missed(k) /\ ~ Overlapped(k)'
         /\ \A c \in Callers : k \in Clearing(c) => k \in Clearing(c)'
BY StaysExcused DEF LosesClear

\* A step of one request that commits nothing and sets nothing.
LEMMA QuietStep ==
  ASSUME RaceInv, Excuses, IInv', UNCHANGED << stored, live >>,
         \A k \in Keys : entry'[k] \in {entry[k], NoEntry},
         NEW c, \A d \in Callers : d # c => request'[d] = request[d],
         c \in Callers /\ request'[c].op = "read" =>
           /\ \A r \in DOMAIN request'[c].seen :
                \/ request'[c].seen[r] = stored[r]
                \/ /\ request[c].op = "read" /\ request[c].key = request'[c].key
                   /\ r \in DOMAIN request[c].seen /\ request'[c].seen[r] = request[c].seen[r]
           /\ request'[c].at > 1 => \A r \in Subject(request'[c].key) : Born(r),
         c \in Callers /\ request'[c].op = "write" =>
           \/ /\ request[c].op = "write" /\ request'[c].misses = request[c].misses
              /\ Writing(c)' \subseteq Writing(c)
           \/ \A k \in Keys : Sources(k) \cap Writing(c)' # {} =>
                k \in request'[c].misses \cup Clearing(c)' \/ entry[k] = NoEntry
  PROVE  RaceInv'
<1>1. SubjectsBorn'
  <2>1. \A r \in Rows : Born(r) => Born(r)'
    BY DEF Born
  <2>2. \A d \in Callers : request'[d].op = "read" /\ request'[d].at > 1 =>
          request'[d] = request[d] \/ \A r \in Subject(request'[d].key) : Born(r)
    OBVIOUS
  <2> QED BY <2>1, <2>2, BornStays DEF RaceInv
<1>2. ReadersCurrent'
  <2> SUFFICES ASSUME NEW d \in Callers, request'[d].op = "read", request'[d].key \notin excused',
                      NEW r \in DOMAIN request'[d].seen
               PROVE  request'[d].seen[r] = stored[r]
    BY DEF ReadersCurrent
  <2>1. request'[d].key \in Keys
    BY DEF IInv, Requests, Readers, Writers, Idle
  <2>2. request'[d].key \notin excused
    BY <2>1, WithoutExcuse DEF Reading
  <2>3. CASE d # c
    BY <2>2, <2>3 DEF RaceInv, ReadersCurrent
  <2>4. CASE d = c
    BY <2>2, <2>4 DEF RaceInv, ReadersCurrent
  <2> QED BY <2>3, <2>4
<1>3. StaleOnlyByRace'
  <2> SUFFICES ASSUME NEW k \in Keys, k \notin excused', \A d \in Callers : k \notin Clearing(d)',
                      NEW r \in DOMAIN entry'[k]
               PROVE  entry'[k][r] = stored[r]
    BY DEF StaleOnlyByRace, Fresh
  <2>1. entry'[k] # NoEntry
    BY DEF NoEntry
  <2>2. k \notin excused /\ \A d \in Callers : k \notin Clearing(d)
    BY <2>1, WithoutExcuse
  <2>3. entry'[k] = entry[k]
    BY <2>1
  <2> QED BY <2>2, <2>3 DEF RaceInv, StaleOnlyByRace, Fresh
<1>4. ClearedBefore'
  <2> SUFFICES ASSUME NEW d \in Callers, NEW k \in Keys, request'[d].op = "write",
                      Sources(k) \cap Writing(d)' # {},
                      k \notin request'[d].misses \cup Clearing(d)',
                      entry'[k] # NoEntry, k \notin excused'
               PROVE  FALSE
    BY DEF ClearedBefore
  <2>1. entry[k] # NoEntry /\ k \notin excused /\ k \notin Clearing(d)
    BY WithoutExcuse
  <2>2. CASE d # c
    <3>1. request'[d] = request[d]
      BY <2>2
    <3>2. Writing(d)' = Writing(d)
      BY <3>1 DEF Writing
    <3> QED BY <2>1, <3>1, <3>2 DEF RaceInv, ClearedBefore
  <2>3. CASE d = c
    BY <2>1, <2>3 DEF RaceInv, ClearedBefore
  <2> QED BY <2>2, <2>3
<1> QED BY <1>1, <1>2, <1>3, <1>4, OverlapsAreExcused DEF RaceInv

LEMMA SetsKeeps ==
  ASSUME RaceInv, Excuses, IInv', NEW c \in Callers, Sets(c)
  PROVE  RaceInv'
<1> DEFINE q == request[c]
<1>1. /\ q \in Readers /\ Reads(q) /\ q.op = "read" /\ q.key \in Keys
      /\ DOMAIN q.seen = Sources(q.key)
  BY SetsRight DEF RaceInv, Readers
<1>2. /\ UNCHANGED << stored, live >>
      /\ request'[c].op = "idle"
      /\ \A d \in Callers : d # c => request'[d] = request[d]
      /\ \A k \in Keys : entry'[k] = entry[k] \/ (k = q.key /\ entry'[k] = q.seen)
  <2>1. /\ UNCHANGED << stored, live >> /\ request' = [request EXCEPT ![c] = Idle]
        /\ entry' = entry \/ entry' = [entry EXCEPT ![q.key] = q.seen]
    BY DEF Sets
  <2>2. DOMAIN request = Callers /\ DOMAIN entry = Keys /\ Idle.op = "idle"
    BY DEF RaceInv, IInv, CacheTypeOK, Idle
  <2>3. request'[c].op = "idle" /\ \A d \in Callers : d # c => request'[d] = request[d]
    BY <2>1, <2>2
  <2> HIDE DEF q
  <2>4. ASSUME NEW k \in Keys PROVE entry'[k] = entry[k] \/ (k = q.key /\ entry'[k] = q.seen)
    BY <2>1, <2>2
  <2> QED BY <2>1, <2>3, <2>4
<1>3. \A r \in Subject(q.key) : Born(r)
  <2>1. DOMAIN ReadPlan(q.key) # {} /\ 1 \in DOMAIN ReadPlan(q.key)
    BY <1>1, PlansAreSequences
  <2>2. q.at # 1 /\ q.at \in Nat \ {0}
    BY <2>1, <1>1 DEF Sets, Readers
  <2>3. q.at > 1
    BY <2>2
  <2> QED BY <2>3, <1>1 DEF RaceInv, SubjectsBorn
<1>4. SubjectsBorn'
  <2>1. \A r \in Rows : Born(r) => Born(r)'
    BY <1>2 DEF Born
  <2>2. \A d \in Callers : request'[d].op = "read" => request'[d] = request[d]
    BY <1>2
  <2>3. \A k \in Keys : entry'[k] # NoEntry => entry[k] # NoEntry \/ \A r \in Subject(k) : Born(r)
    BY <1>2, <1>3
  <2> QED BY <2>1, <2>2, <2>3, BornStays DEF RaceInv
<1>5. ReadersCurrent'
  <2> SUFFICES ASSUME NEW d \in Callers, request'[d].op = "read", request'[d].key \notin excused',
                      NEW r \in DOMAIN request'[d].seen
               PROVE  request'[d].seen[r] = stored[r]
    BY <1>2 DEF ReadersCurrent
  <2>1. request'[d].key \in Keys
    BY DEF IInv, Requests, Readers, Writers, Idle
  <2>2. request'[d].key \notin excused /\ request'[d] = request[d]
    BY <2>1, <1>2, WithoutExcuse DEF Reading
  <2> QED BY <2>2 DEF RaceInv, ReadersCurrent
<1>6. StaleOnlyByRace'
  <2> SUFFICES ASSUME NEW k \in Keys, k \notin excused', \A d \in Callers : k \notin Clearing(d)',
                      NEW r \in DOMAIN entry'[k]
               PROVE  entry'[k][r] = stored[r]
    BY <1>2 DEF StaleOnlyByRace, Fresh
  <2>1. entry'[k] # NoEntry
    BY DEF NoEntry
  <2>2. k \notin excused /\ \A d \in Callers : k \notin Clearing(d)
    BY <2>1, WithoutExcuse
  <2>3. CASE entry'[k] = entry[k]
    BY <2>2, <2>3 DEF RaceInv, StaleOnlyByRace, Fresh
  <2>4. CASE k = q.key /\ entry'[k] = q.seen
    BY <2>2, <2>4, <1>1 DEF RaceInv, ReadersCurrent
  <2> QED BY <2>3, <2>4, <1>2
<1>7. ClearedBefore'
  <2> SUFFICES ASSUME NEW d \in Callers, NEW k \in Keys, request'[d].op = "write",
                      Sources(k) \cap Writing(d)' # {},
                      k \notin request'[d].misses \cup Clearing(d)',
                      entry'[k] # NoEntry, k \notin excused'
               PROVE  FALSE
    BY DEF ClearedBefore
  <2>1. k \notin excused /\ k \notin Clearing(d)
    BY WithoutExcuse
  <2>2. request'[d] = request[d]
    BY <1>2
  <2>3. Writing(d)' = Writing(d)
    BY <2>2 DEF Writing
  <2>4. entry[k] = NoEntry
    BY <2>1, <2>2, <2>3 DEF RaceInv, ClearedBefore
  <2>5. k = q.key
    BY <2>4, <1>2
  <2>6. Overlapped(k)
    BY <2>3, <2>5, <1>1 DEF Overlapped
  <2> QED BY <2>1, <2>6 DEF RaceInv, OverlapExcused
<1> QED BY <1>4, <1>5, <1>6, <1>7, OverlapsAreExcused DEF RaceInv

LEMMA CommitsKeeps ==
  ASSUME RaceInv, Excuses, IInv', NEW c \in Callers, Commits(c)
  PROVE  RaceInv'
<1> DEFINE on == Step(c).on
<1>1. /\ request[c].op = "write" /\ Proceeds(c) /\ UNCHANGED entry
      /\ stored' = [r \in Rows |-> IF r \in on THEN stored[r] + 1 ELSE stored[r]]
      /\ stored \in [Rows -> Nat]
      /\ CommitsOf(Step(c)) = on
  BY DEF Commits, RaceInv, IInv, CacheTypeOK, CommitsOf
<1>2. /\ on \subseteq Writing(c) /\ Writing(c)' \subseteq Writing(c)
      /\ request'[c].op = "write" => request'[c].misses = request[c].misses
      /\ request'[c].op # "read"
      /\ \A d \in Callers : d # c => request'[d] = request[d]
  BY <1>1, WritersProceed DEF RaceInv
<1>3. ASSUME NEW k \in Keys PROVE Sources(k) \subseteq Rows
  <2>1. 1 .. (1 - 1) \subseteq DOMAIN ReadPlan(k)
    OBVIOUS
  <2> QED BY <2>1, PlanEnds
<1> HIDE DEF on
<1>4. SubjectsBorn'
  <2>1. ASSUME NEW r \in Rows, Born(r) PROVE Born(r)'
    <3>1. CASE r \in on
      BY <1>1, <3>1 DEF Born
    <3>2. CASE r \notin on
      <4>1. stored'[r] = stored[r]
        BY <1>1, <3>2
      <4>2. r \in live => r \in live'
        BY <3>2 DEF Commits, on
      <4> QED BY <2>1, <4>1, <4>2 DEF Born
    <3> QED BY <3>1, <3>2
  <2>2. \A d \in Callers : request'[d].op = "read" => request'[d] = request[d]
    BY <1>2
  <2> QED BY <2>1, <2>2, <1>1, BornStays DEF RaceInv
<1>5. ASSUME NEW k \in Keys, k \notin excused', entry'[k] # NoEntry \/ Reading(k)',
             Sources(k) \cap on # {}
      PROVE  /\ entry'[k] # NoEntry => \E d \in Callers : k \in Clearing(d)'
             /\ ~ Reading(k)'
  <2>1. k \notin excused /\ ~ Missed(k) /\ \A d \in Callers : k \in Clearing(d) => k \in Clearing(d)'
    BY <1>5, WithoutExcuse
  <2>2. k \in Clearing(c) \/ entry[k] = NoEntry
    BY <1>1, <1>2, <1>5, <2>1 DEF RaceInv, ClearedBefore, Missed
  <2>3. ASSUME Reading(k)' PROVE FALSE
    <3>1. PICK d \in Callers : request'[d].op = "read" /\ request'[d].key = k
      BY <2>3 DEF Reading
    <3>2. request[d].op = "read" /\ request[d].key = k
      BY <1>2, <3>1
    <3>3. Overlapped(k)
      BY <1>2, <1>5, <3>2 DEF Overlapped
    <3> QED BY <2>1, <3>3 DEF RaceInv, OverlapExcused
  <2> QED BY <1>1, <2>1, <2>2, <2>3
<1>6. ReadersCurrent'
  <2> SUFFICES ASSUME NEW d \in Callers, request'[d].op = "read", request'[d].key \notin excused',
                      NEW r \in DOMAIN request'[d].seen
               PROVE  request'[d].seen[r] = stored'[r]
    BY DEF ReadersCurrent
  <2> DEFINE q == request[d]
  <2>1. request'[d] = q
    BY <1>2
  <2>2. q \in Readers /\ Reads(q) /\ q.op = "read" /\ q.key \in Keys /\ q.at \in Nat \ {0}
    BY <2>1 DEF RaceInv, IInv, Requests, Readers, Writers, Idle
  <2>3. r \in Sources(q.key) /\ r \in Rows
    <3>1. PICK i \in 1 .. (q.at - 1) : r \in ReadPlan(q.key)[i]
      BY <2>1, <2>2 DEF Reads, Selected
    <3>2. i \in DOMAIN ReadPlan(q.key)
      BY <2>2 DEF Reads
    <3>3. r \in Sources(q.key)
      BY <3>1, <3>2 DEF Sources
    <3> QED BY <3>3, <2>2, <1>3
  <2>4. Reading(q.key)'
    BY <2>1, <2>2 DEF Reading
  <2>5. r \notin on /\ q.key \notin excused
    BY <2>1, <2>2, <2>3, <2>4, <1>5, WithoutExcuse
  <2>6. q.seen[r] = stored[r]
    BY <2>1, <2>2, <2>5 DEF RaceInv, ReadersCurrent
  <2> QED BY <1>1, <2>1, <2>3, <2>5, <2>6
<1>7. StaleOnlyByRace'
  <2> SUFFICES ASSUME NEW k \in Keys, k \notin excused', \A d \in Callers : k \notin Clearing(d)',
                      NEW r \in DOMAIN entry'[k]
               PROVE  entry'[k][r] = stored'[r]
    BY DEF StaleOnlyByRace, Fresh
  <2>1. entry'[k] # NoEntry /\ entry'[k] = entry[k]
    BY <1>1 DEF NoEntry
  <2>2. k \notin excused /\ \A d \in Callers : k \notin Clearing(d)
    BY <2>1, WithoutExcuse
  <2>3. entry[k][r] = stored[r]
    BY <2>1, <2>2 DEF RaceInv, StaleOnlyByRace, Fresh
  <2>4. r \in Sources(k) /\ r \in Rows
    BY <2>1, <1>3 DEF RaceInv, IInv, CacheTypeOK
  <2>5. r \notin on
    BY <2>1, <2>4, <1>5
  <2> QED BY <1>1, <2>1, <2>3, <2>4, <2>5
<1>8. ClearedBefore'
  <2> SUFFICES ASSUME NEW d \in Callers, NEW k \in Keys, request'[d].op = "write",
                      Sources(k) \cap Writing(d)' # {},
                      k \notin request'[d].misses \cup Clearing(d)',
                      entry'[k] # NoEntry, k \notin excused'
               PROVE  FALSE
    BY DEF ClearedBefore
  <2>1. entry[k] # NoEntry /\ k \notin excused /\ k \notin Clearing(d)
    BY <1>1, WithoutExcuse
  <2>2. CASE d # c
    <3>1. request'[d] = request[d]
      BY <2>2, <1>2
    <3>2. Writing(d)' = Writing(d)
      BY <3>1 DEF Writing
    <3> QED BY <2>1, <3>1, <3>2 DEF RaceInv, ClearedBefore
  <2>3. CASE d = c
    BY <2>1, <2>3, <1>1, <1>2 DEF RaceInv, ClearedBefore
  <2> QED BY <2>2, <2>3
<1> QED BY <1>4, <1>6, <1>7, <1>8, OverlapsAreExcused DEF RaceInv

LEMMA RaceInit == WatchedInit => RaceInv
<1> SUFFICES ASSUME WatchedInit PROVE RaceInv
  OBVIOUS
<1>1. IInv /\ excused = {}
  BY InitInvariant DEF WatchedInit
<1>2. \E rows \in SUBSET Rows :
        \E warm \in SUBSET { k \in Keys : Subject(k) \subseteq rows } : InitWith(rows, warm)
  BY DEF WatchedInit, Init
<1>w. PICK rows \in SUBSET Rows :
        \E warm \in SUBSET { k \in Keys : Subject(k) \subseteq rows } : InitWith(rows, warm)
  BY <1>2
<1>v. PICK warm \in SUBSET { k \in Keys : Subject(k) \subseteq rows } : InitWith(rows, warm)
  BY <1>w
<1>3. \A c \in Callers : request[c].op = "idle"
  BY <1>v DEF InitWith, Idle
<1>4. \A k \in Keys : entry[k] # NoEntry =>
        /\ Subject(k) \subseteq live
        /\ entry[k] = [r \in Sources(k) |-> 0] /\ stored = [r \in Rows |-> 0]
  BY <1>v DEF InitWith
<1>5. ASSUME NEW k \in Keys PROVE Sources(k) \subseteq Rows
  <2>1. 1 .. (1 - 1) \subseteq DOMAIN ReadPlan(k)
    OBVIOUS
  <2> QED BY <2>1, PlanEnds
<1>6. ASSUME NEW k \in Keys, NEW r \in DOMAIN entry[k] PROVE entry[k][r] = stored[r]
  <2>1. entry[k] # NoEntry
    BY DEF NoEntry
  <2>2. entry[k] = [x \in Sources(k) |-> 0] /\ stored = [x \in Rows |-> 0]
    BY <2>1, <1>4
  <2> QED BY <2>2, <1>5
<1>7. StaleOnlyByRace
  BY <1>6 DEF StaleOnlyByRace, Fresh
<1> QED BY <1>7, <1>1, <1>3, <1>4, <1>6 DEF RaceInv, SubjectsBorn, Born, OverlapExcused, Overlapped,
       ReadersCurrent, ClearedBefore

LEMMA RaceStep == RaceInv /\ [Next /\ Excuses]_watchedVars => RaceInv'
<1> SUFFICES ASSUME RaceInv, [Next /\ Excuses]_watchedVars PROVE RaceInv'
  OBVIOUS
<1>i. IInv'
  <2>1. IInv /\ [Next]_vars
    BY DEF RaceInv, watchedVars
  <2> QED BY <2>1, NextInvariant
<1>u. ASSUME UNCHANGED watchedVars PROVE RaceInv'
  BY <1>u, <1>i DEF watchedVars, vars, RaceInv, SubjectsBorn, Born, OverlapExcused, Overlapped,
     ReadersCurrent, StaleOnlyByRace, ClearedBefore, Fresh, Writing, Clearing
<1> SUFFICES ASSUME Next, Excuses PROVE RaceInv'
  BY <1>u
<1>r. request \in [Callers -> {Idle} \cup Readers \cup Writers] /\ Idle.op = "idle"
  BY DEF RaceInv, IInv, Requests, Idle
<1>e. entry \in [Keys -> {NoEntry} \cup UNION { [S -> Nat] : S \in SUBSET Rows }]
  BY DEF RaceInv, IInv, Entries
<1>1. ASSUME NEW c \in Callers, NEW k \in Keys, Misses(c, k) \/ AlwaysFills(c, k) PROVE RaceInv'
  <2> DEFINE q == [op |-> "read", key |-> k, at |-> 1, seen |-> NoEntry]
  <2>1. /\ UNCHANGED << stored, live, entry >>
        /\ request' = [request EXCEPT ![c] = q]
    BY <1>1 DEF Misses, AlwaysFills
  <2>2. request'[c] = q /\ \A d \in Callers : d # c => request'[d] = request[d]
    BY <1>r, <2>1
  <2>3. request'[c].op = "read" /\ DOMAIN request'[c].seen = {} /\ ~ (request'[c].at > 1)
    BY <2>2 DEF NoEntry
  <2> HIDE DEF q
  <2> QED BY <1>i, <2>1, <2>2, <2>3, QuietStep
<1>2. ASSUME NEW c \in Callers,
             ProductRequests(c) \/ CategoryRequests(c) \/ OrderRequests(c) \/ ClearsAll(c)
      PROVE  RaceInv'
  <2>1. Covered(c)
    BY <1>2, ProductsCovered, OthersCovered DEF RaceInv
  <2>2. PICK steps, misses : Starts(c, steps, misses) /\ Covers(steps, misses)
    BY <2>1 DEF Covered
  <2> DEFINE q == [op |-> "write", todo |-> steps, misses |-> misses]
  <2>3. /\ UNCHANGED << stored, live, entry >>
        /\ request' = [request EXCEPT ![c] = q]
    BY <2>2 DEF Starts
  <2>4. request'[c] = q /\ \A d \in Callers : d # c => request'[d] = request[d]
    BY <1>r, <2>3
  <2>5. /\ request'[c].op = "write" /\ request'[c].todo = steps /\ request'[c].misses = misses
    BY <2>4
  <2>6. Writing(c)' = Writes(steps) /\ Clearing(c)' = Removes(steps)
    BY <2>5 DEF Writing, Clearing, Writes, Removes
  <2>7. \A k \in Keys : Sources(k) \cap Writing(c)' # {} =>
          k \in request'[c].misses \cup Clearing(c)' \/ entry[k] = NoEntry
    BY <2>2, <2>5, <2>6 DEF Covers
  <2> HIDE DEF q
  <2> QED BY <1>i, <2>3, <2>4, <2>5, <2>7, QuietStep
<1>3. ASSUME NEW c \in Callers, Selects(c) PROVE RaceInv'
  <2> DEFINE q == request[c]
             rows == ReadPlan(q.key)[q.at]
             seen == [r \in DOMAIN q.seen \cup rows |-> IF r \in rows THEN stored[r] ELSE q.seen[r]]
             next == [q EXCEPT !.at = q.at + 1, !.seen = seen]
  <2>1. q \in Readers /\ q.op = "read"
    BY <1>3, <1>r DEF Selects, Writers
  <2>2. request' = [request EXCEPT ![c] = next] /\ UNCHANGED << stored, live, entry >>
    BY <1>3, <1>r DEF Selects
  <2>3. next.op = "read" /\ next.key = q.key /\ next.seen = seen
    BY <2>1 DEF Readers
  <2>4. request'[c] = next /\ \A d \in Callers : d # c => request'[d] = request[d]
    BY <1>r, <2>2
  <2>5. ASSUME NEW r \in DOMAIN seen
        PROVE  \/ seen[r] = stored[r]
               \/ /\ r \in DOMAIN q.seen
                  /\ seen[r] = q.seen[r]
    <3> DEFINE old == q.seen
    <3> HIDE DEF q
    <3> HIDE DEF rows, old
    <3> QED BY DEF old
  <2>6. \A r \in Subject(q.key) : Born(r)
    BY <1>3 DEF Selects, Born
  <2> HIDE DEF seen, next
  <2>7. /\ request'[c].op = "read" /\ request'[c].key = q.key /\ request'[c].seen = seen
    BY <2>3, <2>4
  <2> QED BY <1>i, <2>1, <2>2, <2>4, <2>5, <2>6, <2>7, QuietStep
<1>4. ASSUME NEW c \in Callers, NotFound(c) \/ Aborts(c) PROVE RaceInv'
  <2>1. request' = [request EXCEPT ![c] = Idle] /\ UNCHANGED << stored, live, entry >>
    BY <1>4 DEF NotFound, Aborts
  <2>2. request'[c].op = "idle" /\ \A d \in Callers : d # c => request'[d] = request[d]
    BY <1>r, <2>1
  <2> QED BY <1>i, <2>1, <2>2, QuietStep
<1>5. ASSUME NEW c \in Callers, Sets(c) PROVE RaceInv'
  BY <1>5, <1>i, SetsKeeps
<1>6. ASSUME NEW c \in Callers, Commits(c) PROVE RaceInv'
  BY <1>6, <1>i, CommitsKeeps
<1>7. ASSUME NEW c \in Callers, Clears(c) \/ ClearFails(c) PROVE RaceInv'
  <2>1. /\ request[c].op = "write" /\ Proceeds(c) /\ UNCHANGED << stored, live >>
        /\ \A k \in Keys : entry'[k] \in {entry[k], NoEntry}
    BY <1>7 DEF Clears, ClearFails
  <2>2. /\ Writing(c)' \subseteq Writing(c)
        /\ request'[c].op = "write" => request'[c].misses = request[c].misses
        /\ request'[c].op # "read"
        /\ \A d \in Callers : d # c => request'[d] = request[d]
    BY <2>1, WritersProceed DEF RaceInv
  <2> QED BY <1>i, <2>1, <2>2, QuietStep
<1>8. ASSUME NEW k \in Keys, Expires(k) PROVE RaceInv'
  <2>1. /\ UNCHANGED << stored, live, request >>
        /\ \A x \in Keys : entry'[x] \in {entry[x], NoEntry}
    BY <1>8, <1>e DEF Expires
  <2>2. PICK c : c \notin Callers
    <3> DEFINE outside == { d \in Callers : d \notin d }
    <3>1. outside \notin Callers
      OBVIOUS
    <3> QED BY <3>1
  <2> QED BY <1>i, <2>1, <2>2, QuietStep
<1> QED BY <1>1, <1>2, <1>3, <1>4, <1>5, <1>6, <1>7, <1>8 DEF Next, Continues

\* Stale prices, stock and order states in the caches have no other cause than
\* the three that excuse them: a change whose handler does not clear the key, a
\* reader between its get and its set while a handler that shows up in it was at
\* work, or Redis not answering the removal.
THEOREM StaleKeysAreExcused == WatchedSpec => []StaleOnlyByRace
<1>1. RaceInv => StaleOnlyByRace
  BY DEF RaceInv
<1> QED BY <1>1, RaceInit, RaceStep, PTL DEF WatchedSpec

-----------------------------------------------------------------------------
(* What the pages of the catalogue list. *)

\* Places of a list: the one after another has one more before it.
LEMMA EarlierHasFewer ==
  ASSUME NEW S, IsFiniteSet(S), S \subseteq Nat, NEW i \in S, NEW j \in S, i < j
  PROVE  Before(i, S) < Before(j, S) /\ Before(i, S) \in Nat
<1> DEFINE A == { k \in S : k < i }
           B == { k \in S : k < j }
<1>1. IsFiniteSet(B) /\ Cardinality(B) \in Nat /\ IsFiniteSet(A) /\ Cardinality(A) \in Nat
  BY FS_Subset, FS_CardinalityType
<1>2. A \in SUBSET B /\ i \in B /\ i \notin A
  <2>1. i \in Nat /\ j \in Nat /\ \A k \in S : k \in Nat
    OBVIOUS
  <2>2. \A k \in S : k < i => k < j
    BY <2>1
  <2>3. ~ (i < i)
    BY <2>1
  <2> QED BY <2>2, <2>3, Zenon
<1>3. Cardinality(A) <= Cardinality(B) /\ Cardinality(A) # Cardinality(B)
  <2> HIDE DEF A, B
  <2> QED BY <1>1, <1>2, FS_Subset
<1> QED BY <1>1, <1>3 DEF Before

\* Every place has a rank of its own, and every rank a place.
LEMMA Ranks ==
  ASSUME NEW S, IsFiniteSet(S), S \subseteq Nat
  PROVE  /\ Cardinality(S) \in Nat
         /\ \A i \in S : Before(i, S) \in 0 .. Cardinality(S) - 1
         /\ \A i, j \in S : Before(i, S) = Before(j, S) => i = j
         /\ \A r \in 0 .. Cardinality(S) - 1 : \E i \in S : Before(i, S) = r
<1> DEFINE c == Cardinality(S)
           rank == [i \in S |-> Before(i, S)]
<1>1. c \in Nat
  BY FS_CardinalityType
<1>2. \A i \in S : Before(i, S) \in 0 .. c - 1
  <2> SUFFICES ASSUME NEW i \in S PROVE Before(i, S) \in 0 .. c - 1
    OBVIOUS
  <2> DEFINE A == { k \in S : k < i }
  <2>1. A \in SUBSET S /\ A # S /\ Before(i, S) = Cardinality(A)
    BY DEF Before
  <2> HIDE DEF A
  <2>2. Cardinality(A) \in Nat /\ Cardinality(A) <= c /\ Cardinality(A) # c
    BY <2>1, FS_Subset, FS_CardinalityType
  <2> QED BY <1>1, <2>1, <2>2
<1>3. \A i, j \in S : Before(i, S) = Before(j, S) => i = j
  <2> SUFFICES ASSUME NEW i \in S, NEW j \in S, i # j PROVE Before(i, S) # Before(j, S)
    OBVIOUS
  <2>1. CASE i < j
    <3>1. Before(i, S) < Before(j, S) /\ Before(i, S) \in Nat
      BY <2>1, EarlierHasFewer
    <3> QED BY <1>2, <3>1
  <2>2. CASE j < i
    <3>1. Before(j, S) < Before(i, S) /\ Before(j, S) \in Nat
      BY <2>2, EarlierHasFewer
    <3> QED BY <1>2, <3>1
  <2>3. i \in Nat /\ j \in Nat
    OBVIOUS
  <2> QED BY <2>1, <2>2, <2>3
<1>4. rank \in Injection(S, 0 .. c - 1)
  BY <1>2, <1>3 DEF Injection, IsInjective
<1>5. IsFiniteSet(0 .. c - 1) /\ Cardinality(0 .. c - 1) = c
  <2>1. 0 \in Int /\ c - 1 \in Int
    BY <1>1
  <2> QED BY <1>1, <2>1, FS_Interval
<1>6. rank \in Surjection(S, 0 .. c - 1)
  <2> HIDE DEF rank
  <2> QED BY <1>4, <1>5, FS_Injection
<1>7. \A r \in 0 .. c - 1 : \E i \in S : Before(i, S) = r
  BY <1>6 DEF Surjection
<1> QED BY <1>1, <1>2, <1>3, <1>7

\* The list of some places has each of them once.
LEMMA NewestFirstLists ==
  ASSUME NEW S, IsFiniteSet(S), S \subseteq Nat
  PROVE  /\ Cardinality(S) \in Nat
         /\ NewestFirst(S) \in Seq(S) /\ Len(NewestFirst(S)) = Cardinality(S)
         /\ \A n, m \in 1 .. Cardinality(S) : NewestFirst(S)[n] = NewestFirst(S)[m] => n = m
         /\ Members(NewestFirst(S)) = S
<1> DEFINE c == Cardinality(S)
           s == NewestFirst(S)
<1>1. c \in Nat
  BY Ranks
<1>2. \A n \in 1 .. c : s[n] \in S /\ Before(s[n], S) = n - 1
  <2> SUFFICES ASSUME NEW n \in 1 .. c PROVE s[n] \in S /\ Before(s[n], S) = n - 1
    OBVIOUS
  <2>1. \E i \in S : Before(i, S) = n - 1
    <3>1. n - 1 \in 0 .. c - 1
      BY <1>1
    <3> QED BY <3>1, Ranks
  <2>2. s[n] = CHOOSE i \in S : Before(i, S) = n - 1
    BY DEF NewestFirst
  <2> HIDE DEF s
  <2> QED BY <2>1, <2>2
<1>3. s = [n \in 1 .. c |-> s[n]] /\ s \in [1 .. c -> S]
  BY <1>2 DEF NewestFirst
<1>4. s \in Seq(S) /\ Len(s) = c /\ DOMAIN s = 1 .. c
  <2> HIDE DEF s
  <2> QED BY <1>1, <1>3
<1>5. \A n, m \in 1 .. c : s[n] = s[m] => n = m
  <2> HIDE DEF s
  <2> QED BY <1>1, <1>2
<1>6. \A i \in S : \E n \in 1 .. c : s[n] = i
  <2> SUFFICES ASSUME NEW i \in S PROVE \E n \in 1 .. c : s[n] = i
    OBVIOUS
  <2>1. Before(i, S) \in 0 .. c - 1
    BY Ranks
  <2>2. Before(i, S) + 1 \in 1 .. c /\ (Before(i, S) + 1) - 1 = Before(i, S)
    BY <1>1, <2>1
  <2> HIDE DEF s
  <2>3. s[Before(i, S) + 1] \in S /\ Before(s[Before(i, S) + 1], S) = Before(i, S)
    BY <1>2, <2>2
  <2>4. s[Before(i, S) + 1] = i
    BY <2>3, Ranks
  <2> QED BY <2>2, <2>4
<1>7. Members(s) = S
  <2> HIDE DEF s
  <2> QED BY <1>2, <1>4, <1>6 DEF Members
<1> QED BY <1>1, <1>4, <1>5, <1>7

\* The newest of them are as many as asked for, or all.
LEMMA NewestAreMany ==
  ASSUME NEW S, IsFiniteSet(S), S \subseteq Nat, NEW n \in Nat
  PROVE  /\ NewestOf(S, n) \subseteq S /\ IsFiniteSet(NewestOf(S, n))
         /\ Cardinality(S) \in Nat /\ Cardinality(NewestOf(S, n)) \in Nat
         /\ Cardinality(S) <= n => NewestOf(S, n) = S
         /\ Cardinality(S) > n => Cardinality(NewestOf(S, n)) = n
<1> DEFINE c == Cardinality(S)
           T == NewestOf(S, n)
<1>1. T \subseteq S /\ IsFiniteSet(T) /\ c \in Nat /\ Cardinality(T) \in Nat
  <2>1. T \in SUBSET S
    BY DEF NewestOf
  <2> QED BY <2>1, FS_Subset, FS_CardinalityType
<1>2. ASSUME c <= n PROVE T = S
  <2>1. \A i \in S : Before(i, S) \in 0 .. c - 1
    BY Ranks
  <2>2. \A i \in S : Before(i, S) < n
    BY <1>1, <1>2, <2>1
  <2> QED BY <2>2 DEF NewestOf
<1>3. ASSUME c > n PROVE Cardinality(T) = n
  <2> DEFINE rank == [i \in T |-> Before(i, S)]
  <2>1. \A i \in T : i \in S /\ Before(i, S) \in 0 .. n - 1
    <3>1. \A i \in S : Before(i, S) \in 0 .. c - 1
      BY Ranks
    <3> QED BY <1>1, <3>1 DEF NewestOf
  <2>2. \A i, j \in T : Before(i, S) = Before(j, S) => i = j
    BY <2>1, Ranks
  <2>3. \A r \in 0 .. n - 1 : \E i \in T : Before(i, S) = r
    <3> SUFFICES ASSUME NEW r \in 0 .. n - 1 PROVE \E i \in T : Before(i, S) = r
      OBVIOUS
    <3>1. r \in 0 .. c - 1
      BY <1>1, <1>3
    <3>2. PICK i \in S : Before(i, S) = r
      BY <3>1, Ranks
    <3> QED BY <3>2 DEF NewestOf
  <2> HIDE DEF T
  <2>4. rank \in Injection(T, 0 .. n - 1) /\ rank \in Surjection(T, 0 .. n - 1)
    BY <2>1, <2>2, <2>3 DEF Injection, Surjection, IsInjective
  <2>5. IsFiniteSet(0 .. n - 1) /\ Cardinality(0 .. n - 1) = n
    BY FS_Interval
  <2> HIDE DEF rank
  <2> QED BY <2>4, <2>5, FS_Injection
<1> QED BY <1>1, <1>2, <1>3

-----------------------------------------------------------------------------
(* Similar products. *)

\* A list of products without the one it is for, each once.
Fits(s, self, limit) ==
  /\ s \in Seq(Visible) /\ Len(s) <= limit /\ self \notin Members(s)
  /\ \A i, j \in 1 .. Len(s) : s[i] = s[j] => i = j

LEMMA SomeFirst ==
  ASSUME NEW S, NEW s \in Seq(S), NEW n \in Nat
  PROVE  /\ Take(s, n) \in Seq(S)
         /\ Len(Take(s, n)) = IF n < Len(s) THEN n ELSE Len(s)
         /\ \A i \in 1 .. Len(Take(s, n)) : Take(s, n)[i] = s[i]
<1> DEFINE k == IF n < Len(s) THEN n ELSE Len(s)
           t == SubSeq(s, 1, k)
<1>1. k \in 0 .. Len(s) /\ Len(s) \in Nat
  OBVIOUS
<1>2. \A i \in 1 .. k : s[i] \in S
  BY <1>1
<1> HIDE DEF k
<1>3. t \in Seq(S) /\ Len(t) = k /\ \A i \in 1 .. k : t[i] = s[i]
  <2>1. t = [i \in 1 .. k |-> s[i]]
    BY <1>1, SubSeqProperties
  <2> HIDE DEF t
  <2>2. t \in [1 .. k -> S]
    BY <1>2, <2>1
  <2> QED BY <1>1, <2>1, <2>2
<1> QED BY <1>3 DEF Take, k

LEMMA VisibleFinite ==
  ASSUME goods \in Seq(Good)
  PROVE  IsFiniteSet(Visible) /\ Visible \subseteq Nat /\ Visible \subseteq DOMAIN goods
<1>1. Len(goods) \in Nat /\ DOMAIN goods = 1 .. Len(goods)
  OBVIOUS
<1>2. IsFiniteSet(1 .. Len(goods))
  BY <1>1, FS_Interval
<1>3. Visible \in SUBSET (1 .. Len(goods))
  BY <1>1 DEF Visible
<1>4. 1 .. Len(goods) \subseteq Nat
  BY <1>1
<1> QED BY <1>1, <1>2, <1>3, <1>4, FS_Subset

\* What a list without repetition has.
LEMMA ListCounts ==
  ASSUME NEW S, NEW s \in Seq(S), \A i, j \in 1 .. Len(s) : s[i] = s[j] => i = j
  PROVE  /\ IsFiniteSet(Members(s)) /\ Cardinality(Members(s)) = Len(s) /\ Members(s) \subseteq S
         /\ Members(s) = { s[i] : i \in 1 .. Len(s) }
<1>1. Len(s) \in Nat /\ DOMAIN s = 1 .. Len(s) /\ \A i \in 1 .. Len(s) : s[i] \in S
  OBVIOUS
<1>2. Members(s) = { s[i] : i \in 1 .. Len(s) }
  BY <1>1 DEF Members
<1> DEFINE f == [i \in 1 .. Len(s) |-> s[i]]
<1>3. f \in Bijection(1 .. Len(s), Members(s))
  BY <1>2 DEF Bijection, Injection, Surjection, IsInjective
<1>4. IsFiniteSet(1 .. Len(s)) /\ Cardinality(1 .. Len(s)) = Len(s)
  <2>1. 1 \in Int /\ Len(s) \in Int /\ Len(s) >= 0
    BY <1>1
  <2>2. IsFiniteSet(1 .. Len(s)) /\ Cardinality(1 .. Len(s)) = IF 1 > Len(s) THEN 0 ELSE Len(s) - 1 + 1
    BY <2>1, FS_Interval
  <2> QED BY <2>1, <2>2
<1>5. ExistsBijection(1 .. Len(s), Members(s))
  BY <1>3 DEF ExistsBijection
<1>6. IsFiniteSet(Members(s)) /\ Cardinality(Members(s)) = Len(s)
  BY <1>4, <1>5, FS_Bijection
<1> QED BY <1>1, <1>2, <1>6


\* What a list becomes that is filled up with more.
Filled(list, found, more, self, limit) ==
  LET fresh == more \ (Members(found) \cup {self})
  IN  /\ Fits(list, self, limit)
      /\ IsFiniteSet(fresh) /\ Cardinality(fresh) \in Nat
      /\ Len(found) <= Len(list)
      /\ \A i \in 1 .. Len(found) : list[i] = found[i]
      /\ \A i \in 1 .. Len(list) : i > Len(found) => list[i] \in fresh
      /\ Len(list) = IF limit < Len(found) + Cardinality(fresh) THEN limit
                     ELSE Len(found) + Cardinality(fresh)
      /\ Len(found) + Cardinality(fresh) <= limit => Members(list) = Members(found) \cup fresh

\* Filling up keeps what was found, adds only what is listed, and stops only
\* when the list is full or nothing is left.
LEMMA FillingUp ==
  ASSUME goods \in Seq(Good), NEW self, NEW limit \in Nat, NEW found, Fits(found, self, limit),
         NEW more \in SUBSET Visible
  PROVE  Filled(FillsUp(found, more, self, limit), found, more, self, limit)
<1> DEFINE fresh == more \ (Members(found) \cup {self})
           n == NewestFirst(fresh)
           joined == found \o n
           list == FillsUp(found, more, self, limit)
           c == Cardinality(fresh)
<1>1. /\ IsFiniteSet(fresh) /\ c \in Nat /\ fresh \subseteq Visible
      /\ n \in Seq(fresh) /\ Len(n) = c /\ Members(n) = fresh
      /\ \A i, j \in 1 .. c : n[i] = n[j] => i = j
  <2>1. fresh \in SUBSET Visible /\ IsFiniteSet(Visible) /\ Visible \subseteq Nat
    BY VisibleFinite
  <2>2. IsFiniteSet(fresh) /\ fresh \subseteq Nat
    BY <2>1, FS_Subset
  <2> HIDE DEF fresh
  <2> QED BY <2>1, <2>2, NewestFirstLists
<1>2. /\ found \in Seq(Visible) /\ Len(found) \in Nat /\ Len(found) <= limit
      /\ self \notin Members(found) /\ Members(found) = { found[i] : i \in 1 .. Len(found) }
      /\ \A i, j \in 1 .. Len(found) : found[i] = found[j] => i = j
  BY ListCounts DEF Fits
<1>3. \A i \in 1 .. c : n[i] \in fresh
  BY <1>1
<1>4. fresh \cap Members(found) = {} /\ self \notin fresh
  OBVIOUS
<1> HIDE DEF fresh, n, c
<1>5. /\ joined \in Seq(Visible) /\ Len(joined) = Len(found) + c
      /\ \A i \in 1 .. Len(found) : joined[i] = found[i]
      /\ \A i \in 1 .. Len(joined) : i > Len(found) => i - Len(found) \in 1 .. c /\ joined[i] = n[i - Len(found)]
  <2>1. n \in Seq(Visible)
    BY <1>1, <1>3
  <2>2. joined \in Seq(Visible) /\ Len(joined) = Len(found) + c
    <3>1. found \in Seq(Visible) /\ Len(n) = c
      BY <1>1, <1>2
    <3>2. found \o n \in Seq(Visible) /\ Len(found \o n) = Len(found) + Len(n)
      BY ONLY <2>1, <3>1, ConcatProperties, Zenon
    <3> QED BY <3>1, <3>2
  <2>3. \A i \in 1 .. Len(joined) : joined[i] = IF i <= Len(found) THEN found[i] ELSE n[i - Len(found)]
    BY <1>1, <1>2, <2>1, ConcatProperties
  <2>4. \A i \in 1 .. Len(found) : i \in 1 .. Len(joined) /\ i <= Len(found)
    BY <1>1, <1>2, <2>2
  <2>5. \A i \in 1 .. Len(joined) : i > Len(found) => i - Len(found) \in 1 .. c /\ ~ (i <= Len(found))
    BY <1>1, <1>2, <2>2
  <2> HIDE DEF joined
  <2> QED BY <2>2, <2>3, <2>4, <2>5
<1> HIDE DEF joined
<1>6. list = Take(joined, limit)
  BY DEF FillsUp, joined, n, fresh
<1> HIDE DEF list
<1>7. /\ list \in Seq(Visible) /\ Len(list) = IF limit < Len(found) + c THEN limit ELSE Len(found) + c
      /\ \A i \in 1 .. Len(list) : list[i] = joined[i]
  BY <1>5, <1>6, SomeFirst
<1>8. Len(list) \in Nat /\ Len(found) <= Len(list) /\ Len(list) <= limit /\ Len(list) <= Len(joined)
  BY <1>1, <1>2, <1>5, <1>7
<1>9. \A i \in 1 .. Len(found) : list[i] = found[i]
  <2>1. \A i \in 1 .. Len(found) : i \in 1 .. Len(list)
    BY <1>2, <1>8
  <2> QED BY <1>5, <1>7, <2>1
<1>10. \A i \in 1 .. Len(list) : i > Len(found) =>
          i - Len(found) \in 1 .. c /\ list[i] = n[i - Len(found)] /\ list[i] \in fresh
  <2>1. \A i \in 1 .. Len(list) : i \in 1 .. Len(joined)
    BY <1>5, <1>1, <1>2, <1>8
  <2> QED BY <1>3, <1>5, <1>7, <2>1
<1>11. \A i, j \in 1 .. Len(list) : list[i] = list[j] => i = j
  <2> SUFFICES ASSUME NEW i \in 1 .. Len(list), NEW j \in 1 .. Len(list), list[i] = list[j] PROVE i = j
    OBVIOUS
  <2>1. CASE i <= Len(found) /\ j <= Len(found)
    <3>1. i \in 1 .. Len(found) /\ j \in 1 .. Len(found)
      BY <1>2, <2>1
    <3> QED BY <1>2, <1>9, <3>1
  <2>2. CASE i > Len(found) /\ j > Len(found)
    <3>1. i - Len(found) = j - Len(found)
      BY <1>1, <1>10, <2>2
    <3> QED BY <1>2, <3>1
  <2>3. ASSUME NEW x \in 1 .. Len(list), NEW y \in 1 .. Len(list), x <= Len(found), y > Len(found)
        PROVE  list[x] # list[y]
    <3>1. x \in 1 .. Len(found)
      BY <1>2, <2>3
    <3>2. list[x] \in Members(found) /\ list[y] \in fresh
      BY <1>2, <1>9, <1>10, <2>3, <3>1
    <3> QED BY <1>4, <3>2
  <2>4. CASE i <= Len(found) /\ j > Len(found)
    BY <2>3, <2>4
  <2>5. CASE i > Len(found) /\ j <= Len(found)
    BY <2>3, <2>5
  <2> QED BY <1>2, <1>8, <2>1, <2>2, <2>4, <2>5
<1>12. Members(list) = { list[i] : i \in 1 .. Len(list) }
  BY <1>7, <1>11, ListCounts
<1>13. self \notin Members(list) /\ Members(list) \subseteq Members(found) \cup fresh
  <2> SUFFICES ASSUME NEW i \in 1 .. Len(list) PROVE list[i] \in Members(found) \cup fresh
    BY <1>2, <1>4, <1>12
  <2>1. CASE i <= Len(found)
    <3>1. i \in 1 .. Len(found)
      BY <1>2, <2>1
    <3> QED BY <1>2, <1>9, <3>1
  <2> QED BY <1>2, <1>10, <2>1
<1>14. Fits(list, self, limit)
  BY <1>7, <1>8, <1>11, <1>13 DEF Fits
<1>15. ASSUME Len(found) + c <= limit PROVE Members(found) \cup fresh \subseteq Members(list)
  <2>1. Len(list) = Len(found) + c
    BY <1>1, <1>2, <1>7, <1>15
  <2>2. \A i \in 1 .. Len(found) : i \in 1 .. Len(list) /\ found[i] = list[i]
    BY <1>2, <1>8, <1>9
  <2>3. ASSUME NEW x \in fresh PROVE x \in Members(list)
    <3>1. PICK k \in 1 .. c : n[k] = x
      <4>1. Members(n) = { n[k] : k \in 1 .. c }
        BY <1>1, ListCounts
      <4> QED BY <1>1, <4>1
    <3>2. k + Len(found) \in 1 .. Len(list) /\ k + Len(found) > Len(found) /\ (k + Len(found)) - Len(found) = k
      BY <1>1, <1>2, <2>1
    <3>3. list[k + Len(found)] = x
      BY <1>10, <3>1, <3>2
    <3> QED BY <1>12, <3>2, <3>3
  <2> QED BY <1>2, <1>12, <2>2, <2>3
<1> QED BY <1>1, <1>7, <1>8, <1>9, <1>10, <1>13, <1>14, <1>15 DEF fresh, c, list, Filled


LEMMA OneLess ==
  ASSUME NEW S, IsFiniteSet(S), NEW x
  PROVE  /\ Cardinality(S) \in Nat /\ Cardinality(S \ {x}) \in Nat
         /\ Cardinality(S \ {x}) <= Cardinality(S) /\ Cardinality(S \ {x}) >= Cardinality(S) - 1
<1>1. Cardinality(S) \in Nat /\ IsFiniteSet(S \ {x})
  BY FS_CardinalityType, FS_RemoveElement
<1>2. Cardinality(S \ {x}) \in Nat
  BY <1>1, FS_CardinalityType
<1>3. Cardinality(S \ {x}) = IF x \in S THEN Cardinality(S) - 1 ELSE Cardinality(S)
  BY FS_RemoveElement
<1> QED BY <1>1, <1>2, <1>3

\* The list of similar products: as long as it can be, kin first.
LEMMA SimilarFilled ==
  ASSUME goods \in Seq(Good), NEW self \in DOMAIN goods, NEW limit \in Nat \ {0}
  PROVE  LET others == Visible \ {self}
             kin == (SameCategory(self) \cap SameBrand(self)) \ {self}
             list == SimilarProducts(self, limit)
         IN  /\ Members(list) \subseteq others
             /\ Cardinality(Members(list)) = Len(list)
             /\ Len(list) = IF Cardinality(others) < limit THEN Cardinality(others) ELSE limit
             /\ \A i \in DOMAIN list : \A j \in 1 .. i : list[i] \in kin => list[j] \in kin
             /\ kin \subseteq Members(list) \/ Members(Take(list, limit - 1)) \subseteq kin
<1> DEFINE others == Visible \ {self}
           kind == SameCategory(self) \cap SameBrand(self)
           kin == kind \ {self}
           first == NewestOf(kind, limit)
           all == NewestOf(Visible, 2 * limit)
           one == FillsUp(<< >>, first, self, limit)
           two == FillsUp(one, NewestOf(SameCategory(self), 2 * limit), self, limit)
           three == FillsUp(two, NewestOf(SameBrand(self), 2 * limit), self, limit)
           list == FillsUp(three, all, self, limit)
<1>1. limit \in Nat /\ limit >= 1 /\ 2 * limit \in Nat
  OBVIOUS
<1>2. /\ IsFiniteSet(Visible) /\ Visible \subseteq Nat
      /\ SameCategory(self) \in SUBSET Visible /\ SameBrand(self) \in SUBSET Visible /\ kind \in SUBSET Visible
  BY VisibleFinite DEF SameCategory, SameBrand
<1>3. /\ first \in SUBSET Visible /\ IsFiniteSet(first) /\ first \subseteq kind
      /\ Cardinality(kind) \in Nat /\ Cardinality(first) \in Nat /\ IsFiniteSet(kind)
      /\ Cardinality(kind) <= limit => first = kind
      /\ Cardinality(kind) > limit => Cardinality(first) = limit
  <2>1. IsFiniteSet(kind) /\ kind \subseteq Nat
    BY <1>2, FS_Subset
  <2> HIDE DEF kind
  <2> QED BY <1>1, <1>2, <2>1, NewestAreMany
<1>4. /\ NewestOf(SameCategory(self), 2 * limit) \in SUBSET Visible
      /\ NewestOf(SameBrand(self), 2 * limit) \in SUBSET Visible
  BY <1>2 DEF NewestOf
<1>5. /\ all \in SUBSET Visible /\ IsFiniteSet(all) /\ Cardinality(all) \in Nat /\ Cardinality(Visible) \in Nat
      /\ Cardinality(Visible) <= 2 * limit => all = Visible
      /\ Cardinality(Visible) > 2 * limit => Cardinality(all) = 2 * limit
  BY <1>1, <1>2, NewestAreMany
<1>6. Fits(<< >>, self, limit) /\ Len(<< >>) = 0 /\ Members(<< >>) = {}
  BY <1>1 DEF Fits, Members
<1>7. Filled(one, << >>, first, self, limit) /\ Fits(one, self, limit)
  <2>1. Filled(one, << >>, first, self, limit)
    BY <1>1, <1>3, <1>6, FillingUp, Zenon
  <2> HIDE DEF one
  <2> QED BY <2>1 DEF Filled
<1>8. /\ Fits(two, self, limit) /\ Len(one) <= Len(two)
      /\ \A i \in 1 .. Len(one) : two[i] = one[i]
  <2> DEFINE more == NewestOf(SameCategory(self), 2 * limit)
  <2> HIDE DEF one, more
  <2>1. Filled(two, one, more, self, limit)
    BY <1>1, <1>4, <1>7, FillingUp, Zenon DEF more
  <2> HIDE DEF two
  <2> QED BY <2>1 DEF Filled
<1>9. /\ Fits(three, self, limit) /\ Len(two) <= Len(three)
      /\ \A i \in 1 .. Len(two) : three[i] = two[i]
  <2> DEFINE more == NewestOf(SameBrand(self), 2 * limit)
  <2> HIDE DEF two, more
  <2>1. Filled(three, two, more, self, limit)
    BY <1>1, <1>4, <1>8, FillingUp, Zenon DEF more
  <2> HIDE DEF three
  <2> QED BY <2>1 DEF Filled
<1> HIDE DEF first, all
<1>10. Filled(list, three, all, self, limit)
  <2> HIDE DEF three
  <2> QED BY <1>1, <1>5, <1>9, FillingUp, Zenon
<1>11. /\ Fits(list, self, limit) /\ Len(three) <= Len(list)
       /\ \A i \in 1 .. Len(three) : list[i] = three[i]
  <2> HIDE DEF three, list
  <2> QED BY <1>10 DEF Filled
<1>12. LET fresh == first \ {self}
       IN  /\ IsFiniteSet(fresh) /\ Cardinality(fresh) \in Nat
           /\ \A i \in 1 .. Len(one) : one[i] \in fresh
           /\ Len(one) = IF limit < Cardinality(fresh) THEN limit ELSE Cardinality(fresh)
           /\ Cardinality(fresh) <= limit => Members(one) = fresh
  <2>1. first \ (Members(<< >>) \cup {self}) = first \ {self}
    BY <1>6
  <2> HIDE DEF one
  <2> DEFINE fresh == first \ {self}
  <2>2. Cardinality(fresh) \in Nat => 0 + Cardinality(fresh) = Cardinality(fresh)
    <3> HIDE DEF fresh
    <3> QED OBVIOUS
  <2>3. \A i \in 1 .. Len(one) : i > 0
    OBVIOUS
  <2> HIDE DEF fresh
  <2>4. /\ IsFiniteSet(fresh) /\ Cardinality(fresh) \in Nat
        /\ \A i \in 1 .. Len(one) : i > 0 => one[i] \in fresh
        /\ Len(one) = IF limit < 0 + Cardinality(fresh) THEN limit ELSE 0 + Cardinality(fresh)
        /\ 0 + Cardinality(fresh) <= limit => Members(one) = {} \cup fresh
    BY <1>6, <1>7, <2>1, Zenon DEF Filled, fresh
  <2> QED BY <2>2, <2>3, <2>4 DEF fresh
<1>13. SimilarProducts(self, limit) = list
  BY DEF SimilarProducts, first, all
<1> HIDE DEF one, two, three, list
<1>14. Len(one) \in Nat /\ Len(two) \in Nat /\ Len(three) \in Nat /\ Len(list) \in Nat /\ Len(list) <= limit
  BY <1>7, <1>7, <1>8, <1>9, <1>11 DEF Fits
<1>15. Len(one) <= Len(list) /\ \A i \in 1 .. Len(one) : list[i] = one[i]
  <2>1. \A i \in 1 .. Len(one) : i \in 1 .. Len(two)
    BY <1>8, <1>14
  <2>2. \A i \in 1 .. Len(two) : i \in 1 .. Len(three)
    BY <1>9, <1>14
  <2>3. Len(one) <= Len(list)
    BY <1>8, <1>9, <1>11, <1>14
  <2> QED BY <1>8, <1>9, <1>11, <2>1, <2>2, <2>3
<1>16. /\ IsFiniteSet(Members(list)) /\ Cardinality(Members(list)) = Len(list) /\ Members(list) \subseteq others
       /\ Members(list) = { list[i] : i \in 1 .. Len(list) } /\ DOMAIN list = 1 .. Len(list)
       /\ \A i, j \in 1 .. Len(list) : list[i] = list[j] => i = j
  BY <1>11, ListCounts DEF Fits
<1>17. IsFiniteSet(Members(three)) /\ Cardinality(Members(three)) = Len(three) /\ Members(three) \subseteq others
  BY <1>9, ListCounts DEF Fits
<1>18. IsFiniteSet(others) /\ Cardinality(others) \in Nat
  BY <1>2, FS_Subset, FS_CardinalityType
<1>19. Len(list) = IF Cardinality(others) < limit THEN Cardinality(others) ELSE limit
  <2> DEFINE fresh == all \ (Members(three) \cup {self})
             t == Len(three)
  <2>1. /\ IsFiniteSet(fresh) /\ Cardinality(fresh) \in Nat
        /\ Len(list) = IF limit < t + Cardinality(fresh) THEN limit ELSE t + Cardinality(fresh)
    BY <1>10 DEF Filled
  <2>2. t <= limit /\ t \in Nat
    BY <1>9, <1>14 DEF Fits
  <2>3. CASE Cardinality(Visible) <= 2 * limit
    <3>1. fresh = others \ Members(three)
      BY <1>5, <2>3
    <3>2. Cardinality(fresh) = Cardinality(others) - t
      <4>1. others \cap Members(three) = Members(three)
        BY <1>17
      <4>2. Cardinality(others \ Members(three)) = Cardinality(others) - Cardinality(others \cap Members(three))
        BY <1>18, FS_Difference
      <4> QED BY <1>17, <3>1, <4>1, <4>2
    <3> HIDE DEF fresh, others
    <3> QED BY <1>1, <1>18, <2>1, <2>2, <3>2
  <2>4. CASE Cardinality(Visible) > 2 * limit
    <3>1. Cardinality(all) = 2 * limit
      BY <1>5, <2>4
    <3>2. Cardinality(fresh) >= 2 * limit - t - 1
      <4>1. IsFiniteSet(Members(three) \cup {self}) /\ Cardinality(Members(three) \cup {self}) <= t + 1
             /\ Cardinality(Members(three) \cup {self}) \in Nat
        BY <1>17, <2>2, FS_AddElement, FS_CardinalityType
      <4> DEFINE U == Members(three) \cup {self}
      <4> HIDE DEF U
      <4>2. Cardinality(all \ U) = Cardinality(all) - Cardinality(all \cap U)
        BY <1>5, FS_Difference
      <4>3. all \cap U \in SUBSET U
        OBVIOUS
      <4>4. Cardinality(all \cap U) <= Cardinality(U) /\ Cardinality(all \cap U) \in Nat
        BY <4>1, <4>3, FS_Subset, FS_CardinalityType DEF U
      <4> QED BY <1>1, <2>2, <3>1, <4>1, <4>2, <4>4 DEF U
    <3>3. Cardinality(others) >= limit
      <4>1. Cardinality(others) >= Cardinality(Visible) - 1
        BY <1>2, OneLess
      <4> HIDE DEF others
      <4> QED BY <1>1, <1>5, <1>18, <2>4, <4>1
    <3> HIDE DEF fresh, others
    <3> QED BY <1>1, <1>18, <2>1, <2>2, <3>2, <3>3
  <2> QED BY <1>1, <1>5, <2>3, <2>4
<1>20. Len(one) >= limit - 1 \/ kin \subseteq Members(one)
  <2>1. CASE Cardinality(kind) <= limit
    <3>1. first \ {self} = kin
      BY <1>3, <2>1
    <3>2. Cardinality(kin) <= limit
      <4>1. Cardinality(kin) <= Cardinality(kind) /\ Cardinality(kin) \in Nat
        BY <1>3, OneLess
      <4> HIDE DEF kin, kind
      <4> QED BY <1>1, <1>3, <2>1, <4>1
    <3> HIDE DEF kin
    <3> QED BY <1>12, <3>1, <3>2
  <2>2. CASE Cardinality(kind) > limit
    <3>1. Cardinality(first) = limit
      BY <1>3, <2>2
    <3>2. Cardinality(first \ {self}) >= limit - 1
      BY <1>3, <3>1, OneLess
    <3> QED BY <1>1, <1>12, <3>2
  <2> HIDE DEF kind
  <2> QED BY <1>1, <1>3, <2>1, <2>2
<1>21. \A i \in 1 .. Len(one) : list[i] \in kin
  BY <1>3, <1>12, <1>15
<1>22. \A i \in DOMAIN list : \A j \in 1 .. i : list[i] \in kin => list[j] \in kin
  <2> SUFFICES ASSUME NEW i \in 1 .. Len(list), NEW j \in 1 .. i, list[i] \in kin PROVE list[j] \in kin
    BY <1>16
  <2> HIDE DEF kin
  <2>1. CASE j = i
    BY <2>1
  <2>2. CASE j < i /\ Len(one) >= limit - 1
    <3>1. j \in 1 .. Len(one)
      BY <1>1, <1>14, <2>2
    <3> QED BY <1>21, <3>1
  <2>3. CASE j < i /\ kin \subseteq Members(one)
    <3>1. Members(one) = { one[k] : k \in 1 .. Len(one) }
      BY <1>7, ListCounts DEF Fits
    <3>2. PICK k \in 1 .. Len(one) : one[k] = list[i]
      BY <2>3, <3>1
    <3>3. k \in 1 .. Len(list) /\ list[k] = list[i]
      BY <1>14, <1>15, <3>2
    <3>4. k = i
      BY <1>16, <3>3
    <3>5. j \in 1 .. Len(one)
      BY <1>14, <2>3, <3>4
    <3> QED BY <1>21, <3>5
  <2> QED BY <1>14, <1>20, <2>1, <2>2, <2>3
<1>23. kin \subseteq Members(list) \/ Members(Take(list, limit - 1)) \subseteq kin
  <2>1. CASE kin \subseteq Members(one)
    <3>1. Members(one) = { one[k] : k \in 1 .. Len(one) }
      BY <1>7, ListCounts DEF Fits
    <3>2. \A k \in 1 .. Len(one) : k \in 1 .. Len(list)
      BY <1>14, <1>15
    <3>3. Members(one) \subseteq Members(list)
      BY <1>15, <1>16, <3>1, <3>2
    <3> QED BY <2>1, <3>3
  <2>2. CASE Len(one) >= limit - 1
    <3> DEFINE t == Take(list, limit - 1)
    <3>1. /\ limit - 1 \in Nat /\ list \in Seq(Visible)
      BY <1>1, <1>11 DEF Fits
    <3>2. /\ t \in Seq(Visible) /\ Len(t) = (IF limit - 1 < Len(list) THEN limit - 1 ELSE Len(list))
          /\ \A i \in 1 .. Len(t) : t[i] = list[i]
      BY <3>1, SomeFirst
    <3> HIDE DEF t, kin
    <3>3. DOMAIN t = 1 .. Len(t) /\ \A i \in 1 .. Len(t) : i \in 1 .. Len(one)
      BY <1>1, <1>14, <2>2, <3>2
    <3> QED BY <1>21, <3>2, <3>3 DEF Members, t
  <2> QED BY <1>20, <2>1, <2>2
<1> QED BY <1>13, <1>16, <1>19, <1>22, <1>23


-----------------------------------------------------------------------------
(* Pages of the catalogue. *)

\* As many attributes as asked for are all of them: whether a set of values has
\* one of each attribute can be counted.
LEMMA CountingFits ==
  ASSUME NEW values \in SUBSET Options, NEW has
  PROVE  HasAll(has, values) <=> \A v \in values : \E w \in has \cap values : FeatureOf[w] = FeatureOf[v]
<1> DEFINE A == { FeatureOf[v] : v \in has \cap values }
           B == { FeatureOf[v] : v \in values }
<1>1. A \subseteq B /\ B \in SUBSET Features
  BY StorefrontAssumption
<1>2. HasAll(has, values) <=> Cardinality(A) = Cardinality(B)
  BY DEF HasAll
<1>3. Cardinality(A) = Cardinality(B) <=> A = B
  <2> HIDE DEF A, B
  <2>1. IsFiniteSet(B)
    BY <1>1, StorefrontAssumption, FS_Subset
  <2> QED BY <1>1, <2>1, FS_Subset
<1>4. A = B <=> B \subseteq A
  BY <1>1
<1>5. B \subseteq A <=> \A v \in values : \E w \in has \cap values : FeatureOf[w] = FeatureOf[v]
  OBVIOUS
<1> QED BY <1>2, <1>3, <1>4, <1>5

\* The same of one value.
LEMMA CountingOne ==
  ASSUME NEW v, NEW has, v \in has
  PROVE  HasAll(has, {v})
<1>1. has \cap {v} = {v}
  OBVIOUS
<1> QED BY <1>1, Zenon DEF HasAll

LEMMA ListedHas ==
  ASSUME goods \in Seq(Good), NEW q
  PROVE  Members(Listed(q)) = { i \in DOMAIN goods : Filtered(goods[i], q) }
<1> DEFINE S == { i \in DOMAIN goods : Filtered(goods[i], q) }
<1>1. S \in SUBSET (1 .. Len(goods)) /\ 1 .. Len(goods) \subseteq Nat /\ Len(goods) \in Nat
  OBVIOUS
<1>2. IsFiniteSet(1 .. Len(goods))
  BY <1>1, FS_Interval
<1> HIDE DEF S
<1>3. IsFiniteSet(S) /\ S \subseteq Nat
  BY <1>1, <1>2, FS_Subset
<1>4. Members(NewestFirst(S)) = S
  BY <1>3, NewestFirstLists
<1> QED BY <1>4 DEF Listed, S

\* What is listed is what was asked for, but for the specifications.
LEMMA ListedRightly ==
  ASSUME goods \in Seq(Good), NEW q \in Questions
  PROVE  LET values == ValidFilter(q.values)
             listed == Members(Listed(q))
             right == { i \in DOMAIN goods : Where(goods[i], q)
                          /\ (values # {} => Offers(goods[i], values)) }
         IN  /\ right \subseteq listed
             /\ \A i \in listed \ right : values # {} /\ Offers([goods[i] EXCEPT !.variants = {}], values)
<1> DEFINE values == ValidFilter(q.values)
<1>1. values \in SUBSET Options
  BY DEF Questions, Question, ValidFilter
<1>2. Members(Listed(q)) = { i \in DOMAIN goods : Filtered(goods[i], q) }
  BY ListedHas
<1> HIDE DEF values
<1>3. ASSUME NEW i \in DOMAIN goods
      PROVE  /\ Offers(goods[i], values) <=>
                  (\E has \in goods[i].variants : HasAll(has, values)) \/ HasAll(goods[i].specs, values)
             /\ HasAll(goods[i].specs, values) => Offers([goods[i] EXCEPT !.variants = {}], values)
  <2>1. goods[i] \in Good
    OBVIOUS
  <2>2. /\ [goods[i] EXCEPT !.variants = {}].specs = goods[i].specs
        /\ [goods[i] EXCEPT !.variants = {}].variants = {}
    BY <2>1 DEF Good
  <2>3. \A has : HasAll(has, values) <=>
          \A v \in values : \E w \in has \cap values : FeatureOf[w] = FeatureOf[v]
    BY <1>1, CountingFits
  <2>4. ASSUME NEW g
        PROVE  Offers(g, values) <=> \E has \in g.variants \cup {g.specs} : HasAll(has, values)
    BY <2>3, Zenon DEF Offers
  <2>5. Offers(goods[i], values) <=> \E has \in goods[i].variants \cup {goods[i].specs} : HasAll(has, values)
    BY <2>4
  <2>6. Offers([goods[i] EXCEPT !.variants = {}], values) <=>
          \E has \in {} \cup {goods[i].specs} : HasAll(has, values)
    BY <2>2, <2>4, Zenon
  <2> QED BY <2>5, <2>6
<1>4. ASSUME NEW i \in DOMAIN goods
      PROVE  Filtered(goods[i], q) <=>
               IF values = {} THEN Where(goods[i], q)
               ELSE \/ Where(goods[i], q) /\ \E has \in goods[i].variants : HasAll(has, values)
                    \/ HasAll(goods[i].specs, values)
  BY DEF Filtered, values
<1> QED
  <2> DEFINE right == { i \in DOMAIN goods : Where(goods[i], q)
                          /\ (values # {} => Offers(goods[i], values)) }
  <2>1. right \subseteq Members(Listed(q))
    BY <1>2, <1>3, <1>4
  <2>2. \A i \in Members(Listed(q)) \ right :
          values # {} /\ Offers([goods[i] EXCEPT !.variants = {}], values)
    BY <1>2, <1>3, <1>4
  <2> QED BY <2>1, <2>2 DEF values


\* Where a value that is offered leads to: a product that is hidden, or of the
\* parent of the category, or listed when one asks for nothing but that value.
LeadsSomewhere(q, v) == \E i \in DOMAIN goods :
  /\ v \in goods[i].specs \cup UNION goods[i].variants
  /\ \/ ~goods[i].visible
     \/ q.page = "category" /\ goods[i].node = ParentNode[q.on]
     \/ Filtered(goods[i], [q EXCEPT !.values = {v}, !.makers = {}, !.marks = {},
                            !.min = 0, !.max = goods[i].price])

LEMMA ActiveLeads ==
  ASSUME goods \in Seq(Good), NEW q \in Questions, NEW i \in DOMAIN goods, goods[i].active,
         NEW v \in goods[i].specs \cup UNION goods[i].variants,
         q.page = "category" => goods[i].node \in ExtractCategoryIds(q.on, TRUE),
         q.page = "brand" => goods[i].maker = q.on
  PROVE  LeadsSomewhere(q, v)
<1> DEFINE p == [q EXCEPT !.values = {v}, !.makers = {}, !.marks = {}, !.min = 0, !.max = goods[i].price]
           g == goods[i]
<1>1. g \in Good
  OBVIOUS
<1>2. /\ p.page = q.page /\ p.on = q.on /\ p.values = {v} /\ p.makers = {} /\ p.marks = {}
      /\ p.min = 0 /\ p.max = g.price
  BY DEF Questions, Question
<1>3. g.price \in Nat
  BY <1>1, StorefrontAssumption DEF Good
<1>4. ASSUME g.visible, q.page = "category" => g.node # ParentNode[q.on] PROVE Where(g, p)
  <2>1. q.page = "category" => g.node \in ExtractCategoryIds(q.on, FALSE)
    BY <1>4 DEF ExtractCategoryIds
  <2> HIDE DEF p
  <2>2. p.min <= g.price /\ g.price <= p.max /\ p.marks \subseteq g.marks
    BY <1>2, <1>3
  <2> QED BY <1>2, <1>4, <2>1, <2>2 DEF Where
<1>5. v \in g.specs \/ \E has \in g.variants : v \in has
  OBVIOUS
<1>6. ASSUME Where(g, p) PROVE Filtered(g, p)
  <2>1. ValidFilter(p.values) = {} \/ ValidFilter(p.values) = {v}
    BY <1>2 DEF ValidFilter
  <2> HIDE DEF p, g
  <2>2. CASE ValidFilter(p.values) = {}
    BY <1>6, <2>2 DEF Filtered
  <2>3. CASE ValidFilter(p.values) = {v}
    <3>1. HasAll(g.specs, {v}) \/ \E has \in g.variants : HasAll(has, {v})
      BY <1>5, CountingOne
    <3> QED BY <1>6, <2>3, <3>1 DEF Filtered
  <2> QED BY <2>1, <2>2, <2>3
<1> HIDE DEF p
<1>7. ~g.visible \/ (q.page = "category" /\ g.node = ParentNode[q.on]) \/ Filtered(g, p)
  BY <1>4, <1>6
<1> QED BY <1>7, Zenon DEF LeadsSomewhere, p

\* Every filter comes from a product that is active there.
LEMMA OffersLead ==
  ASSUME goods \in Seq(Good), NEW q \in Questions
  PROVE  /\ q.page = "category" => \A v \in BuildFilters(q.on).values : LeadsSomewhere(q, v)
         /\ q.page = "all" => \A v \in BuildFiltersForAllProducts.values : LeadsSomewhere(q, v)
         /\ q.page = "brand" => \A v \in BuildFiltersForBrand(q.on).values : LeadsSomewhere(q, v)
<1>1. ASSUME q.page = "category", NEW v \in BuildFilters(q.on).values PROVE LeadsSomewhere(q, v)
  <2>1. PICK i \in DOMAIN goods :
          /\ goods[i].active /\ goods[i].node \in ExtractCategoryIds(q.on, TRUE)
          /\ v \in goods[i].specs \cup UNION goods[i].variants
    BY <1>1 DEF BuildFilters
  <2> QED BY <1>1, <2>1, ActiveLeads
<1>2. ASSUME q.page = "all", NEW v \in BuildFiltersForAllProducts.values PROVE LeadsSomewhere(q, v)
  <2>1. PICK i \in DOMAIN goods :
          goods[i].active /\ v \in goods[i].specs \cup UNION goods[i].variants
    BY <1>2 DEF BuildFiltersForAllProducts
  <2> QED BY <1>2, <2>1, ActiveLeads
<1>3. ASSUME q.page = "brand", NEW v \in BuildFiltersForBrand(q.on).values PROVE LeadsSomewhere(q, v)
  <2>1. PICK i \in DOMAIN goods :
          /\ goods[i].active /\ goods[i].maker = q.on
          /\ v \in goods[i].specs \cup UNION goods[i].variants
    BY <1>3 DEF BuildFiltersForBrand
  <2> QED BY <1>3, <2>1, ActiveLeads
<1> QED BY <1>1, <1>2, <1>3

-----------------------------------------------------------------------------
\* An answer is about the rows as they are: no request changes them.
PagesInv == StorefrontTypeOK /\ PagesSound

LEMMA PagesInit ==
  ASSUME NEW stock \in Seq(Good), NEW features \in [Nodes -> SUBSET Features],
         StorefrontInit(stock, features)
  PROVE  PagesInv
<1>1. asked = NoQuery /\ goods \in Seq(Good) /\ offeredIn \in [Nodes -> SUBSET Features]
  BY DEF StorefrontInit
<1>2. asked.page = "none"
  BY <1>1 DEF NoQuery
<1>3. PagesSound
  BY <1>2 DEF PagesSound, ListsWhatIsAsked, SimilarIsFull
<1> QED BY <1>1, <1>3 DEF PagesInv, StorefrontTypeOK

\* The pages of the catalogue.
LEMMA CatalogueAnswers ==
  ASSUME StorefrontTypeOK, NEW q \in Questions, AsksCatalogue(q)
  PROVE  PagesInv'
<1>1. /\ goods' = goods /\ offeredIn' = offeredIn /\ asked' = q /\ goods \in Seq(Good)
      /\ answer'.list = Listed(q)
      /\ q.page \in {"category", "brand", "all"}
      /\ q.page = "category" => answer'.filters = BuildFilters(q.on)
      /\ q.page = "all" => answer'.filters = BuildFiltersForAllProducts
      /\ q.page = "brand" => answer'.filters = BuildFiltersForBrand(q.on)
  BY DEF AsksCatalogue, GetProductsByCategory, GetAllProducts, GetProductsByBrand, Answers, StorefrontTypeOK
<1>2. StorefrontTypeOK'
  BY <1>1 DEF StorefrontTypeOK
<1>3. \A v \in answer'.filters.values : LeadsSomewhere(q, v)
  BY <1>1, OffersLead
<1>4. ListsWhatIsAsked'
  <2> DEFINE values == ValidFilter(q.values)
             listed == Members(answer'.list)
             right == { i \in DOMAIN goods : Where(goods[i], q)
                          /\ (values # {} => Offers(goods[i], values)) }
  <2>1. listed = Members(Listed(q))
    BY <1>1
  <2>2. right \subseteq listed /\ \A i \in listed \ right :
           values # {} /\ Offers([goods[i] EXCEPT !.variants = {}], values)
    BY <1>1, <2>1, ListedRightly
  <2> QED BY <1>1, <1>3, <2>2, Zenon DEF ListsWhatIsAsked, LeadsSomewhere, Filtered
<1>5. SimilarIsFull'
  BY <1>1 DEF SimilarIsFull
<1> QED BY <1>2, <1>4, <1>5 DEF PagesInv, PagesSound

\* The similar products of a product page.
LEMMA SimilarAnswers ==
  ASSUME StorefrontTypeOK, NEW self \in DOMAIN goods, NEW limit \in Nat \ {0},
         GetSimilarProducts(self, limit)
  PROVE  PagesInv'
<1>1. /\ goods' = goods /\ offeredIn' = offeredIn /\ goods \in Seq(Good)
      /\ asked' = [page |-> "similar", on |-> self, limit |-> limit]
      /\ answer' = [list |-> SimilarProducts(self, limit)]
  BY DEF GetSimilarProducts, Answers, StorefrontTypeOK
<1>2. asked'.page = "similar" /\ asked'.on = self /\ asked'.limit = limit
  BY <1>1
<1>3. answer'.list = SimilarProducts(self, limit)
  BY <1>1
<1>4. StorefrontTypeOK'
  BY <1>1 DEF StorefrontTypeOK, SimilarQuestions
<1>5. /\ Visible' = Visible /\ SameCategory(self)' = SameCategory(self) /\ SameBrand(self)' = SameBrand(self)
  BY <1>1 DEF Visible, SameCategory, SameBrand
<1>6. SimilarIsFull'
  <2> DEFINE Full(wares, place, most, list) ==
        LET shown == { i \in DOMAIN wares : wares[i].visible }
            others == shown \ {place}
            kin == ({ i \in shown : wares[i].node = wares[place].node } \cap
                    { i \in shown : wares[i].maker = wares[place].maker /\ wares[place].maker # NoMaker }) \ {place}
        IN  /\ Members(list) \subseteq others
            /\ Cardinality(Members(list)) = Len(list)
            /\ Len(list) = IF Cardinality(others) < most THEN Cardinality(others) ELSE most
            /\ \A i \in DOMAIN list : \A j \in 1 .. i : list[i] \in kin => list[j] \in kin
            /\ kin \subseteq Members(list) \/ Members(Take(list, most - 1)) \subseteq kin
  <2>1. Full(goods, self, limit, SimilarProducts(self, limit))
    BY <1>1, SimilarFilled, Zenon DEF Visible, SameCategory, SameBrand
  <2>2. Full(goods, asked.on, asked.limit, answer.list)' => SimilarIsFull'
    BY Zenon DEF SimilarIsFull, Visible, SameCategory, SameBrand
  <2> HIDE DEF Full
  <2>3. Full(goods', asked'.on, asked'.limit, answer'.list)
    BY <1>1, <1>2, <1>3, <2>1, Zenon
  <2> QED BY <2>2, <2>3 DEF Full
<1>7. ListsWhatIsAsked'
  <2>1. asked'.page \notin {"category", "brand", "all"}
    BY <1>2
  <2> QED BY <2>1, Zenon DEF ListsWhatIsAsked
<1> QED BY <1>4, <1>6, <1>7 DEF PagesInv, PagesSound


LEMMA PagesNext == PagesInv /\ [StorefrontNext]_storefrontVars => PagesInv'
<1> SUFFICES ASSUME PagesInv, [StorefrontNext]_storefrontVars PROVE PagesInv'
  OBVIOUS
<1>1. StorefrontTypeOK
  BY DEF PagesInv
<1>2. ASSUME NEW q \in Questions, AsksCatalogue(q) PROVE PagesInv'
  BY <1>1, <1>2, CatalogueAnswers
<1>3. ASSUME NEW self \in DOMAIN goods, NEW limit \in Nat \ {0}, GetSimilarProducts(self, limit) PROVE PagesInv'
  BY <1>1, <1>3, SimilarAnswers
<1>4. CASE UNCHANGED storefrontVars
  <2>1. goods' = goods /\ offeredIn' = offeredIn /\ asked' = asked /\ answer' = answer
    BY <1>4 DEF storefrontVars
  <2>2. StorefrontTypeOK'
    BY <1>1, <2>1 DEF StorefrontTypeOK, SimilarQuestions
  <2>3. ListsWhatIsAsked => ListsWhatIsAsked'
    <3> DEFINE Right(wares, q, result) == q.page \in {"category", "brand", "all"} =>
          LET values == ValidFilter(q.values)
              listed == Members(result.list)
              right == { i \in DOMAIN wares : Where(wares[i], q) /\ (values # {} => Offers(wares[i], values)) }
          IN  /\ right \subseteq listed
              /\ \A i \in listed \ right : values # {} /\ Offers([wares[i] EXCEPT !.variants = {}], values)
              /\ \A v \in result.filters.values :
                   \E i \in DOMAIN wares :
                     /\ v \in wares[i].specs \cup UNION wares[i].variants
                     /\ \/ ~wares[i].visible
                        \/ q.page = "category" /\ wares[i].node = ParentNode[q.on]
                        \/ Filtered(wares[i], [q EXCEPT !.values = {v}, !.makers = {}, !.marks = {},
                                              !.min = 0, !.max = wares[i].price])
    <3>1. ListsWhatIsAsked => Right(goods, asked, answer)
      BY Zenon DEF ListsWhatIsAsked
    <3>2. Right(goods, asked, answer)' => ListsWhatIsAsked'
      BY Zenon DEF ListsWhatIsAsked
    <3> HIDE DEF Right
    <3>3. Right(goods, asked, answer) => Right(goods', asked', answer')
      BY <2>1, Zenon
    <3> QED BY <3>1, <3>2, <3>3 DEF Right
  <2>4. SimilarIsFull => SimilarIsFull'
    BY <2>1 DEF SimilarIsFull, Visible, SameCategory, SameBrand
  <2> QED BY <2>2, <2>3, <2>4 DEF PagesInv, PagesSound
<1> QED BY <1>2, <1>3, <1>4 DEF StorefrontNext

LEMMA PagesAlways == StorefrontSpec => []PagesInv
<1>1. (\E stock \in Seq(Good), features \in [Nodes -> SUBSET Features] : StorefrontInit(stock, features))
        => PagesInv
  BY PagesInit
<1> QED BY <1>1, PagesNext, PTL DEF StorefrontSpec

\* Queries and products keep their types: no page of the catalogue writes.
THEOREM StorefrontTyping == StorefrontSpec => []StorefrontTypeOK
<1>1. PagesInv => StorefrontTypeOK
  BY DEF PagesInv
<1> QED BY <1>1, PagesAlways, PTL

\* For any catalogue and query, a page lists every product that it should and no
\* other but by the specifications (the conditions `applyAttributeFilter` joins),
\* a filter it offers leads to a product, and the similar products are as many
\* as there are, with those of the same category and brand in front
\* (`findSimilarProducts`).
THEOREM PagesRight == StorefrontSpec => []PagesSound
<1>1. PagesInv => PagesSound
  BY DEF PagesInv
<1> QED BY <1>1, PagesAlways, PTL

=============================================================================
