------------------------------- MODULE Caches -------------------------------
(***************************************************************************)
(* The Redis caches of products, of the catalogue's search, of categories  *)
(* and of orders, and every operation of their modules that changes what   *)
(* they show.                                                              *)
(*                                                                         *)
(* A reader gets a key; on a miss it reads the database, statement by      *)
(* statement, and sets the key.  A writer commits and removes keys, some   *)
(* after the commit, many before it, inside the transaction.  Each of      *)
(* these is a step of its own: the code awaits MySQL and Redis in between. *)
(* Data are abstracted to versions: stored counts the commits of a row, an *)
(* entry holds the versions it was made of.                                *)
(***************************************************************************)
EXTENDS Naturals, Sequences, FiniteSets

CONSTANTS
  Products,      \* product ids; a product stands for its variants and attribute values too
  Categories,    \* category ids
  Orders,        \* order ids
  Users,         \* customers
  OrderUser,     \* the customer of each order
  Callers        \* requests in progress at once

ASSUME CachesAssumption == OrderUser \in [Orders -> Users]

Product(p) == << "product", p >>
Reviews(p) == << "reviews", p >>
Category(c) == << "category", c >>
Order(o) == << "order", o >>
Attributes == << "attributes", 0 >>
Brands == << "brands", 0 >>
AllProducts == { Product(p) : p \in Products }
AllCategories == { Category(c) : c \in Categories }
Rows == AllProducts \cup { Reviews(p) : p \in Products } \cup AllCategories
          \cup { Order(o) : o \in Orders } \cup {Attributes, Brands}

-----------------------------------------------------------------------------
\* The keys that some caller fills.  The services have accessors for more
\* families (slugs, featured, new, related, ...): nobody sets those.

ProductById(p) == << "product", "id", p >>
ProductSimilar(p) == << "product", "similar", p >>
ProductList == << "product", "list", 0 >>
SearchResults == << "catalog", "search", 0 >>
SearchSuggestions == << "catalog", "suggest", 0 >>
CategoryBySlug(c) == << "category", "slug", c >>
CategoryWithProducts(c) == << "category", "products", c >>
CategoryTree == << "category", "tree", 0 >>
\* findAllTree looks for a key that ends in the search and sets one that does not.
CategoryTreePage == << "category", "page", 0 >>
AdminOrderList == << "order", "list", 0 >>
UserOrderList(u) == << "order", "user", u >>
OrderDetail(o) == << "order", "detail", o >>

ProductKeys == { ProductById(p) : p \in Products } \cup { ProductSimilar(p) : p \in Products }
                 \cup {ProductList}
CatalogKeys == {SearchResults, SearchSuggestions}
CategoryKeys == { CategoryBySlug(c) : c \in Categories }
                  \cup { CategoryWithProducts(c) : c \in Categories }
                  \cup {CategoryTree, CategoryTreePage}
OrderKeys == { UserOrderList(u) : u \in Users } \cup { OrderDetail(o) : o \in Orders }
               \cup {AdminOrderList}
Keys == ProductKeys \cup CatalogKeys \cup CategoryKeys \cup OrderKeys

\* The rows each statement of a reader selects, in the order of the statements.
Shown == AllProducts \cup AllCategories \cup {Attributes, Brands}
OrdersOf(u) == { Order(o) : o \in { x \in Orders : OrderUser[x] = u } }

FindOneForSite(p) == << {Product(p), Attributes, Brands} \cup AllCategories, {Reviews(p)} >>
FindSimilarProducts(p) == << {Product(p)} \cup AllCategories \cup {Brands}, Shown >>
FindAllProducts == << Shown >>
SearchAll == << AllProducts \cup {Brands} \cup AllCategories, {Brands}, AllCategories >>
GetSuggestions == << AllProducts >>
FindOneSlug(c) == << {Category(c)}, AllCategories >>
FindByIdWithDescendants(c) == << {Category(c)}, AllCategories \cup AllProducts >>
FindAllTreeForSite == << AllCategories >>
FindAllTree == << AllCategories >>
FindAllByUser(u) == << OrdersOf(u) >>
FindOneById(o) == << {Order(o)} >>
GetAllOrders == << { Order(o) : o \in Orders } >>

ReadPlan(k) ==
  CASE k[2] = "id" -> FindOneForSite(k[3])
    [] k[2] = "similar" -> FindSimilarProducts(k[3])
    [] k = ProductList -> FindAllProducts
    [] k = SearchResults -> SearchAll
    [] k = SearchSuggestions -> GetSuggestions
    [] k[2] = "slug" -> FindOneSlug(k[3])
    [] k[2] = "products" -> FindByIdWithDescendants(k[3])
    [] k = CategoryTree -> FindAllTreeForSite
    [] k = CategoryTreePage -> FindAllTree
    [] k[2] = "user" -> FindAllByUser(k[3])
    [] k[2] = "detail" -> FindOneById(k[3])
    [] k = AdminOrderList -> GetAllOrders

Sources(k) == UNION { ReadPlan(k)[i] : i \in DOMAIN ReadPlan(k) }

\* A row whose absence ends the reader with a NotFoundException.
Subject(k) == IF k[2] \in {"id", "similar"} THEN {Product(k[3])}
              ELSE IF k[2] \in {"slug", "products"} THEN {Category(k[3])}
              ELSE IF k[2] = "detail" THEN {Order(k[3])}
              ELSE {}

-----------------------------------------------------------------------------
\* What the clearing methods of the cache services remove.

\* Mutant of ProductLists: the pattern of the similar products is left out.
ProductListsOnly == { k \in ProductKeys : k[2] = "list" }

\* clearListCaches: the families whose pattern is in its list; "id" is not.
ProductLists == { k \in ProductKeys : k[2] \in {"list", "similar"} }
ClearProductCache(p) == {ProductById(p)} \cup ProductLists
ClearAllProductCache == ProductKeys
ClearAllCatalogCache == CatalogKeys
ClearAllCategoryCache == CategoryKeys
\* clearCategoryCache removes the keys of the category and then all of them.
ClearCategoryCache(c) == {CategoryBySlug(c), CategoryWithProducts(c)} \cup CategoryKeys
ClearUserOrderCache(u) == {UserOrderList(u)}
ClearAdminListCache == {AdminOrderList}
ClearCacheAfterCreate(u) == ClearUserOrderCache(u) \cup ClearAdminListCache
ClearCacheAfterStatusChange(o) ==
  {OrderDetail(o)} \cup ClearUserOrderCache(OrderUser[o]) \cup ClearAdminListCache
ClearAllOrderCache == OrderKeys

-----------------------------------------------------------------------------
VARIABLES
  stored,        \* how often each row has been committed
  live,          \* the rows that exist
  entry,         \* the cache: for each key the versions its value was made of
  request        \* what each caller is doing

vars == << stored, live, entry, request >>

NoEntry == << >>
Idle == [op |-> "idle"]

\* Some rows exist already, and some keys hold what readers made of them.
InitWith(rows, warm) ==
  /\ stored = [r \in Rows |-> 0]
  /\ live = rows \cup {Attributes, Brands} \cup { Reviews(p) : p \in Products }
  /\ entry = [k \in Keys |-> IF k \in warm THEN [r \in Sources(k) |-> 0] ELSE NoEntry]
  /\ request = [c \in Callers |-> Idle]

Init ==
  \E rows \in SUBSET Rows :
    \E warm \in SUBSET { k \in Keys : Subject(k) \subseteq rows } : InitWith(rows, warm)

\* A get that misses.  What a hit returns is the entry: it changes nothing.
Misses(c, k) ==
  /\ request[c] = Idle
  /\ entry[k] = NoEntry
  /\ request' = [request EXCEPT ![c] = [op |-> "read", key |-> k, at |-> 1, seen |-> NoEntry]]
  /\ UNCHANGED << stored, live, entry >>

\* The readers whose get is commented out, or asks for a key nobody sets, fill
\* the key each time.
AlwaysFills(c, k) ==
  /\ request[c] = Idle
  /\ k \in {ProductList, AdminOrderList, CategoryTreePage}
  /\ entry[k] # NoEntry
  /\ request' = [request EXCEPT ![c] = [op |-> "read", key |-> k, at |-> 1, seen |-> NoEntry]]
  /\ UNCHANGED << stored, live, entry >>

\* Mutant of Selects: what a transaction in progress will commit is read too.
SelectsUncommitted(c) ==
  /\ request[c].op = "read"
  /\ request[c].at \in DOMAIN ReadPlan(request[c].key)
  /\ LET rows == ReadPlan(request[c].key)[request[c].at]
         seen == request[c].seen
         Dirty(r) == \E d \in Callers : request[d].op = "write" /\ r \in Head(request[d].todo).on
     IN  request' = [request EXCEPT
           ![c].at = @ + 1,
           ![c].seen = [r \in DOMAIN seen \cup rows |->
              IF r \notin rows THEN seen[r] ELSE IF Dirty(r) THEN stored[r] + 1 ELSE stored[r]]]
  /\ Subject(request[c].key) \subseteq live
  /\ UNCHANGED << stored, live, entry >>

\* The next statement of a reader.  A later statement that selects a row again
\* replaces what the value shows of it.
Selects(c) ==
  /\ request[c].op = "read"
  /\ request[c].at \in DOMAIN ReadPlan(request[c].key)
  /\ LET rows == ReadPlan(request[c].key)[request[c].at]
         seen == request[c].seen
     IN  request' = [request EXCEPT
           ![c].at = @ + 1,
           ![c].seen = [r \in DOMAIN seen \cup rows |-> IF r \in rows THEN stored[r] ELSE seen[r]]]
  /\ Subject(request[c].key) \subseteq live
  /\ UNCHANGED << stored, live, entry >>

NotFound(c) ==
  /\ request[c].op = "read"
  /\ ~(Subject(request[c].key) \subseteq live)
  /\ request' = [request EXCEPT ![c] = Idle]
  /\ UNCHANGED << stored, live, entry >>

\* Mutant of Sets: what is there is set before the last statement has run.
SetsEarly(c) ==
  /\ request[c].op = "read" /\ request[c].seen # NoEntry
  /\ entry' \in {entry, [entry EXCEPT ![request[c].key] = request[c].seen]}
  /\ request' = [request EXCEPT ![c] = Idle]
  /\ UNCHANGED << stored, live >>

\* The set that ends a reader; its error is swallowed, so it may not happen.
Sets(c) ==
  /\ request[c].op = "read"
  /\ request[c].at \notin DOMAIN ReadPlan(request[c].key)
  /\ entry' \in {entry, [entry EXCEPT ![request[c].key] = request[c].seen]}
  /\ request' = [request EXCEPT ![c] = Idle]
  /\ UNCHANGED << stored, live >>

\* Redis removes an entry when its time to live is over.
Expires(k) ==
  /\ entry[k] # NoEntry
  /\ entry' = [entry EXCEPT ![k] = NoEntry]
  /\ UNCHANGED << stored, live, request >>

-----------------------------------------------------------------------------
\* Writers.  A request to write is the list of the steps it has still to take;
\* misses are the keys that show the rows and that the code does not clear.

Insert(rows) == [do |-> "insert", on |-> rows]
Update(rows) == [do |-> "update", on |-> rows]
Delete(rows) == [do |-> "delete", on |-> rows]
Clear(keys) == [do |-> "clear", on |-> keys]

Starts(c, steps, misses) ==
  /\ request[c] = Idle
  /\ request' = [request EXCEPT ![c] = [op |-> "write", todo |-> steps, misses |-> misses]]
  /\ UNCHANGED << stored, live, entry >>

Step(c) == Head(request[c].todo)

Proceeds(c) ==
  LET todo == request[c].todo IN
    request' = [request EXCEPT
      ![c] = IF Len(todo) = 1 THEN Idle ELSE [request[c] EXCEPT !.todo = Tail(todo)]]

\* A transaction, or a save on its own, takes effect.
Commits(c) ==
  /\ request[c].op = "write"
  /\ Step(c).do \in {"insert", "update", "delete"}
  /\ stored' = [r \in Rows |-> IF r \in Step(c).on THEN stored[r] + 1 ELSE stored[r]]
  /\ live' = IF Step(c).do = "delete" THEN live \ Step(c).on
             ELSE IF Step(c).do = "insert" THEN live \cup Step(c).on
             ELSE live
  /\ Proceeds(c)
  /\ UNCHANGED entry

\* The keys of the pattern are listed and deleted.
Clears(c) ==
  /\ request[c].op = "write"
  /\ Step(c).do = "clear"
  /\ entry' = [k \in Keys |-> IF k \in Step(c).on THEN NoEntry ELSE entry[k]]
  /\ Proceeds(c)
  /\ UNCHANGED << stored, live >>

\* Redis does not answer: RedisHelper logs the error and reports 0 keys.
ClearFails(c) ==
  /\ request[c].op = "write"
  /\ Step(c).do = "clear"
  /\ Proceeds(c)
  /\ UNCHANGED << stored, live, entry >>

\* An exception or a crash: what is not committed is rolled back.
Aborts(c) ==
  /\ request[c].op = "write"
  /\ request' = [request EXCEPT ![c] = Idle]
  /\ UNCHANGED << stored, live, entry >>

\* The row is there, or is not yet, when the handler looks for it.
Exist(rows) == rows # {} /\ rows \subseteq live
Unborn(r) == r \notin live /\ stored[r] = 0

-----------------------------------------------------------------------------
\* Products

CreateProduct(c, p) ==
  /\ Unborn(Product(p))
  /\ Starts(c, << Insert({Product(p)}), Clear(ProductLists), Clear(ClearAllCatalogCache) >>,
            CategoryKeys)

UpdateProduct(c, p) ==
  /\ Exist({Product(p)})
  /\ Starts(c, << Update({Product(p)}), Clear(ClearProductCache(p)), Clear(ClearAllCatalogCache) >>,
            CategoryKeys)

\* updateBulk removes the lists but not the products' own keys.
UpdateBulk(c, ps) ==
  /\ Exist({ Product(p) : p \in ps })
  /\ Starts(c, << Update({ Product(p) : p \in ps }),
                  Clear(ProductLists), Clear(ClearAllCatalogCache) >>,
            { ProductById(p) : p \in ps } \cup CategoryKeys)

RemoveProduct(c, p) ==
  /\ Exist({Product(p)})
  /\ Starts(c, << Delete({Product(p)}), Clear(ClearProductCache(p)), Clear(ClearAllCatalogCache) >>,
            CategoryKeys)

\* removeBulk does not wait for the products' keys to be removed.
RemoveBulk(c, ps) ==
  /\ Exist({ Product(p) : p \in ps })
  /\ LET own == UNION { ClearProductCache(p) : p \in ps } IN
       \/ Starts(c, << Delete({ Product(p) : p \in ps }), Clear(own), Clear(ClearAllCatalogCache) >>,
                 CategoryKeys)
       \/ Starts(c, << Delete({ Product(p) : p \in ps }), Clear(ClearAllCatalogCache), Clear(own) >>,
                 CategoryKeys)

\* Variants and attribute values clear the caches inside their transaction.
ClearsInside(c, p) ==
  /\ Exist({Product(p)})
  /\ Starts(c, << Clear(ClearProductCache(p)), Clear(ClearAllCatalogCache), Update({Product(p)}) >>,
            CategoryKeys)

CreateVariants(c, p) == ClearsInside(c, p)
UpdateVariant(c, p) == ClearsInside(c, p)
RemoveVariant(c, p) == ClearsInside(c, p)
RemoveByVariant(c, p) == ClearsInside(c, p)
CreateAttributeValues(c, p) == ClearsInside(c, p)
UpdateAttributeValues(c, p) == ClearsInside(c, p)
RemoveByProductAttribute(c, p) == ClearsInside(c, p)

AddedImportant(c, p) ==
  /\ Exist({Product(p)})
  /\ Starts(c, << Update({Product(p)}), Clear(ClearProductCache(p)), Clear(ClearAllCatalogCache) >>,
            CategoryKeys)

\* remove and updateOrder of a value take its id for the id of a product: they
\* clear the key of whatever product has that id.
RemoveAttributeValue(c, p, id) ==
  /\ Exist({Product(p)})
  /\ Starts(c, << Clear(ClearProductCache(id)), Clear(ClearAllCatalogCache), Update({Product(p)}) >>,
            CategoryKeys \cup {ProductById(p)})

OrderAttributeValue(c, p, id) ==
  /\ Exist({Product(p)})
  /\ Starts(c, << Update({Product(p)}), Clear(ClearProductCache(id)), Clear(ClearAllCatalogCache) >>,
            CategoryKeys \cup {ProductById(p)})

\* Attributes, their groups and values: only updateOrder clears, for the one
\* product it is given.
ChangeAttributes(c) == Starts(c, << Update({Attributes}) >>, ProductKeys)

OrderAttributes(c, p) ==
  Starts(c, << Update({Attributes}), Clear(ClearProductCache(p)), Clear(ClearAllCatalogCache) >>,
         { ProductById(q) : q \in Products })

\* Brands clear the search but not the products that show them.
ChangeBrand(c) ==
  Starts(c, << Update({Brands}), Clear(ClearAllCatalogCache) >>, ProductKeys)

\* Reviews, their approval and promotions clear nothing.
ChangeReview(c, p) == Starts(c, << Update({Reviews(p)}) >>, {ProductById(p)})

\* A reservation of the checkout, or its return: inside its transaction, and
\* only the product's own cache.
ChangeStock(c, p) ==
  /\ Exist({Product(p)})
  /\ Starts(c, << Clear(ClearProductCache(p)), Update({Product(p)}) >>, CategoryKeys \cup CatalogKeys)

ProductRequests(c) ==
  \/ \E p \in Products :
       \/ CreateProduct(c, p) \/ UpdateProduct(c, p) \/ RemoveProduct(c, p)
       \/ CreateVariants(c, p) \/ UpdateVariant(c, p) \/ RemoveVariant(c, p)
       \/ RemoveByVariant(c, p)
       \/ CreateAttributeValues(c, p) \/ UpdateAttributeValues(c, p)
       \/ RemoveByProductAttribute(c, p) \/ AddedImportant(c, p)
       \/ \E id \in Products : RemoveAttributeValue(c, p, id) \/ OrderAttributeValue(c, p, id)
       \/ OrderAttributes(c, p) \/ ChangeReview(c, p) \/ ChangeStock(c, p)
  \/ \E ps \in SUBSET Products : UpdateBulk(c, ps) \/ RemoveBulk(c, ps)
  \/ ChangeAttributes(c) \/ ChangeBrand(c)

-----------------------------------------------------------------------------
\* Categories

CreateCategory(c, g) ==
  /\ Unborn(Category(g))
  /\ Starts(c, << Insert({Category(g)}), Clear(ClearAllCategoryCache), Clear(ClearAllCatalogCache) >>,
            ProductKeys)

\* update moves the category and its descendants; it clears no search.
UpdateCategory(c, g, moved) ==
  /\ g \in moved
  /\ Exist({ Category(d) : d \in moved })
  /\ Starts(c, << Update({ Category(d) : d \in moved }), Clear(ClearCategoryCache(g)) >>,
            ProductKeys \cup CatalogKeys)

RemoveCategory(c, g) ==
  /\ Exist({Category(g)})
  /\ Starts(c, << Clear(ClearAllCatalogCache), Delete({Category(g)}),
                  Clear(ClearCategoryCache(g)), Clear(ClearAllCatalogCache) >>,
            ProductKeys)

CategoryRequests(c) ==
  \E g \in Categories :
    \/ CreateCategory(c, g) \/ RemoveCategory(c, g)
    \/ \E moved \in SUBSET Categories : UpdateCategory(c, g, moved)

-----------------------------------------------------------------------------
\* Orders

CreateOrder(c, o) ==
  /\ Unborn(Order(o))
  /\ Starts(c, << Clear(ClearCacheAfterCreate(OrderUser[o])), Insert({Order(o)}) >>, {})

\* confirmOrderPayment, updateStatus, updatePaymentRef, markAsDelivered,
\* cancelOrder and refundOrder.
ChangeOrder(c, o) ==
  /\ Exist({Order(o)})
  /\ Starts(c, << Clear(ClearCacheAfterStatusChange(o)), Update({Order(o)}) >>, {})

RemoveOrder(c, o) ==
  /\ Exist({Order(o)})
  /\ Starts(c, << Clear(ClearCacheAfterStatusChange(o)), Delete({Order(o)}) >>, {})

\* updateOrderStatus, for the payments: the list of the user alone.
UpdateOrderStatus(c, o) ==
  /\ Exist({Order(o)})
  /\ Starts(c, << Clear(ClearUserOrderCache(OrderUser[o])), Update({Order(o)}) >>,
            {OrderDetail(o), AdminOrderList})

\* awaitingPayment, and the jobs that expire orders, clear nothing.
AwaitsPayment(c, o) ==
  /\ Exist({Order(o)})
  /\ Starts(c, << Update({Order(o)}) >>, OrderKeys)

OrderRequests(c) ==
  \E o \in Orders :
    \/ CreateOrder(c, o) \/ ChangeOrder(c, o) \/ RemoveOrder(c, o)
    \/ UpdateOrderStatus(c, o) \/ AwaitsPayment(c, o)

-----------------------------------------------------------------------------
\* The administrator's buttons: one module, or all of them at once.
ClearsAll(c) ==
  \E keys \in {ClearAllProductCache, ClearAllCatalogCache, ClearAllCategoryCache,
               ClearAllOrderCache, Keys} :
    Starts(c, << Clear(keys) >>, {})

Continues(c) ==
  Selects(c) \/ NotFound(c) \/ Sets(c) \/ Commits(c) \/ Clears(c) \/ ClearFails(c) \/ Aborts(c)

Next ==
  \/ \E c \in Callers :
       \/ \E k \in Keys : Misses(c, k) \/ AlwaysFills(c, k)
       \/ ProductRequests(c) \/ CategoryRequests(c) \/ OrderRequests(c) \/ ClearsAll(c)
       \/ Continues(c)
  \/ \E k \in Keys : Expires(k)

Spec == Init /\ [][Next]_vars

\* Requests end, and Redis keeps its promise about the time to live.
Fairness ==
  /\ \A c \in Callers : WF_vars(Continues(c))
  /\ \A k \in Keys : WF_vars(Expires(k))

-----------------------------------------------------------------------------
CacheTypeOK ==
  /\ stored \in [Rows -> Nat]
  /\ live \subseteq Rows
  /\ DOMAIN entry = Keys
  /\ \A k \in Keys : entry[k] = NoEntry \/ entry[k] \in [Sources(k) -> Nat]
  /\ DOMAIN request = Callers

\* Entries show committed versions of their rows, and no entry stays for ever:
\* the caches implement CachedView.
View == INSTANCE CachedView
          WITH Rows <- Rows, Keys <- Keys, Sources <- Sources, stored <- stored, entry <- entry
ShowsCommitted == View!Spec

Fresh(k) == \A r \in DOMAIN entry[k] : entry[k][r] = stored[r]

\* The rows a request in progress will commit, and the keys it may leave stale.
Writing(c) == IF request[c].op # "write" THEN {} ELSE
  UNION { request[c].todo[i].on : i \in { j \in DOMAIN request[c].todo : request[c].todo[j].do # "clear" } }
Clearing(c) == IF request[c].op # "write" THEN {} ELSE
  UNION { request[c].todo[i].on : i \in { j \in DOMAIN request[c].todo : request[c].todo[j].do = "clear" } }

=============================================================================
