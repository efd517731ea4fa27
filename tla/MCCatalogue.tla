----------------------------- MODULE MCCatalogue ------------------------------
(***************************************************************************)
(* Caches on small instances.  team says whose requests are made: those    *)
(* about products, categories or orders.                                   *)
(***************************************************************************)
EXTENDS WatchedCaches, TLC

CONSTANTS
  p1, p2, g1, g2, o1, o2, u1, r1, r2,
  MaxRequests    \* bound: how many requests are made

VARIABLES team, served

MCOrderUser == (o1 :> u1) @@ (o2 :> u1)

Known == CASE team = "products" -> ProductKeys \cup CatalogKeys
           [] team = "categories" -> CategoryKeys \cup CatalogKeys
           [] team = "orders" -> OrderKeys

\* Everything exists, or all but one row that can be created.
Begun == CASE team = "products" -> {AllProducts \cup AllCategories, {Product(p1)} \cup AllCategories}
           [] team = "categories" -> {AllProducts \cup AllCategories, AllProducts \cup {Category(g1)}}
           [] team = "orders" -> {{Order(o1), Order(o2)}, {Order(o1)}}

CatalogueInit ==
  /\ team \in {"products", "categories", "orders"} /\ served = 0 /\ excused = {}
  /\ \E rows \in Begun :
       \E warm \in {{}} \cup { {k} : k \in { x \in Known : Subject(x) \subseteq rows } } : InitWith(rows, warm)

Asks(c) ==
  /\ served < MaxRequests /\ served' = served + 1
  /\ \/ \E k \in Known : Misses(c, k) \/ AlwaysFills(c, k)
     \/ team = "products" /\ ProductRequests(c)
     \/ team = "categories" /\ CategoryRequests(c)
     \/ team = "orders" /\ OrderRequests(c)
     \/ ClearsAll(c)

CatalogueNext ==
  /\ \/ \E c \in Callers : Asks(c) \/ (Continues(c) /\ UNCHANGED served)
     \/ (\E k \in Known : Expires(k)) /\ UNCHANGED served
  /\ UNCHANGED team
  /\ Excuses

CatalogueSpec == CatalogueInit /\ [][CatalogueNext]_<< vars, team, served, excused >> /\ Fairness

=============================================================================
