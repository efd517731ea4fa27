------------------------------ MODULE Registers -------------------------------
(***************************************************************************)
(* The tables in which one key should appear once, or whose rows have an    *)
(* order: brands, attributes and their groups and values, pages and        *)
(* question categories of the store, gift wrappings, short links, the      *)
(* provinces and cities of a delivery service, and one user's wishlist,    *)
(* compare list and recent views.  A request reads, then writes; only some *)
(* tables have a unique index.                                             *)
(***************************************************************************)
EXTENDS Naturals, FiniteSets

CONSTANTS
  Keys,          \* names, products or addresses entered in a table
  Keepers,       \* requests in progress at once
  CompareLimit,  \* MAX_COMPARE_ITEMS
  MaxViews,      \* MAX_VIEWS
  MaxRows        \* bound: how many rows are made

ASSUME RegistersAssumption ==
  CompareLimit \in Nat /\ MaxViews \in Nat /\ MaxRows \in Nat /\ IsFiniteSet(Keepers)

VARIABLES
  table,         \* the table that is looked at
  entered,       \* its rows
  lastId,        \* the last id given
  entry          \* what each request will write

registerVars == << table, entered, lastId, entry >>

Indexed == {"brands", "attributes", "groups", "faqCategories", "storeInfo", "wishlist", "views",
            "places"}
Tables == Indexed \cup {"attributeValues", "giftWrappings", "shortLinks", "compare"}

NoEntry == [step |-> "none"]
New(key, order) == [id |-> 0, key |-> key, order |-> order, active |-> TRUE]
LastPlace == CHOOSE n \in {0} \cup { r.order : r \in entered } : \A r \in entered : r.order <= n
NextPlace == LastPlace + 1
Known(key) == \E r \in entered : r.key = key

RegistersInit ==
  table \in Tables /\ entered = {} /\ lastId = 0 /\ entry = [e \in Keepers |-> NoEntry]

Posts(e, t, next) ==
  /\ table \in t /\ entry[e] = NoEntry /\ entry' = [entry EXCEPT ![e] = next]
  /\ UNCHANGED << table, entered, lastId >>
Ends(e) == entry' = [entry EXCEPT ![e] = NoEntry] /\ UNCHANGED table
Stores(row) == [step |-> "save", row |-> row]

\* save: a new row, or the row that was read, changed; a row removed meanwhile
\* comes back, and a unique index refuses a key another row has.
SaveRow(e) ==
  /\ entry[e].step = "save"
  /\ LET row == entry[e].row IN
     IF table \in Indexed /\ \E r \in entered : r.id # row.id /\ r.key = row.key
     THEN UNCHANGED << entered, lastId >>
     ELSE IF row.id = 0
     THEN /\ lastId < MaxRows
          /\ entered' = entered \cup {[row EXCEPT !.id = lastId + 1]} /\ lastId' = lastId + 1
     ELSE /\ entered' = { r \in entered : r.id # row.id } \cup {row} /\ UNCHANGED lastId
  /\ Ends(e)

-----------------------------------------------------------------------------
(* What each create reads and will write. *)

CreateBrand(e, key) == ~Known(key) /\ Posts(e, {"brands"}, Stores(New(key, 0)))
CreateAttribute(e, key) == ~Known(key) /\ Posts(e, {"attributes"}, Stores(New(key, NextPlace)))
CreateGroup(e, key) == ~Known(key) /\ Posts(e, {"groups"}, Stores(New(key, NextPlace)))
CreateValue(e, key) == ~Known(key) /\ Posts(e, {"attributeValues"}, Stores(New(key, NextPlace)))
CreateGiftWrapping(e, key) == Posts(e, {"giftWrappings"}, Stores(New(key, NextPlace)))
CreateStoreInfo(e, key) == ~Known(key) /\ Posts(e, {"storeInfo"}, Stores(New(key, 0)))

\* An order that is sent is taken as it is.
CreateFaqCategory(e, key, sent) ==
  ~Known(key) /\ Posts(e, {"faqCategories"},
                   Stores(New(key, IF sent = {} THEN NextPlace ELSE CHOOSE n \in sent : TRUE)))

\* upsertStoreInfo: the row of this type if there is one.
UpsertStoreInfo(e, key) ==
  Posts(e, {"storeInfo"}, Stores(IF Known(key) THEN CHOOSE r \in entered : r.key = key ELSE New(key, 0)))

\* saveProvince and saveCity of the synchronisation, one row after the other.
SyncPlace(e, place) ==
  Posts(e, {"places"}, Stores(IF Known(place) THEN CHOOSE r \in entered : r.key = place ELSE New(place, 0)))

Shorten(e, url) == ~Known(url) /\ Posts(e, {"shortLinks"}, Stores(New(url, 0)))
AddWish(e, product) == ~Known(product) /\ Posts(e, {"wishlist"}, Stores(New(product, 0)))

\* The compare list: rows of yesterday go first, a full list refuses, also a
\* product it has.
DropStale(e, product) ==
  /\ table = "compare" /\ entry[e] = NoEntry
  /\ entered' = { r \in entered : r.active }
  /\ entry' = [entry EXCEPT ![e] = [step |-> "count", product |-> product]]
  /\ UNCHANGED << table, lastId >>

AddCompare(e) ==
  /\ entry[e].step = "count"
  /\ entry' = [entry EXCEPT ![e] =
       IF Cardinality(entered) >= CompareLimit \/ Known(entry[e].product) THEN NoEntry
       ELSE Stores(New(entry[e].product, 0))]
  /\ UNCHANGED << table, entered, lastId >>

\* A day passes for a row of the compare list (active: younger than a day).
GrowsStale(r) ==
  /\ table = "compare" /\ r \in entered /\ r.active
  /\ entered' = (entered \ {r}) \cup {[r EXCEPT !.active = FALSE]}
  /\ UNCHANGED << table, lastId, entry >>

\* Recent views: one statement enters a product or renews its time, another
\* removes all but the newest.
AddView(e, product) ==
  /\ table = "views" /\ entry[e] = NoEntry
  /\ LET old == { r \in entered : r.key = product } IN
     IF old = {}
     THEN /\ lastId < MaxRows /\ lastId' = lastId + 1
          /\ entered' = entered \cup {[New(product, NextPlace) EXCEPT !.id = lastId + 1]}
     ELSE /\ entered' = (entered \ old) \cup { [r EXCEPT !.order = NextPlace] : r \in old }
          /\ UNCHANGED lastId
  /\ entry' = [entry EXCEPT ![e] = [step |-> "clean"]] /\ UNCHANGED table

Newer(r) == { s \in entered : s.order > r.order }
\* Mutant of CleanupOldViews: one view too many is kept.
CleanupOneLess(e) ==
  /\ entry[e].step = "clean"
  /\ entered' = { r \in entered : Cardinality(Newer(r)) <= MaxViews }
  /\ Ends(e) /\ UNCHANGED lastId

CleanupOldViews(e) ==
  /\ entry[e].step = "clean"
  /\ entered' = { r \in entered : Cardinality(Newer(r)) < MaxViews }
  /\ Ends(e) /\ UNCHANGED lastId

\* Its error is only logged.
CleanupFails(e) == entry[e].step = "clean" /\ Ends(e) /\ UNCHANGED << entered, lastId >>

-----------------------------------------------------------------------------
(* What each update reads and will write. *)

\* A name another row has is refused for brands, question categories and
\* values; attributes and groups rely on the index.
UpdateName(e, r, key) ==
  /\ table \in {"brands", "faqCategories", "attributeValues"} =>
       \A s \in entered : s.key = key => s = r
  /\ Posts(e, {"brands", "attributes", "groups", "faqCategories", "attributeValues", "giftWrappings"},
            Stores([r EXCEPT !.key = key]))

UpdateOrder(e, r, order) ==
  Posts(e, {"attributes", "groups", "attributeValues", "faqCategories", "giftWrappings"},
         Stores([r EXCEPT !.order = order]))

ToggleStatus(e, r) == Posts(e, {"giftWrappings"}, Stores([r EXCEPT !.active = ~@]))

\* Rows are deleted by id, whatever happened to them since they were read.
RemoveRow(e, r) ==
  /\ table \notin {"views", "shortLinks", "storeInfo", "places"} /\ entry[e] = NoEntry
  /\ entered' = entered \ {r} /\ UNCHANGED << table, lastId, entry >>

-----------------------------------------------------------------------------

RenamesRow(e) == \E r \in entered, key \in Keys : UpdateName(e, r, key)
MovesRow(e) == \E r \in entered, order \in 1 .. 2 : UpdateOrder(e, r, order)
DropsRow(e) == \E r \in entered : RemoveRow(e, r)

Brands(e) == (\E key \in Keys : CreateBrand(e, key)) \/ (table = "brands" /\ (RenamesRow(e) \/ DropsRow(e)))
AttributeRows(e) == (\E key \in Keys : CreateAttribute(e, key))
                    \/ (table = "attributes" /\ (RenamesRow(e) \/ MovesRow(e) \/ DropsRow(e)))
Groups(e) == (\E key \in Keys : CreateGroup(e, key))
             \/ (table = "groups" /\ (RenamesRow(e) \/ MovesRow(e) \/ DropsRow(e)))
AttributeValues(e) == (\E key \in Keys : CreateValue(e, key))
                      \/ (table = "attributeValues" /\ (RenamesRow(e) \/ MovesRow(e) \/ DropsRow(e)))
GiftWrappings(e) ==
  \/ \E key \in Keys : CreateGiftWrapping(e, key)
  \/ \E r \in entered : ToggleStatus(e, r)
  \/ table = "giftWrappings" /\ (RenamesRow(e) \/ MovesRow(e) \/ DropsRow(e))
StorePages(e) ==
  \/ \E key \in Keys : CreateStoreInfo(e, key) \/ UpsertStoreInfo(e, key)
  \/ \E key \in Keys, sent \in {{}, {1}} : CreateFaqCategory(e, key, sent)
  \/ table = "faqCategories" /\ (RenamesRow(e) \/ MovesRow(e) \/ DropsRow(e))
Places(e) == \E key \in Keys : SyncPlace(e, key)
ShortLinks(e) == \E key \in Keys : Shorten(e, key)
Wishlist(e) == (\E key \in Keys : AddWish(e, key)) \/ (table = "wishlist" /\ DropsRow(e))
CompareList(e) == (\E key \in Keys : DropStale(e, key)) \/ (table = "compare" /\ DropsRow(e))
RecentViews(e) == \E key \in Keys : AddView(e, key)

WorksOnRow(e) ==
  \/ Brands(e) \/ AttributeRows(e) \/ Groups(e) \/ AttributeValues(e) \/ GiftWrappings(e) \/ StorePages(e)
  \/ Places(e) \/ ShortLinks(e) \/ Wishlist(e) \/ CompareList(e) \/ RecentViews(e)

FinishesRow(e) == SaveRow(e) \/ AddCompare(e)

Entries == [id : 1 .. MaxRows, key : Keys, order : Nat, active : BOOLEAN]

RegistersTypeOK ==
  /\ table \in Tables /\ lastId \in 0 .. MaxRows
  /\ entered \subseteq Entries

=============================================================================
