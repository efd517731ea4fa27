------------------------------ MODULE Showcase ------------------------------
(***************************************************************************)
(* What the administrators put on the home page (hero sliders, side        *)
(* banners, promo banners, sections and the layout setting) and in         *)
(* collections, with the Redis keys of their modules.                      *)
(*                                                                         *)
(* The services edit what findOne returns, and findOne returns the cached  *)
(* copy when there is one: an edit assigns some fields of the copy and     *)
(* saves all of it.  A row is the set of the edits that it has; a save of  *)
(* an old copy takes edits away, and a save of a row that is gone inserts  *)
(* it again.  No handler here runs in a transaction.                       *)
(***************************************************************************)
EXTENDS Naturals, Sequences, FiniteSets

CONSTANTS
  Kinds,         \* some of "hero", "side", "promo", "section", "collection", "layout"
  Ids,           \* ids of rows
  Slugs,         \* addresses of collections
  Editors,       \* requests in progress at once
  MaxEdits       \* bound: how many edits are made

ASSUME ShowcaseAssumption ==
  /\ Kinds \subseteq {"hero", "side", "promo", "section", "collection", "layout"}
  /\ MaxEdits \in Nat

NoSlug == "none"
Setting == << "layout", 0 >>
Elements == { e \in Kinds \X Ids : e[1] # "layout" }
              \cup { e \in {Setting} : "layout" \in Kinds }
Of(kind) == { e \in Elements : e[1] = kind }


Detail(e) == << "detail", e >>
ListActive(kind) == << "active", kind >>
ListAll(kind) == << "all", kind >>
DetailBySlug(s) == << "slug", s >>

\* The keys that somebody fills and somebody is served from.  The whole page
\* has keys too: getHomePageData sets them and never returns them.
HeroSliderKeys == {ListActive("hero"), ListAll("hero")}
SideBannerKeys == {ListActive("side"), ListAll("side")}
PromoBannerKeys == {ListAll("promo")}
SectionKeys == {ListActive("section")}
CollectionKeys == {ListActive("collection"), ListAll("collection")}
ListKeys == { k \in HeroSliderKeys \cup SideBannerKeys \cup PromoBannerKeys \cup SectionKeys
                     \cup CollectionKeys : k[2] \in Kinds }
SlugKeys == IF "collection" \in Kinds THEN { DetailBySlug(s) : s \in Slugs } ELSE {}
Shelf == { Detail(e) : e \in Elements } \cup ListKeys \cup SlugKeys

-----------------------------------------------------------------------------
VARIABLES
  rows,          \* for each element its edits and address, or Gone
  shelf,         \* for each key the rows it holds, or Bare
  desk,          \* what each request is doing
  edits          \* how many edits there have been

showcaseVars == << rows, shelf, desk, edits >>

Unborn == [gone |-> FALSE]
Gone == [gone |-> TRUE]
Bare == [x \in {<< "bare", 0 >>} |-> 0]   \* no entry; a list may well be empty
Nobody == << >>
Free == [todo |-> << >>]
Row(changes, slug) == [edits |-> changes, slug |-> slug]
Blank == Row({}, NoSlug)          \* the layout when there is no setting
Exists(e) == rows[e] \notin {Unborn, Gone}
Present(kind) == { e \in Of(kind) : Exists(e) }

\* What the query behind a key returns now.
Query(k) ==
  LET found == IF k[1] = "detail" THEN { e \in {k[2]} : Exists(e) \/ e = Setting }
               ELSE IF k[1] = "slug" THEN { e \in Present("collection") : rows[e].slug = k[2] }
               ELSE Present(k[2])
  IN  [e \in found |-> IF Exists(e) THEN rows[e] ELSE Blank]

Finds(k) == \/ k[1] \in {"active", "all"} \/ k = Detail(Setting)
            \/ k[1] = "detail" /\ Exists(k[2])
            \/ k[1] = "slug" /\ \E e \in Present("collection") : rows[e].slug = k[2]

ShowcaseInit(there) ==
  /\ \E slugOf \in [Of("collection") \cap there -> Slugs] :
       /\ \A e, f \in DOMAIN slugOf : slugOf[e] = slugOf[f] => e = f
       /\ rows = [e \in Elements |->
            IF e \notin there THEN Unborn
            ELSE Row({}, IF e[1] = "collection" THEN slugOf[e] ELSE NoSlug)]
  /\ shelf = [k \in Shelf |-> Bare]
  /\ desk = [c \in Editors |-> Free]
  /\ edits = 0

-----------------------------------------------------------------------------
\* A request is the list of the awaits it has still to do.

Asked(c, op, key, todo, slug) ==
  desk' = [desk EXCEPT ![c] =
    [op |-> op, todo |-> todo, key |-> key, held |-> Bare, rest |-> Nobody, slug |-> slug, edit |-> edits']]

Doing(c, step) == desk[c].todo # << >> /\ Head(desk[c].todo) = step

\* The request goes on with the remaining steps, or ends with the last.
After(request, dropped) ==
  IF Len(request.todo) = dropped THEN Free
  ELSE [request EXCEPT !.todo = SubSeq(@, dropped + 1, Len(@))]

Element(c) == desk[c].key[2]

FindOne == << "get", "select", "set" >>

Reader(c, k, todo) ==
  /\ desk[c] = Free
  /\ k \in Shelf
  /\ UNCHANGED edits
  /\ Asked(c, "read", k, todo, NoSlug)
  /\ UNCHANGED << rows, shelf >>

FindAllHeroSliders(c) == Reader(c, ListAll("hero"), FindOne)
FindActiveHeroSliders(c) == Reader(c, ListActive("hero"), FindOne)
FindHeroSlider(c, e) == e[1] = "hero" /\ Reader(c, Detail(e), FindOne)
FindAllSideBanners(c) == Reader(c, ListAll("side"), FindOne)
FindActiveSideBanners(c) == Reader(c, ListActive("side"), FindOne)
FindSideBanner(c, e) == e[1] = "side" /\ Reader(c, Detail(e), FindOne)
\* findAll of promo banners does not look; findAllActive looks at the key that
\* findAll fills, and fills none.
FindAllPromoBanners(c) == Reader(c, ListAll("promo"), << "select", "set" >>)
FindActivePromoBanners(c) == Reader(c, ListAll("promo"), << "get", "select" >>)
FindPromoBanner(c, e) == e[1] = "promo" /\ Reader(c, Detail(e), FindOne)
FindActiveSections(c) == Reader(c, ListActive("section"), FindOne)
FindSection(c, e) == e[1] = "section" /\ Reader(c, Detail(e), FindOne)
FindActiveCollections(c) == Reader(c, ListActive("collection"), FindOne)
FindAllCollections(c) == Reader(c, ListAll("collection"), FindOne)
FindCollectionBySlug(c, s) == Reader(c, DetailBySlug(s), FindOne)
FindCollection(c, e) == e[1] = "collection" /\ Reader(c, Detail(e), FindOne)
GetLayoutType(c) == Reader(c, Detail(Setting), FindOne)

\* A page asks the finders for its parts, all of them at once: each is a request.
HomePageParts(forAdmin) ==
  {Detail(Setting)} \cup IF forAdmin THEN {ListAll("hero"), ListAll("side")}
                         ELSE {ListActive("hero"), ListActive("side"), ListActive("section")}
GetHomePageData(c, forAdmin) == \E k \in HomePageParts(forAdmin) : Reader(c, k, FindOne)

Edits(c, op, e, todo, slug) ==
  /\ desk[c] = Free
  /\ edits < MaxEdits
  /\ edits' = edits + 1
  /\ Asked(c, op, Detail(e), todo, slug)
  /\ UNCHANGED << rows, shelf >>

\* The database gives each new row an id of its own.
Creates(c, e, slug) ==
  /\ rows[e] = Unborn
  /\ \A d \in Editors : desk[d] # Free => desk[d].key # Detail(e)
  /\ Edits(c, "create", e, << "save", "clear_lists" >>, slug)

Updates(c, e, slug) == Edits(c, "update", e, FindOne \o << "save", "clear" >>, slug)
Sorts(c, e, clearing) == Edits(c, "sort", e, << "select", "save", clearing >>, NoSlug)
Removes(c, e) == Edits(c, "remove", e, FindOne \o << "delete", "clear" >>, NoSlug)
RemovesAndMoves(c, e) ==
  Edits(c, "remove", e, FindOne \o << "delete", "find_rest", "move_rest", "clear" >>, NoSlug)

CreateHeroSlider(c, e) == e[1] = "hero" /\ Creates(c, e, NoSlug)
UpdateHeroSlider(c, e) == e[1] = "hero" /\ Updates(c, e, NoSlug)
RemoveHeroSlider(c, e) == e[1] = "hero" /\ RemovesAndMoves(c, e)
\* The copy of the row stays, with the old place.
UpdateHeroSliderOrder(c, e) == e[1] = "hero" /\ Sorts(c, e, "clear_lists")

CreateSideBanner(c, e) == e[1] = "side" /\ Creates(c, e, NoSlug)
UpdateSideBanner(c, e) == e[1] = "side" /\ Updates(c, e, NoSlug)
RemoveSideBanner(c, e) == e[1] = "side" /\ RemovesAndMoves(c, e)

CreatePromoBanner(c, e) == e[1] = "promo" /\ Creates(c, e, NoSlug)
UpdatePromoBanner(c, e) == e[1] = "promo" /\ Updates(c, e, NoSlug)
TogglePromoBanner(c, e) == e[1] = "promo" /\ Updates(c, e, NoSlug)
RemovePromoBanner(c, e) == e[1] = "promo" /\ RemovesAndMoves(c, e)
\* Mutant of UpdatePromoBannerOrder: the copy of the row is not deleted.
SortsAndKeepsCopy(c, e) == e[1] = "promo" /\ Sorts(c, e, "clear_lists")

UpdatePromoBannerOrder(c, e) == e[1] = "promo" /\ Sorts(c, e, "clear")

CreateSection(c, e) == e[1] = "section" /\ Creates(c, e, NoSlug)
UpdateSection(c, e) == e[1] = "section" /\ Updates(c, e, NoSlug)
RemoveSection(c, e) == e[1] = "section" /\ Removes(c, e)
UpdateSectionOrder(c, e) == e[1] = "section" /\ Sorts(c, e, "clear_lists")

CreateCollection(c, e, s) ==
  /\ e[1] = "collection"
  /\ \A f \in Present("collection") : rows[f].slug # s
  /\ Creates(c, e, s)
UpdateCollection(c, e, s) == e[1] = "collection" /\ Updates(c, e, s)
AddProducts(c, e) == e[1] = "collection" /\ Updates(c, e, NoSlug)
RemoveProduct(c, e) == e[1] = "collection" /\ Updates(c, e, NoSlug)
RemoveCollection(c, e) == e[1] = "collection" /\ Removes(c, e)

\* upsert: the row is read afresh; the listener of its event clears the layout.
UpsertSetting(c, e) ==
  e = Setting /\ Edits(c, "update", e, << "select", "save", "clear" >>, NoSlug)
RemoveSetting(c, e) == e = Setting /\ Edits(c, "remove", e, << "select", "delete" >>, NoSlug)

-----------------------------------------------------------------------------
\* The awaits.

Gets(c) ==
  /\ Doing(c, "get")
  /\ IF shelf[desk[c].key] = Bare
     THEN desk' = [desk EXCEPT ![c] = After(@, 1)]
     ELSE LET onward == IF Len(desk[c].todo) >= 3 THEN 3 ELSE 2
          IN  desk' = [desk EXCEPT ![c] = After([@ EXCEPT !.held = shelf[desk[c].key]], onward)]
  /\ UNCHANGED << rows, shelf, edits >>

Selects(c) ==
  /\ Doing(c, "select")
  /\ Finds(desk[c].key)
  /\ desk' = [desk EXCEPT ![c] = After([@ EXCEPT !.held = Query(desk[c].key)], 1)]
  /\ UNCHANGED << rows, shelf, edits >>

NotFound(c) ==
  /\ Doing(c, "select")
  /\ ~Finds(desk[c].key)
  /\ desk' = [desk EXCEPT ![c] = Free]
  /\ UNCHANGED << rows, shelf, edits >>

\* The set swallows its errors: the key may stay as it was.
Sets(c) ==
  /\ Doing(c, "set")
  /\ shelf' \in {shelf, [shelf EXCEPT ![desk[c].key] = desk[c].held]}
  /\ desk' = [desk EXCEPT ![c] = After(@, 1)]
  /\ UNCHANGED << rows, edits >>

\* The whole of what is held, with the fields that were sent.
Saved(c) ==
  LET old == IF desk[c].held = Bare THEN Blank ELSE desk[c].held[Element(c)]
  IN  Row(old.edits \cup {desk[c].edit}, IF desk[c].slug = NoSlug THEN old.slug ELSE desk[c].slug)

\* The address is another collection's: the unique index, or the look before it.
Clashes(c) ==
  /\ Element(c)[1] = "collection"
  /\ \E e \in Present("collection") \ {Element(c)} : rows[e].slug = Saved(c).slug

Saves(c) ==
  /\ Doing(c, "save")
  /\ ~Clashes(c)
  /\ rows' = [rows EXCEPT ![Element(c)] = Saved(c)]
  /\ desk' = [desk EXCEPT ![c] = After([@ EXCEPT !.slug = Saved(c).slug], 1)]
  /\ UNCHANGED << shelf, edits >>

Conflicts(c) ==
  /\ Doing(c, "save")
  /\ Clashes(c)
  /\ desk' = [desk EXCEPT ![c] = Free]
  /\ UNCHANGED << rows, shelf, edits >>

Deletes(c) ==
  /\ Doing(c, "delete")
  /\ rows' = [rows EXCEPT ![Element(c)] = IF Exists(Element(c)) THEN Gone ELSE @]
  /\ desk' = [desk EXCEPT ![c] = After([@ EXCEPT !.slug = desk[c].held[Element(c)].slug], 1)]
  /\ UNCHANGED << shelf, edits >>

\* The rows that stand after the deleted one, by its place in the copy.
FindsRest(c) ==
  /\ Doing(c, "find_rest")
  /\ \E later \in SUBSET (Present(Element(c)[1]) \ {Element(c)}) :
       desk' = [desk EXCEPT ![c] = After([@ EXCEPT !.rest = [e \in later |-> rows[e]]], 1)]
  /\ UNCHANGED << rows, shelf, edits >>

\* They are saved one after the other.
MovesOne(c, e) ==
  /\ Doing(c, "move_rest")
  /\ e \in DOMAIN desk[c].rest
  /\ rows' = [rows EXCEPT ![e] = Row(desk[c].rest[e].edits \cup {desk[c].edit}, NoSlug)]
  /\ desk' = [desk EXCEPT ![c].rest = [f \in DOMAIN @ \ {e} |-> @[f]]]
  /\ UNCHANGED << shelf, edits >>

MovedAll(c) ==
  /\ Doing(c, "move_rest")
  /\ desk[c].rest = Nobody
  /\ desk' = [desk EXCEPT ![c] = After(@, 1)]
  /\ UNCHANGED << rows, shelf, edits >>

\* Mutant of Lists: the administrators' list is left as it is.
ListsShown(kind) == { k \in ListKeys : k[2] = kind /\ k[1] = "active" }

\* clearHeroSlidersCache, clearSideBannersCache, clearPromoBannersCache,
\* clearHomeSectionsCache: the lists, and the copy when they are given the id.
Lists(kind) == { k \in ListKeys : k[2] = kind }
Swept(c) ==
  Lists(Element(c)[1]) \cup
    IF Head(desk[c].todo) = "clear_lists" THEN {}
    ELSE {desk[c].key} \cup { k \in SlugKeys : k[2] = desk[c].slug }

\* Promise.allSettled swallows the errors: the keys may stay.
Clears(c) ==
  /\ Doing(c, "clear") \/ Doing(c, "clear_lists")
  /\ \E swept \in {Swept(c), {}} :
       shelf' = [k \in Shelf |-> IF k \in swept THEN Bare ELSE shelf[k]]
  /\ desk' = [desk EXCEPT ![c] = After(@, 1)]
  /\ UNCHANGED << rows, edits >>

\* The process stops, or the database does: the steps that are left are lost.
\* (A reader that stops leaves what a failed set leaves.)
Breaks(c) ==
  /\ desk[c] # Free /\ desk[c].op # "read"
  /\ desk' = [desk EXCEPT ![c] = Free]
  /\ UNCHANGED << rows, shelf, edits >>

Lapses(k) ==
  /\ shelf[k] # Bare
  /\ shelf' = [shelf EXCEPT ![k] = Bare]
  /\ UNCHANGED << rows, desk, edits >>

HeroSliders(c) ==
  \/ FindAllHeroSliders(c) \/ FindActiveHeroSliders(c)
  \/ \E e \in Elements : \/ FindHeroSlider(c, e) \/ CreateHeroSlider(c, e) \/ UpdateHeroSlider(c, e)
                        \/ RemoveHeroSlider(c, e) \/ UpdateHeroSliderOrder(c, e)
SideBanners(c) ==
  \/ FindAllSideBanners(c) \/ FindActiveSideBanners(c)
  \/ \E e \in Elements : \/ FindSideBanner(c, e) \/ CreateSideBanner(c, e)
                        \/ UpdateSideBanner(c, e) \/ RemoveSideBanner(c, e)
PromoBanners(c) ==
  \/ FindAllPromoBanners(c) \/ FindActivePromoBanners(c)
  \/ \E e \in Elements :
       \/ FindPromoBanner(c, e) \/ CreatePromoBanner(c, e) \/ UpdatePromoBanner(c, e)
       \/ TogglePromoBanner(c, e) \/ RemovePromoBanner(c, e) \/ UpdatePromoBannerOrder(c, e)
Sections(c) ==
  \/ FindActiveSections(c)
  \/ \E e \in Elements : \/ FindSection(c, e) \/ CreateSection(c, e) \/ UpdateSection(c, e)
                        \/ RemoveSection(c, e) \/ UpdateSectionOrder(c, e)
Collections(c) ==
  \/ FindActiveCollections(c) \/ FindAllCollections(c)
  \/ \E s \in Slugs : FindCollectionBySlug(c, s)
  \/ \E e \in Elements :
       \/ FindCollection(c, e) \/ AddProducts(c, e) \/ RemoveProduct(c, e) \/ RemoveCollection(c, e)
       \/ \E s \in Slugs : CreateCollection(c, e, s) \/ UpdateCollection(c, e, s)
Layout(c) == GetLayoutType(c) \/ UpsertSetting(c, Setting) \/ RemoveSetting(c, Setting)

Requests(c) ==
  \/ HeroSliders(c) \/ SideBanners(c) \/ PromoBanners(c) \/ Sections(c) \/ Collections(c)
  \/ Layout(c) \/ \E forAdmin \in BOOLEAN : GetHomePageData(c, forAdmin)

Awaits(c) ==
  \/ Gets(c) \/ Selects(c) \/ NotFound(c) \/ Sets(c) \/ Saves(c) \/ Conflicts(c) \/ Deletes(c)
  \/ FindsRest(c) \/ (\E e \in Elements : MovesOne(c, e)) \/ MovedAll(c) \/ Clears(c) \/ Breaks(c)

ShowcaseNext ==
  \/ \E c \in Editors : Requests(c) \/ Awaits(c)
  \/ \E k \in Shelf : Lapses(k)

ShowcaseSpec == (\E there \in SUBSET Elements : ShowcaseInit(there)) /\ [][ShowcaseNext]_showcaseVars

-----------------------------------------------------------------------------
ShowcaseTypeOK ==
  /\ \A e \in Elements : Exists(e) => rows[e].edits \subseteq 1 .. MaxEdits
  /\ \A k \in Shelf : shelf[k] = Bare \/ DOMAIN shelf[k] \subseteq Elements
  /\ edits \in 0 .. MaxEdits

=============================================================================
