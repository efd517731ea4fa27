--------------------------- MODULE WatchedShowcase ---------------------------
(***************************************************************************)
(* Showcase with what a checker has to remember: which edits were saved,   *)
(* and which keys and requests could not but miss a change.                *)
(***************************************************************************)
EXTENDS Showcase

CONSTANTS
  MaxReads,      \* bound: how many requests only read
  Latest         \* the id of the row that is still to be created

VARIABLES
  on,            \* the kind of element that is worked on
  reads,         \* how many reads there have been
  done,          \* the edits that were saved, each with its element
  removed,       \* the elements that were deleted
  unswept,       \* keys that a change missed, by the code's omission or by a race
  late,          \* requests that hold what has changed since
  blamed         \* elements saved by a late request

watch == << on, reads, done, removed, unswept, late, blamed >>

Tasks(c) == { desk[c].todo[i] : i \in DOMAIN desk[c].todo }
Acts(c) == desk'[c] # desk[c]

\* The keys that a request has still to clear.
ToClear(c) == IF Tasks(c) \cap {"clear", "clear_lists"} = {} THEN {}
  ELSE Lists(Element(c)[1]) \cup
    IF "clear" \in Tasks(c) THEN {desk[c].key} \cup { k \in SlugKeys : k[2] = desk[c].slug } ELSE {}

\* What the code leaves alone: the copy of a row that another's removal moves,
\* or that a request moves, unless it is a promo banner; the old address of a
\* collection; the layout when the setting is removed.
LeavesCopy(c, e) ==
  \/ Doing(c, "move_rest")
  \/ desk[c].op = "sort" /\ e[1] # "promo"
  \/ desk[c].op = "remove" /\ e = Setting
LeavesAddress(e, k) == Exists(e) /\ rows[e].slug = k[2] /\ (Exists(e)' => rows'[e].slug # k[2])
Missed(k) == \E c \in Editors, e \in Of(on) :
  /\ Acts(c) /\ rows'[e] # rows[e]
  /\ \/ k = Detail(e) /\ LeavesCopy(c, e)
     \/ k[1] = "slug" /\ LeavesAddress(e, k)

Filled == { desk[c].key : c \in { d \in Editors : desk[d].todo # << >> /\ "set" \in Tasks(d) } }
Overtaken(k) == \E c \in Editors :
  /\ desk[c].todo # << >> /\ desk[c].key = k /\ "set" \in Tasks(c)
  /\ desk[c].held # Bare /\ desk[c].held # Query(k)
Loses(k) == \E c \in Editors : k \in ToClear(c) /\ k \notin ToClear(c)' /\ shelf'[k] # Bare

\* A request is late when it holds what another one changes, or is served from
\* a key that is not up to date for one of these reasons.
Holds(c, e) == desk[c].todo # << >> /\ (e \in DOMAIN desk[c].held \/ e \in DOMAIN desk[c].rest)
GetsLate(c, d) == \E e \in Of(on) : Holds(c, e) /\ Acts(d) /\ ~Acts(c) /\ rows'[e] # rows[e]
ServedLate(c) ==
  /\ Doing(c, "get") /\ Acts(c) /\ shelf[desk[c].key] # Bare
  /\ \/ desk[c].key \in unswept
     \/ \E d \in Editors \ {c} : desk[c].key \in ToClear(d)

Watches ==
  /\ unswept' = { k \in { j \in Shelf : shelf'[j] # Bare } \cup Filled' :
       k \in unswept \/ Missed(k) \/ Overtaken(k)' \/ Loses(k) }
  /\ late' = { c \in Editors :
       /\ desk'[c] # Free
       /\ c \in late \/ (\E d \in Editors : GetsLate(c, d)) \/ ServedLate(c) }
  /\ blamed' = blamed \cup { e \in Of(on) : rows'[e] # rows[e] /\ \E c \in late : Acts(c) }
  /\ done' = { x \in done : Exists(x[2])' } \cup { x \in (1 .. MaxEdits) \X Of(on) :
       Exists(x[2])' /\ x[1] \in rows'[x[2]].edits /\ \E c \in Editors : Acts(c) /\ desk[c] # Free /\ desk[c].edit = x[1] }
  /\ removed' = removed \cup { e \in Of(on) \ {Setting} : rows'[e] = Gone }

WatchedInit(kinds) ==
  /\ on \in kinds
  /\ ShowcaseInit({ e \in Elements : e[1] = on /\ e[2] # Latest })
  /\ reads = 0
  /\ done = {} /\ removed = {} /\ unswept = {} /\ late = {} /\ blamed = {}

WatchedNext ==
  /\ \/ \E c \in Editors :
          /\ CASE on = "hero" -> HeroSliders(c) \/ \E forAdmin \in BOOLEAN : GetHomePageData(c, forAdmin)
               [] on = "side" -> SideBanners(c)
               [] on = "promo" -> PromoBanners(c)
               [] on = "section" -> Sections(c)
               [] on = "collection" -> Collections(c)
               [] on = "layout" -> Layout(c)
          /\ edits' = edits => reads < MaxReads
          /\ reads' = IF edits' = edits THEN reads + 1 ELSE reads
     \/ (\E c \in Editors : Awaits(c)) /\ UNCHANGED reads
     \/ (\E k \in Shelf : Lapses(k)) /\ UNCHANGED reads
  /\ UNCHANGED on
  /\ Watches

WatchedShowcaseSpec == WatchedInit(Kinds) /\ [][WatchedNext]_<< showcaseVars, watch >>

\* An edit that was saved stays, and what was deleted stays deleted, unless a
\* request that was overtaken, or was served an old copy, saved the row.
EditsKept ==
  /\ \A x \in done : x[2] \in blamed \/ (Exists(x[2]) => x[1] \in rows[x[2]].edits)
  /\ \A e \in removed : e \in blamed \/ ~Exists(e)

\* A key that nothing missed shows the rows, once the requests that clear it end.
ShelfFresh == \A k \in Shelf \ unswept :
  shelf[k] = Bare \/ shelf[k] = Query(k) \/ \E c \in Editors : k \in ToClear(c)

=============================================================================
