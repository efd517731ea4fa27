----------------------------- MODULE Categories -----------------------------
(***************************************************************************)
(* The tree of categories: the parent and the level in each row, and the   *)
(* closure table that TypeORM keeps beside them.  A request reads in its   *)
(* transaction's snapshot, checks, and then writes what others may have    *)
(* written since.                                                          *)
(***************************************************************************)
EXTENDS Naturals, FiniteSets, Sequences

CONSTANTS
  Cats,          \* ids of categories
  Root,          \* no parent
  Planners       \* requests in progress at once

ASSUME CategoriesAssumption == Root \notin Cats /\ IsFiniteSet(Cats)

VARIABLES
  alive,         \* the categories that exist
  parent, level, \* columns of their rows
  closure,       \* the closure table: pairs of an ancestor, or itself, and a category
  stocked,       \* the categories that have products
  plan           \* the transaction of each request

treeVars == << alive, parent, level, closure, stocked, plan >>

NoPlan == [op |-> "none"]

-----------------------------------------------------------------------------
\* Following the parents n times.
Up(par) ==
  LET f[n \in 0 .. Cardinality(Cats)] ==
        IF n = 0 THEN [x \in Cats \cup {Root} |-> x]
        ELSE LET below == f[n - 1]
             IN  [x \in Cats \cup {Root} |-> IF below[x] = Root THEN Root ELSE par[below[x]]]
  IN  f

Ascends(par, x, a) == \E n \in 0 .. Cardinality(Cats) : Up(par)[n][x] = a
Depth(par, x, a) == CHOOSE n \in 0 .. Cardinality(Cats) :
  Up(par)[n][x] = a /\ \A m \in 0 .. n - 1 : Up(par)[m][x] # a

\* findDescendants and findAncestors ask the closure table.
Descendants(cl, x) == { d \in Cats : << x, d >> \in cl }
Ancestors(cl, x) == { a \in Cats : << a, x >> \in cl }

LevelOf(lev, p) == IF p = Root THEN 0 ELSE lev[p]

\* rebuildCategoryClosure of the importer: everyone is its own ancestor, and
\* pairs are added as long as there are any to add.
RebuildCategoryClosure(cats, par) ==
  LET f[n \in 0 .. Cardinality(Cats)] ==
        IF n = 0 THEN { << x, x >> : x \in cats }
        ELSE LET pairs == f[n - 1]
             IN  pairs \cup { pr \in Cats \X Cats :
                   \E c \in cats : par[c] = pr[1] /\ << c, pr[2] >> \in pairs }
  IN  f[Cardinality(Cats)]

\* findBySlugWithParents and findByIdWithParents: the ancestors by their level.
ByLevel(cats) == CHOOSE s \in [1 .. Cardinality(cats) -> cats] :
  \A i, j \in DOMAIN s : i < j => s[i] # s[j] /\ level[s[i]] <= level[s[j]]
Breadcrumb(x) == ByLevel(Ancestors(closure, x) \ {x}) \o << x >>

-----------------------------------------------------------------------------
\* A forest, as earlier requests left it.
TreeInit ==
  /\ \E cats \in SUBSET Cats : \E p \in { f \in [Cats -> cats \cup {Root}] :
         \A x \in Cats : Ascends(f, x, Root) /\ (x \notin cats => f[x] = Root) } :
       /\ alive = cats
       /\ parent = p
       /\ level = [x \in Cats |-> IF x \in cats THEN Depth(p, x, Root) ELSE 0]
       /\ closure = { pr \in cats \X cats : Ascends(p, pr[2], pr[1]) }
  /\ stocked = {}
  /\ plan = [c \in Planners |-> NoPlan]

Begins(c, op, x, p) ==
  /\ plan[c] = NoPlan
  /\ plan' = [plan EXCEPT ![c] =
       [op |-> op, cat |-> x, to |-> p, parent |-> parent, level |-> level]]
  /\ UNCHANGED << alive, parent, level, closure, stocked >>

\* A new id; its title and address are nobody's.
CreateCategoryIn(c, x, p) ==
  /\ x \notin alive /\ level[x] = 0
  /\ \A d \in Planners : plan[d] # NoPlan => plan[d].cat # x
  /\ p \in alive \cup {Root}
  /\ Begins(c, "create", x, p)

\* Mutant of MoveCategory: a category may be put under its own descendant.
MoveUnderItself(c, x, p) ==
  /\ x \in alive /\ p \in alive \cup {Root} /\ p # x /\ parent[x] # p
  /\ Begins(c, "move", x, p)

\* update with a parent: itself and its descendants are refused.
MoveCategory(c, x, p) ==
  /\ x \in alive
  /\ p \in alive \cup {Root}
  /\ p # x
  /\ p \notin Descendants(closure, x)
  /\ parent[x] # p
  /\ Begins(c, "move", x, p)

RemoveCategoryRow(c, x) ==
  /\ x \in alive
  /\ Cardinality(Descendants(closure, x)) <= 1
  /\ x \notin stocked
  /\ Begins(c, "remove", x, Root)

\* A product is put in a category, or taken out of it.
FileProduct(x) ==
  /\ x \in alive
  /\ stocked' \in {stocked \cup {x}, stocked \ {x}}
  /\ UNCHANGED << alive, parent, level, closure, plan >>

-----------------------------------------------------------------------------
\* The writes and the commit.  Rows are written where the snapshot differs; the
\* closure table is written by INSERT ... SELECT, from what it holds by then.

Above(p) == IF p = Root THEN {} ELSE Ancestors(closure, p)

InsertsCategory(c) ==
  LET x == plan[c].cat  p == plan[c].to IN
  /\ plan[c].op = "create"
  /\ p \in alive \cup {Root}
  /\ alive' = alive \cup {x}
  /\ parent' = [parent EXCEPT ![x] = p]
  /\ level' = [level EXCEPT ![x] = LevelOf(plan[c].level, p) + 1]
  /\ closure' = closure \cup { << a, x >> : a \in Above(p) \cup {x} }
  /\ plan' = [plan EXCEPT ![c] = NoPlan]
  /\ UNCHANGED stocked

\* updateDescendantsLevel goes down the parents' column.
UpdateDescendantsLevel(c, x, top) ==
  LET old == plan[c] IN
  [d \in Cats |->
     IF ~Ascends(old.parent, d, x) THEN level[d]
     ELSE LET new == top + Depth(old.parent, d, x)
          IN  IF new = old.level[d] THEN level[d] ELSE new]

WritesMove(c) ==
  LET x == plan[c].cat  p == plan[c].to IN
  /\ plan[c].op = "move"
  /\ x \in alive
  /\ p \in alive \cup {Root}
  /\ parent' = [parent EXCEPT ![x] = p]
  /\ level' = UpdateDescendantsLevel(c, x, LevelOf(plan[c].level, p) + 1)
  /\ closure' = (closure \ ((Ancestors(closure, x) \ {x}) \X Descendants(closure, x)))
                  \cup (Above(p) \X Descendants(closure, x))
  /\ plan' = [plan EXCEPT ![c] = NoPlan]
  /\ UNCHANGED << alive, stocked >>

\* The foreign key of parent_id takes the children with the row.
DeletesCategory(c) ==
  LET x == plan[c].cat
      lost == { d \in alive : Ascends(parent, d, x) } IN
  /\ plan[c].op = "remove"
  /\ x \in alive
  /\ alive' = alive \ lost
  /\ closure' = { pr \in closure : pr[1] \notin lost /\ pr[2] \notin lost }
  /\ stocked' = stocked \ lost
  /\ plan' = [plan EXCEPT ![c] = NoPlan]
  /\ UNCHANGED << parent, level >>

\* An error, a foreign key that is not met, a crash: nothing is written.
RollsBack(c) ==
  /\ plan[c] # NoPlan
  /\ plan' = [plan EXCEPT ![c] = NoPlan]
  /\ UNCHANGED << alive, parent, level, closure, stocked >>

PlansTree(c) == \E x \in Cats :
  \/ \E p \in Cats \cup {Root} : CreateCategoryIn(c, x, p) \/ MoveCategory(c, x, p)
  \/ RemoveCategoryRow(c, x)

WritesTree(c) == InsertsCategory(c) \/ WritesMove(c) \/ DeletesCategory(c) \/ RollsBack(c)

TreeNext ==
  \/ \E c \in Planners : PlansTree(c) \/ WritesTree(c)
  \/ \E x \in Cats : FileProduct(x)

TreeSpec == TreeInit /\ [][TreeNext]_treeVars

-----------------------------------------------------------------------------
TreeTypeOK ==
  /\ alive \subseteq Cats /\ stocked \subseteq alive
  /\ parent \in [Cats -> Cats \cup {Root}] /\ level \in [Cats -> Nat]
  /\ closure \subseteq alive \X alive
  /\ DOMAIN plan = Planners

\* The closure table is the closure of the parents, also when the importer
\* builds it; levels count from 1 at the roots; the breadcrumb is the path.
ClosureExact ==
  LET exact == { pr \in alive \X alive : Ascends(parent, pr[2], pr[1]) }
  IN  closure = exact /\ RebuildCategoryClosure(alive, parent) = exact
LevelsExact == \A x \in alive :
  /\ parent[x] \in alive \cup {Root}
  /\ level[x] = LevelOf(level, parent[x]) + 1
BreadcrumbIsPath == \A x \in alive : LET b == Breadcrumb(x) IN
  /\ parent[b[1]] = Root
  /\ \A i \in 1 .. Len(b) - 1 : parent[b[i + 1]] = b[i]

=============================================================================
