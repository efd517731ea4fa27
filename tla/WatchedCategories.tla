-------------------------- MODULE WatchedCategories --------------------------
(***************************************************************************)
(* Categories with the pairs of requests whose transactions overlapped.    *)
(***************************************************************************)
EXTENDS Categories

CONSTANT MaxPlans          \* bound: how many requests are made

VARIABLES
  plans,         \* how many requests there have been
  raced          \* the kinds of requests that were in progress together

treeWatch == << plans, raced >>

AtWork == UNION { { {plan[c].op, plan[d].op} : d \in { x \in Planners \ {c} : plan[x] # NoPlan } } :
                    c \in { x \in Planners : plan[x] # NoPlan } }

WatchedTreeInit == TreeInit /\ plans = 0 /\ raced = {}

WatchedTreeNext ==
  /\ \/ plans < MaxPlans /\ plans' = plans + 1 /\ \E c \in Planners : PlansTree(c)
     \/ UNCHANGED plans /\ \E c \in Planners : WritesTree(c)
     \/ plans = 0 /\ UNCHANGED plans /\ \E x \in Cats : FileProduct(x)
  /\ raced' = raced \cup AtWork'

WatchedTreeSpec == WatchedTreeInit /\ [][WatchedTreeNext]_<< treeVars, treeWatch >>

\* The closure table can only be wrong once two moves have overlapped, levels
\* and breadcrumbs once a move has overlapped anything.
TreeSound ==
  /\ {"move"} \notin raced => ClosureExact
  /\ ~(\E pair \in raced : "move" \in pair) => LevelsExact /\ BreadcrumbIsPath

=============================================================================
