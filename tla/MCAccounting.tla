---------------------------- MODULE MCAccounting ----------------------------
(***************************************************************************)
(* WatchedAccounting on small instances, for the work of the staff.  team  *)
(* says whether this staff keeps the books or the warehouses, served       *)
(* counts their requests.                                                  *)
(***************************************************************************)
EXTENDS WatchedAccounting, TLC

CONSTANTS
  d1, d2, a1, a2, w1, w2, p1, o1,
  MaxRequests   \* bound: the staff make this many requests

VARIABLES served, team

MCReferences == { << "INCOME", 2 >> }
Nothing == [o \in Orders |-> << >>]
NoPayments == << >>
Zero == [o \in Orders |-> 0]

AtW1 == [x \in Places |-> IF x[2] = w1 THEN 1 ELSE 0]

\* No definition tells desks or accounts apart.
Alike == Permutations(Desks) \cup Permutations(Accounts)

MCInit == WatchedInit /\ served = 0 /\ team \in {"books", "warehouses"}

MCNext ==
  /\ \E d \in Desks :
       \/ /\ served < MaxRequests
          /\ \/ team = "books" /\ AccountantAsks(d)
             \/ team = "warehouses" /\ StorekeeperAsks(d)
          /\ served' = served + 1
          /\ UNCHANGED << paid, restocked >>
       \/ Step(d) /\ UNCHANGED served
  /\ Watches
  /\ UNCHANGED team

mcVars == << watchedVars, served, team >>
MCSpec == MCInit /\ [][MCNext]_mcVars

=============================================================================
