----------------------------- MODULE CachedView -----------------------------
(***************************************************************************)
(* What a reader of the shop may expect of its Redis caches: an entry      *)
(* shows rows as they were once committed, each row perhaps as it was some *)
(* time ago, and no entry lives for ever.  Caches implements it.           *)
(***************************************************************************)
EXTENDS Naturals

CONSTANTS
  Rows,          \* rows of the database
  Keys,          \* keys of the cache
  Sources(_)     \* the rows that are shown by a key

VARIABLES
  stored,        \* how many times each row has been committed
  entry          \* what each key holds: a version of each of its rows

NoEntry == << >>

Init ==
  /\ stored = [r \in Rows |-> 0]
  /\ entry \in [Keys -> {NoEntry} \cup UNION { {[r \in Sources(k) |-> 0]} : k \in Keys }]
  /\ \A k \in Keys : entry[k] \in {NoEntry, [r \in Sources(k) |-> 0]}

\* A transaction commits some rows.
Write ==
  /\ \E changed \in SUBSET Rows :
       stored' = [r \in Rows |-> IF r \in changed THEN stored[r] + 1 ELSE stored[r]]
  /\ UNCHANGED entry

\* A key gets an entry made of committed versions of its rows, old ones perhaps.
Fill(k) ==
  /\ entry' = [entry EXCEPT ![k] = entry'[k]]
  /\ DOMAIN entry'[k] = Sources(k)
  /\ \A r \in Sources(k) : entry'[k][r] \in 0 .. stored[r]
  /\ UNCHANGED stored

\* Some entries are removed.
Drop(removed) ==
  /\ entry' = [k \in Keys |-> IF k \in removed THEN NoEntry ELSE entry[k]]
  /\ UNCHANGED stored

Lapse(k) == entry[k] # NoEntry /\ Drop({k})

Next ==
  \/ Write
  \/ \E k \in Keys : Fill(k)
  \/ \E removed \in SUBSET Keys : Drop(removed)

Spec == Init /\ [][Next]_<< stored, entry >> /\ \A k \in Keys : WF_<< stored, entry >>(Lapse(k))

=============================================================================
