---------------------------- MODULE WatchedCaches -----------------------------
(***************************************************************************)
(* Caches with the keys that may be stale: the code leaves them alone, or  *)
(* a reader and a writer overlapped, or Redis did not answer.              *)
(***************************************************************************)
EXTENDS Caches

VARIABLE excused

Reading(k) == \E c \in Callers : request[c].op = "read" /\ request[c].key = k
Overlapped(k) == \E c, d \in Callers :
  request[c].op = "read" /\ request[c].key = k /\ Sources(k) \cap Writing(d) # {}
Missed(k) == \E c \in Callers : request[c].op = "write" /\ k \in request[c].misses
LosesClear(k) == \E c \in Callers : k \in Clearing(c) \ Clearing(c)'

\* A key is excused until its entry is gone and nobody is about to set it.
Excuses ==
  excused' = { k \in Keys :
    /\ entry'[k] # NoEntry \/ Reading(k)'
    /\ k \in excused \/ Missed(k) \/ Overlapped(k)' \/ LosesClear(k) }

watchedVars == << vars, excused >>

WatchedInit == Init /\ excused = {}
WatchedSpec == WatchedInit /\ [][Next /\ Excuses]_watchedVars

\* Once the requests that clear it have ended, a key shows its rows as they are,
\* unless the code does not clear it for what was changed, or a reader of it
\* overlapped with a writer, or the clearing itself failed.
StaleOnlyByRace ==
  \A k \in Keys \ excused : (\A c \in Callers : k \notin Clearing(c)) => Fresh(k)

=============================================================================
