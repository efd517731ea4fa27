-------------------------- MODULE WatchedRegisters ----------------------------
(***************************************************************************)
(* Registers with how requests overlapped and who chose the order.         *)
(***************************************************************************)
EXTENDS Registers

CONSTANT MaxEntries        \* bound: how many requests are made

VARIABLES
  entries,       \* how many requests there have been
  clashed,       \* two requests of the table were in progress together
  arranged,      \* an order was given by hand
  uncleaned      \* clean-ups of the recent views that failed since one succeeded

registerWatch == << entries, clashed, arranged, uncleaned >>

Writing(e) == entry[e].step \in {"save", "count"}
Arrangeable == {"attributes", "groups", "faqCategories", "attributeValues", "giftWrappings"}
Reordered == \E e \in Keepers :
  /\ table \in Arrangeable /\ entry'[e] # entry[e] /\ entry'[e].step = "save"
  /\ LET row == entry'[e].row IN
     IF row.id = 0 THEN row.order # NextPlace ELSE \E r \in entered : r.id = row.id /\ r.order # row.order

WatchedRegistersInit ==
  RegistersInit /\ entries = 0 /\ clashed = FALSE /\ arranged = FALSE /\ uncleaned = 0

\* Two requests of the table at once, or a change of it under a third.
KeepersMeet ==
  \/ \E e, f \in Keepers : e # f /\ Writing(e)' /\ Writing(f)'
  \/ entered' # entered /\ \E e \in Keepers : Writing(e) /\ Writing(e)'

WatchesRegisters == clashed' = (clashed \/ KeepersMeet) /\ arranged' = (arranged \/ Reordered)

WatchedRegistersNext ==
  /\ \/ entries < MaxEntries /\ entries' = entries + 1 /\ UNCHANGED uncleaned
        /\ \E e \in Keepers : WorksOnRow(e)
     \/ /\ (\E e \in Keepers : FinishesRow(e)) \/ \E r \in entered : GrowsStale(r)
        /\ UNCHANGED << entries, uncleaned >>
     \/ (\E e \in Keepers : CleanupOldViews(e)) /\ uncleaned' = 0 /\ UNCHANGED entries
     \/ (\E e \in Keepers : CleanupFails(e)) /\ uncleaned' = uncleaned + 1 /\ UNCHANGED entries
  /\ WatchesRegisters

WatchedRegistersSpec ==
  WatchedRegistersInit /\ [][WatchedRegistersNext]_<< registerVars, registerWatch >>

Distinct(field(_)) == \A r, s \in entered : field(r) = field(s) => r = s

\* A key is entered once and rows have places of their own, unless requests
\* overlapped where no index stops them or an order was given by hand; the
\* compare list stays within its limit, recent views exceed theirs by the adds
\* that have yet to clean up and the clean-ups that failed since, at most.
RegistersSound ==
  /\ (table \in Indexed \/ ~clashed) /\ table # "giftWrappings" => Distinct(LAMBDA r : r.key)
  /\ ~clashed /\ ~arranged /\ table \in Arrangeable => Distinct(LAMBDA r : r.order)
  /\ ~clashed /\ table = "compare" => Cardinality(entered) <= CompareLimit
  /\ table = "views" =>
       Cardinality(entered) <= MaxViews + uncleaned + Cardinality({ e \in Keepers : entry[e].step = "clean" })

=============================================================================
