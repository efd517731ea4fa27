--------------------------- MODULE WatchedVariants ---------------------------
(***************************************************************************)
(* Variants with what has happened to them: how many requests, whether two *)
(* of them overlapped, whether a value was taken away from variants.       *)
(***************************************************************************)
EXTENDS Variants

CONSTANT MaxChanges        \* bound: how many requests are made

VARIABLES
  changes,       \* how many requests there have been
  overlapped,    \* the pairs of operations that were in progress together
  stripped,      \* a value has been taken away from a variant
  whole          \* a create was the last to change the variants

variantWatch == << changes, overlapped, stripped, whole >>

Busy(s) == change[s] # NoChange
Together == { {change[pr[1]].op, change[pr[2]].op} :
                pr \in { x \in Sellers \X Sellers : x[1] # x[2] /\ Busy(x[1]) /\ Busy(x[2]) } }
Interrupted == { {"delete", change[s].op} : s \in { x \in Sellers : Busy(x) } }

WatchedVariantsInit ==
  VariantsInit /\ changes = 0 /\ overlapped = {} /\ stripped = FALSE /\ whole = TRUE

WatchesVariants ==
  /\ overlapped' = overlapped \cup Together' \cup (IF known' = known THEN {} ELSE Interrupted)
  /\ stripped' = (stripped \/ known' # known
       \/ \E s \in Sellers : change[s] # NoChange /\ change[s].op = "strip" /\ change'[s] = NoChange)
  /\ whole' = IF variants' = variants THEN whole
               ELSE \E s \in Sellers : Busy(s) /\ change[s].op = "create" /\ ~Busy(s)'

WatchedVariantsNext ==
  /\ \/ changes < MaxChanges /\ changes' = changes + 1
        /\ ((\E s \in Sellers : RequestsChange(s)) \/ (\E v \in Values : DeleteValue(v)))
     \/ UNCHANGED changes /\ \E s \in Sellers : EndsChange(s)
  /\ WatchesVariants

WatchedVariantsSpec == WatchedVariantsInit /\ [][WatchedVariantsNext]_<< variantVars, variantWatch >>

\* After a create the variants are the product of the values they use, each
\* combination once unless values were taken away from variants; only requests
\* that overlap can spoil that, or record a specification twice.
VariantsSound ==
  /\ ~(\E pair \in overlapped : "create" \in pair /\ pair \subseteq {"create", "remove", "strip", "delete"}) =>
       /\ whole => { v.values : v \in variants } = Cartesian(InUse(variants))
       /\ stripped \/ \A v, w \in variants : v.values = w.values => v = w
  /\ {"specify"} \notin overlapped =>
       \A x, y \in specs : x.attribute = y.attribute /\ x.value = y.value => x = y

=============================================================================
