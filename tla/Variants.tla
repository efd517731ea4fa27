------------------------------- MODULE Variants -------------------------------
(***************************************************************************)
(* The variants and the specifications of one product.  A variant has one  *)
(* value of each attribute the product varies in; a specification is one   *)
(* value of an attribute that does not vary.  Requests are transactions:   *)
(* they read in a snapshot, and write by row ids.                          *)
(***************************************************************************)
EXTENDS Naturals, FiniteSets

CONSTANTS
  Attributes,    \* ids of attributes
  Varying,       \* those with isVariant
  Values,        \* ids of values
  AttributeOf,   \* the attribute of each value
  Sellers        \* requests in progress at once

ASSUME VariantsAssumption ==
  /\ Varying \subseteq Attributes /\ AttributeOf \in [Values -> Attributes]
  /\ IsFiniteSet(Attributes) /\ IsFiniteSet(Values)

VARIABLES
  known,         \* the values that exist
  variants,      \* rows of variants_product, with their attribute values
  specs,         \* rows of product_attribute_values
  linked,        \* the attributes of the product's category
  lastRow,       \* the last id given to a variant or a specification
  change         \* the transaction of each request: what it will write

variantVars == << known, variants, specs, linked, lastRow, change >>

NoChange == [op |-> "none"]
Nothing == [op |-> "idle", adds |-> {}, drops |-> {}, strips |-> {}, specify |-> {}, despecify |-> {}, link |-> {}]

AttributesOf(values) == { AttributeOf[v] : v \in values }

\* The products of one value for each attribute in use.
Cartesian(values) ==
  { combo \in (SUBSET values) \ {{}} : \A a \in AttributesOf(values) :
      Cardinality({ v \in combo : AttributeOf[v] = a }) = 1 }

InUse(rows) == UNION { v.values : v \in rows }

\* New ids, one for each member.
Numbered(set, from) == CHOOSE f \in [set -> from + 1 .. from + Cardinality(set)] :
                         \A x, y \in set : f[x] = f[y] => x = y

\* A product whose variants one create has made, and some specifications.
VariantsInit ==
  /\ known = Values
  /\ \E values \in SUBSET { v \in Values : AttributeOf[v] \in Varying } :
       LET row == Numbered(Cartesian(values), 0) IN
       /\ variants = { [id |-> row[combo], values |-> combo] : combo \in Cartesian(values) }
       /\ \E v \in SUBSET { v \in Values : AttributeOf[v] \notin Varying } :
            LET line == Numbered(v, Cardinality(Cartesian(values))) IN
            /\ specs = { [id |-> line[x], attribute |-> AttributeOf[x], value |-> x] : x \in v }
            /\ linked = AttributesOf(values \cup v)
            /\ lastRow = Cardinality(Cartesian(values)) + Cardinality(v)
  /\ change = [s \in Sellers |-> NoChange]

Prepares(s, writes) ==
  /\ change[s] = NoChange
  /\ change' = [change EXCEPT ![s] = writes]
  /\ UNCHANGED << known, variants, specs, linked, lastRow >>

-----------------------------------------------------------------------------
\* Mutant of CreateVariant: the combinations that exist are not looked for.
CreateVariantAgain(s, values) ==
  LET all == InUse(variants) \cup values IN
  /\ values # {} /\ values \subseteq known
  /\ Prepares(s, [Nothing EXCEPT
       !.op = "create",
       !.adds = Cartesian(all),
       !.drops = { v.id : v \in { w \in variants :
                     Cardinality(AttributesOf(w.values)) < Cardinality(AttributesOf(all)) } },
       !.link = AttributesOf(values) \ linked])

\* create: the values asked for join those in use; each new combination gets a
\* variant, and variants with fewer attributes than are now in use are removed.
CreateVariant(s, values) ==
  LET all == InUse(variants) \cup values IN
  /\ values # {} /\ values \subseteq known
  /\ Prepares(s, [Nothing EXCEPT
       !.op = "create",
       !.adds = Cartesian(all) \ { v.values : v \in variants },
       !.drops = { v.id : v \in { w \in variants :
                     Cardinality(AttributesOf(w.values)) < Cardinality(AttributesOf(all)) } },
       !.link = AttributesOf(values) \ linked])

RemoveVariantRow(s, v) ==
  /\ v \in variants
  /\ Prepares(s, [Nothing EXCEPT !.op = "remove", !.drops = {v.id}])

\* removeByVariant takes one value away from each variant that has it.
StripValue(s, value) ==
  LET affected == { v \in variants : value \in v.values } IN
  /\ affected # {}
  /\ Prepares(s, [Nothing EXCEPT !.op = "strip", !.strips = { << v.id, value >> : v \in affected }])

-----------------------------------------------------------------------------
\* Specifications.  One value of the right attribute, and none that is there
\* already, lets the whole list pass.
CreateSpecs(s, a, values) ==
  /\ a \notin Varying
  /\ values \subseteq known
  /\ \E v \in values : AttributeOf[v] = a
  /\ ~\E row \in specs : row.attribute = a /\ row.value \in values
  /\ Prepares(s, [Nothing EXCEPT !.op = "specify",
       !.specify = { << a, v >> : v \in values }, !.link = {a} \ linked])

\* update writes no display_order, a column without a default: MySQL refuses
\* the new rows in its strict mode, so only an empty list gets through there.
UpdateSpecs(s, a, values) ==
  /\ values \subseteq known
  /\ Prepares(s, [Nothing EXCEPT !.op = "specify",
       !.despecify = { row.id : row \in { x \in specs : x.attribute = a } },
       !.specify = { << a, v >> : v \in values }])

RemoveSpec(s, row) ==
  /\ row \in specs
  /\ Prepares(s, [Nothing EXCEPT !.op = "despecify", !.despecify = {row.id}])

RemoveSpecsOfValue(s, a, value) ==
  LET affected == { row \in specs : row.attribute = a /\ row.value = value } IN
  /\ affected # {}
  /\ Prepares(s, [Nothing EXCEPT !.op = "despecify", !.despecify = { row.id : row \in affected }])

\* A value is deleted with the rows of the variants that have it; a
\* specification that uses it forbids that.
DeleteValue(value) ==
  /\ value \in known
  /\ ~\E row \in specs : row.value = value
  /\ known' = known \ {value}
  /\ variants' = { [v EXCEPT !.values = @ \ {value}] : v \in variants }
  /\ UNCHANGED << specs, linked, lastRow, change >>

-----------------------------------------------------------------------------
\* The writes and the commit: inserts, and deletes by id.
CommitsChange(s) ==
  LET c == change[s]
      row == Numbered(c.adds, lastRow)
      line == Numbered(c.specify, lastRow + Cardinality(c.adds))
      Kept(v) == [v EXCEPT !.values = @ \ { x \in Values : << v.id, x >> \in c.strips }]
  IN
  /\ c # NoChange
  /\ (UNION c.adds) \cup { pr[2] : pr \in c.specify } \subseteq known
  /\ variants' = { Kept(v) : v \in { w \in variants : w.id \notin c.drops } }
                   \cup { [id |-> row[combo], values |-> combo] : combo \in c.adds }
  /\ specs' = { x \in specs : x.id \notin c.despecify }
                \cup { [id |-> line[pr], attribute |-> pr[1], value |-> pr[2]] : pr \in c.specify }
  /\ linked' = linked \cup c.link
  /\ lastRow' = lastRow + Cardinality(c.adds) + Cardinality(c.specify)
  /\ change' = [change EXCEPT ![s] = NoChange]
  /\ UNCHANGED known

\* An error, a deleted value, a crash: nothing is written.
AbandonsChange(s) ==
  /\ change[s] # NoChange
  /\ change' = [change EXCEPT ![s] = NoChange]
  /\ UNCHANGED << known, variants, specs, linked, lastRow >>

VariantRequests(s) ==
  \/ \E values \in SUBSET Values : CreateVariant(s, values)
  \/ \E v \in variants : RemoveVariantRow(s, v)
  \/ \E value \in Values : StripValue(s, value)
SpecRequests(s) ==
  \/ \E a \in Attributes, values \in SUBSET Values : CreateSpecs(s, a, values) \/ UpdateSpecs(s, a, values)
  \/ \E row \in specs : RemoveSpec(s, row)
  \/ \E a \in Attributes, value \in Values : RemoveSpecsOfValue(s, a, value)
RequestsChange(s) == VariantRequests(s) \/ SpecRequests(s)

EndsChange(s) == CommitsChange(s) \/ AbandonsChange(s)

VariantsNext ==
  \/ \E s \in Sellers : RequestsChange(s) \/ EndsChange(s)
  \/ \E value \in Values : DeleteValue(value)

VariantsSpec == VariantsInit /\ [][VariantsNext]_variantVars

VariantRows == [id : 1 .. lastRow, values : SUBSET known]
SpecRows == [id : 1 .. lastRow, attribute : Attributes, value : known]

VariantsTypeOK ==
  /\ known \subseteq Values
  /\ variants \subseteq VariantRows
  /\ specs \subseteq SpecRows
  /\ linked \subseteq Attributes /\ lastRow \in Nat /\ DOMAIN change = Sellers

=============================================================================
