----------------------------- MODULE ShopProofs -----------------------------
(***************************************************************************)
(* Theorems about what the shop offers, shows and sells, for any number of *)
(* attributes, values, cards, orders, promotions, categories, banners and  *)
(* requests in progress.                                                   *)
(***************************************************************************)
EXTENDS WatchedVariants, WatchedSales, WatchedCategories, WatchedShowcase, FunctionTheorems,
        FiniteSetTheorems, SequenceTheorems, WellFoundedInduction, TLAPS

-----------------------------------------------------------------------------
\* The variants and specifications of a product.

\* One value of each attribute at most.
Single(values) == \A x, y \in values : AttributeOf[x] = AttributeOf[y] => x = y

Ops == {"idle", "create", "remove", "strip", "specify", "despecify"}
Writings ==
  [op : Ops, adds : SUBSET SUBSET Values, drops : SUBSET Nat, strips : SUBSET (Nat \X Values),
   specify : SUBSET (Attributes \X Values), despecify : SUBSET Nat, link : SUBSET Attributes]

\* What a request writes goes by its operation.
WritesFit(w) ==
  /\ w.op # "create" => w.adds = {}
  /\ w.op \notin {"create", "remove"} => w.drops = {}
  /\ w.op # "strip" => w.strips = {}
  /\ w.op # "specify" => w.specify = {}
  /\ w.op \notin {"specify", "despecify"} => w.despecify = {}
  /\ \A combo \in w.adds : Single(combo)

VariantsTyped ==
  /\ VariantsTypeOK /\ change \in [Sellers -> {NoChange} \cup Writings]
  /\ \A v, w \in variants : v.id = w.id => v = w
  /\ \A v \in variants : Single(v.values)
  /\ \A s \in Sellers : Busy(s) => WritesFit(change[s])

Paired ==
  \A s, t \in Sellers : s # t /\ Busy(s) /\ Busy(t) => {change[s].op, change[t].op} \in overlapped

Spoiled == \E pair \in overlapped : "create" \in pair /\ pair \subseteq {"create", "remove", "strip", "delete"}

Combos == { v.values : v \in variants }
Fewer(all) == { v.id : v \in { w \in variants :
                  Cardinality(AttributesOf(w.values)) < Cardinality(AttributesOf(all)) } }

\* A create in progress goes by the variants there are.
CreatesFit ==
  ~Spoiled => \A s \in Sellers : Busy(s) /\ change[s].op = "create" =>
    \E all \in (SUBSET known) \ {{}} :
      /\ InUse(variants) \subseteq all
      /\ change[s].adds = Cartesian(all) \ Combos /\ change[s].drops = Fewer(all)

Products ==
  ~Spoiled => /\ whole => Combos = Cartesian(InUse(variants))
              /\ stripped \/ \A v, w \in variants : v.values = w.values => v = w

\* A specification in progress adds none that it leaves there.
SpecsFit ==
  {"specify"} \notin overlapped => \A s \in Sellers : Busy(s) /\ change[s].op = "specify" =>
    \A x \in specs : << x.attribute, x.value >> \in change[s].specify => x.id \in change[s].despecify

SpecsSingle ==
  {"specify"} \notin overlapped =>
    \A x, y \in specs : x.attribute = y.attribute /\ x.value = y.value => x = y

VariantsInv == VariantsTyped /\ Paired /\ CreatesFit /\ Products /\ SpecsFit /\ SpecsSingle

-----------------------------------------------------------------------------
(* Combinations of values, and new ids. *)

LEMMA FiniteValues ==
  ASSUME NEW values \in SUBSET Values
  PROVE  /\ IsFiniteSet(values) /\ IsFiniteSet(AttributesOf(values))
         /\ IsFiniteSet(Cartesian(values)) /\ Cartesian(values) \subseteq SUBSET values
<1>1. IsFiniteSet(values)
  BY VariantsAssumption, FS_Subset
<1>2. IsFiniteSet(AttributesOf(values))
  <2> DEFINE f == [v \in values |-> AttributeOf[v]]
  <2>1. f \in Surjection(values, AttributesOf(values))
    BY DEF Surjection, AttributesOf
  <2> HIDE DEF f
  <2> QED BY <1>1, <2>1, FS_Surjection
<1>3. Cartesian(values) \subseteq SUBSET values
  BY DEF Cartesian
<1>4. IsFiniteSet(SUBSET values)
  BY <1>1, FS_SUBSET
<1>5. IsFiniteSet(Cartesian(values))
  BY <1>3, <1>4, FS_Subset
<1> QED BY <1>1, <1>2, <1>3, <1>5

LEMMA CartesianIs ==
  ASSUME NEW values \in SUBSET Values, NEW combo
  PROVE  combo \in Cartesian(values) <=>
           combo \subseteq values /\ combo # {} /\ Single(combo) /\ AttributesOf(combo) = AttributesOf(values)
<1>1. CASE ~(combo \subseteq values /\ combo # {})
  BY <1>1 DEF Cartesian
<1>2. CASE combo \subseteq values /\ combo # {}
  <2> DEFINE OfAttribute(a) == { v \in combo : AttributeOf[v] = a }
  <2>1. combo \in Cartesian(values) <=> \A a \in AttributesOf(values) : Cardinality(OfAttribute(a)) = 1
    BY <1>2 DEF Cartesian
  <2>2. IsFiniteSet(combo)
    BY <1>2, FiniteValues
  <2>3. \A a : IsFiniteSet(OfAttribute(a))
    BY <2>2, FS_Subset
  <2>4. \A a : Cardinality(OfAttribute(a)) = 1 <=> \E x : OfAttribute(a) = {x}
    <3> HIDE DEF OfAttribute
    <3> QED BY <2>3, FS_Singleton
  <2>5. ASSUME \A a \in AttributesOf(values) : \E x : OfAttribute(a) = {x}
        PROVE  Single(combo) /\ AttributesOf(combo) = AttributesOf(values)
    <3>1. ASSUME NEW x \in combo, NEW y \in combo, AttributeOf[x] = AttributeOf[y] PROVE x = y
      <4>1. AttributeOf[x] \in AttributesOf(values)
        BY <1>2 DEF AttributesOf
      <4>2. PICK z : OfAttribute(AttributeOf[x]) = {z}
        BY <2>5, <4>1
      <4>3. x \in OfAttribute(AttributeOf[x]) /\ y \in OfAttribute(AttributeOf[x])
        BY <3>1
      <4> QED BY <4>2, <4>3
    <3>2. AttributesOf(combo) \subseteq AttributesOf(values)
      BY <1>2 DEF AttributesOf
    <3>3. ASSUME NEW a \in AttributesOf(values) PROVE a \in AttributesOf(combo)
      <4>1. PICK z : OfAttribute(a) = {z}
        BY <2>5
      <4>2. z \in combo /\ AttributeOf[z] = a
        BY <4>1
      <4> QED BY <4>2 DEF AttributesOf
    <3> QED BY <3>1, <3>2, <3>3 DEF Single
  <2>6. ASSUME Single(combo), AttributesOf(combo) = AttributesOf(values), NEW a \in AttributesOf(values)
        PROVE  \E x : OfAttribute(a) = {x}
    <3>1. PICK x \in combo : AttributeOf[x] = a
      BY <2>6 DEF AttributesOf
    <3>2. OfAttribute(a) = {x}
      BY <2>6, <3>1 DEF Single
    <3> QED BY <3>2
  <2> QED BY <1>2, <2>1, <2>4, <2>5, <2>6
<1> QED BY <1>1, <1>2

\* Every value is in some combination.
LEMMA CombinationsUseAll ==
  ASSUME NEW values \in SUBSET Values
  PROVE  UNION Cartesian(values) = values
<1>1. UNION Cartesian(values) \subseteq values
  BY DEF Cartesian
<1>2. ASSUME NEW v \in values PROVE v \in UNION Cartesian(values)
  <2> DEFINE chosen == [a \in AttributesOf(values) |->
                          IF a = AttributeOf[v] THEN v ELSE CHOOSE x \in values : AttributeOf[x] = a]
             combo == { chosen[a] : a \in AttributesOf(values) }
  <2>1. \A a \in AttributesOf(values) : chosen[a] \in values /\ AttributeOf[chosen[a]] = a
    BY DEF AttributesOf
  <2>2. AttributeOf[v] \in AttributesOf(values) /\ chosen[AttributeOf[v]] = v
    BY DEF AttributesOf
  <2> HIDE DEF chosen
  <2>3. v \in combo /\ combo # {}
    BY <2>2
  <2>4. combo \subseteq values /\ Single(combo)
    BY <2>1 DEF Single
  <2>5. AttributesOf(combo) = AttributesOf(values)
    <3>1. \A a \in AttributesOf(values) : a \in AttributesOf(combo)
      BY <2>1 DEF AttributesOf
    <3>2. \A a \in AttributesOf(combo) : a \in AttributesOf(values)
      BY <2>1, <2>4 DEF AttributesOf
    <3> QED BY <3>1, <3>2
  <2> HIDE DEF combo
  <2>6. combo \in Cartesian(values)
    BY <2>3, <2>4, <2>5, CartesianIs
  <2> QED BY <2>3, <2>6
<1> QED BY <1>1, <1>2

\* A combination with as many attributes as all has all of them.
LEMMA AllAttributes ==
  ASSUME NEW all \in SUBSET Values, NEW values \in SUBSET all,
         ~(Cardinality(AttributesOf(values)) < Cardinality(AttributesOf(all)))
  PROVE  AttributesOf(values) = AttributesOf(all)
<1>1. IsFiniteSet(AttributesOf(all)) /\ IsFiniteSet(AttributesOf(values))
  BY FiniteValues
<1>2. AttributesOf(values) \subseteq AttributesOf(all)
  BY DEF AttributesOf
<1>3. Cardinality(AttributesOf(values)) <= Cardinality(AttributesOf(all))
  BY <1>1, <1>2, FS_Subset
<1>4. Cardinality(AttributesOf(values)) \in Nat /\ Cardinality(AttributesOf(all)) \in Nat
  BY <1>1, FS_CardinalityType
<1>5. Cardinality(AttributesOf(values)) = Cardinality(AttributesOf(all))
  BY <1>3, <1>4
<1> QED BY <1>1, <1>2, <1>5, FS_Subset

LEMMA NewNumbers ==
  ASSUME NEW set, IsFiniteSet(set), NEW from \in Nat
  PROVE  /\ Numbered(set, from) \in [set -> from + 1 .. from + Cardinality(set)]
         /\ \A x, y \in set : Numbered(set, from)[x] = Numbered(set, from)[y] => x = y
<1> DEFINE n == Cardinality(set)
<1>1. n \in Nat /\ ExistsBijection(1 .. n, set)
  BY FS_CardinalityType
<1>2. ExistsBijection(set, 1 .. n)
  BY <1>1, Fun_ExistsBijSymmetric
<1>3. PICK g \in Bijection(set, 1 .. n) : TRUE
  BY <1>2 DEF ExistsBijection
<1>4. g \in [set -> 1 .. n] /\ \A x, y \in set : g[x] = g[y] => x = y
  BY <1>3 DEF Bijection, Injection, IsInjective
<1> HIDE DEF n
<1> DEFINE f == [x \in set |-> from + g[x]]
<1>5. f \in [set -> from + 1 .. from + n] /\ \A x, y \in set : f[x] = f[y] => x = y
  <2>1. \A x \in set : g[x] \in 1 .. n /\ f[x] = from + g[x]
    BY <1>4
  <2>2. \A x \in set : f[x] \in from + 1 .. from + n
    BY <1>1, <2>1
  <2>3. \A x, y \in set : f[x] = f[y] => x = y
    BY <1>1, <1>4, <2>1
  <2> QED BY <2>2, <2>3
<1> HIDE DEF f
<1> QED BY <1>5 DEF Numbered, n

-----------------------------------------------------------------------------
(* What is watched, and reading. *)

LEMMA PairsRemembered ==
  ASSUME WatchesVariants
  PROVE  /\ Paired' /\ overlapped \subseteq overlapped' /\ (Spoiled => Spoiled')
         /\ known' # known => \A s \in Sellers : Busy(s) => {"delete", change[s].op} \in overlapped'
<1>1. overlapped' = overlapped \cup Together' \cup (IF known' = known THEN {} ELSE Interrupted)
  BY DEF WatchesVariants
<1>2. ASSUME NEW s \in Sellers, NEW t \in Sellers, s # t, Busy(s)', Busy(t)'
      PROVE  {change'[s].op, change'[t].op} \in overlapped'
  <2>1. << s, t >> \in { x \in Sellers \X Sellers : x[1] # x[2] /\ Busy(x[1])' /\ Busy(x[2])' }
    BY <1>2
  <2>2. {change'[s].op, change'[t].op} \in Together'
    BY <2>1 DEF Together, Busy
  <2> QED BY <1>1, <2>2
<1>3. Paired'
  BY <1>2 DEF Paired
<1>4. ASSUME known' # known, NEW s \in Sellers, Busy(s) PROVE {"delete", change[s].op} \in overlapped'
  BY <1>1, <1>4 DEF Interrupted
<1>5. overlapped \subseteq overlapped'
  BY <1>1
<1>6. Spoiled => Spoiled'
  BY <1>5 DEF Spoiled
<1> QED BY <1>3, <1>4, <1>5, <1>6

LEMMA Idle == ASSUME NEW w \in Writings PROVE w # NoChange
BY DEF Writings, Ops, NoChange

LEMMA NothingIs ==
  /\ Nothing \in Writings /\ Nothing.adds = {} /\ Nothing.drops = {} /\ Nothing.strips = {}
  /\ Nothing.specify = {} /\ Nothing.despecify = {} /\ Nothing.link = {}
BY DEF Nothing, Writings, Ops

\* A request reads, and prepares what it will write.
LEMMA PreparesKeeps ==
  ASSUME VariantsInv, WatchesVariants, NEW s \in Sellers, NEW w \in Writings, Prepares(s, w), WritesFit(w),
         w.op = "create" => \E all \in (SUBSET known) \ {{}} :
           InUse(variants) \subseteq all /\ w.adds = Cartesian(all) \ Combos /\ w.drops = Fewer(all),
         w.op = "specify" =>
           \A x \in specs : << x.attribute, x.value >> \in w.specify => x.id \in w.despecify
  PROVE  VariantsInv'
<1>1. /\ change[s] = NoChange /\ change' = [change EXCEPT ![s] = w]
      /\ known' = known /\ variants' = variants /\ specs' = specs /\ linked' = linked /\ lastRow' = lastRow
  BY DEF Prepares
<1>2. /\ change \in [Sellers -> {NoChange} \cup Writings]
      /\ change' \in [Sellers -> {NoChange} \cup Writings]
      /\ \A t \in Sellers : change'[t] = IF t = s THEN w ELSE change[t]
  BY <1>1 DEF VariantsInv, VariantsTyped
<1>3. /\ Paired' /\ overlapped \subseteq overlapped' /\ (Spoiled => Spoiled')
  BY PairsRemembered
<1>4. VariantsTyped'
  BY <1>1, <1>2 DEF VariantsInv, VariantsTyped, VariantsTypeOK, VariantRows, SpecRows, Busy
<1>5. Combos' = Combos /\ InUse(variants)' = InUse(variants) /\ \A all : Fewer(all)' = Fewer(all)
  BY <1>1 DEF Combos, InUse, Fewer
<1>6. CreatesFit'
  <2> SUFFICES ASSUME ~Spoiled', NEW t \in Sellers, Busy(t)', change'[t].op = "create"
               PROVE  \E all \in (SUBSET known) \ {{}} :
                        /\ InUse(variants) \subseteq all
                        /\ change'[t].adds = Cartesian(all) \ Combos /\ change'[t].drops = Fewer(all)
    BY <1>1, <1>5 DEF CreatesFit
  <2>1. CASE t = s
    BY <1>2, <2>1
  <2>2. CASE t # s
    BY <1>2, <1>3, <2>2 DEF VariantsInv, CreatesFit, Busy
  <2> QED BY <2>1, <2>2
<1>7. (stripped => stripped') /\ (whole' => whole)
  BY <1>1 DEF WatchesVariants
<1>8. Products'
  BY <1>1, <1>3, <1>5, <1>7 DEF VariantsInv, Products
<1>9. SpecsFit'
  BY <1>1, <1>2, <1>3 DEF VariantsInv, SpecsFit, Busy
<1>10. SpecsSingle'
  BY <1>1, <1>3 DEF VariantsInv, SpecsSingle
<1> QED BY <1>3, <1>4, <1>6, <1>8, <1>9, <1>10 DEF VariantsInv

LEMMA VariantsHave ==
  ASSUME VariantsInv
  PROVE  /\ known \subseteq Values /\ lastRow \in Nat /\ linked \subseteq Attributes
         /\ \A v \in variants : v \in VariantRows /\ v.id \in 1 .. lastRow /\ v.values \subseteq known
         /\ \A x \in specs : x \in SpecRows /\ x.id \in 1 .. lastRow /\ x.attribute \in Attributes /\ x.value \in known
         /\ InUse(variants) \subseteq known
<1>1. /\ known \subseteq Values /\ lastRow \in Nat /\ linked \subseteq Attributes
      /\ \A v \in variants : v \in VariantRows /\ v.id \in 1 .. lastRow /\ v.values \subseteq known
      /\ \A x \in specs : x \in SpecRows /\ x.id \in 1 .. lastRow /\ x.attribute \in Attributes /\ x.value \in known
  BY DEF VariantsInv, VariantsTyped, VariantsTypeOK, VariantRows, SpecRows
<1> QED BY <1>1 DEF InUse

LEMMA CreateVariantKeeps ==
  ASSUME VariantsInv, WatchesVariants, NEW s \in Sellers, NEW values \in SUBSET Values, CreateVariant(s, values)
  PROVE  VariantsInv'
<1> DEFINE all == InUse(variants) \cup values
           w == [Nothing EXCEPT !.op = "create", !.adds = Cartesian(all) \ Combos, !.drops = Fewer(all),
                                !.link = AttributesOf(values) \ linked]
<1>1. Prepares(s, w) /\ values # {} /\ values \subseteq known
  BY DEF CreateVariant, Combos, Fewer
<1>2. PICK any : any = all
  OBVIOUS
<1>3. any \in (SUBSET known) \ {{}} /\ InUse(variants) \subseteq any /\ any \in SUBSET Values
  BY <1>1, <1>2, VariantsHave
<1>4. /\ w.op = "create" /\ w.adds = Cartesian(any) \ Combos /\ w.drops = Fewer(any)
      /\ w.link = AttributesOf(values) \ linked
      /\ w.strips = {} /\ w.specify = {} /\ w.despecify = {}
  BY NothingIs, <1>2 DEF Writings
<1>5. Cartesian(any) \ Combos \subseteq SUBSET Values /\ \A combo \in Cartesian(any) : Single(combo)
  BY <1>3, FiniteValues, CartesianIs
<1>6. Fewer(any) \subseteq Nat
  BY VariantsHave DEF Fewer
<1>7. AttributesOf(values) \subseteq Attributes
  BY VariantsAssumption DEF AttributesOf
<1>8. w \in Writings
  BY <1>4, <1>5, <1>6, <1>7, NothingIs DEF Writings, Ops
<1> HIDE DEF w, all
<1>9. WritesFit(w)
  BY <1>4, <1>5 DEF WritesFit
<1> QED BY <1>1, <1>3, <1>4, <1>8, <1>9, PreparesKeeps

LEMMA RemoveVariantRowKeeps ==
  ASSUME VariantsInv, WatchesVariants, NEW s \in Sellers, NEW v \in variants, RemoveVariantRow(s, v)
  PROVE  VariantsInv'
<1> DEFINE w == [Nothing EXCEPT !.op = "remove", !.drops = {v.id}]
<1>1. Prepares(s, w)
  BY DEF RemoveVariantRow
<1>2. /\ w.op = "remove" /\ w.adds = {} /\ w.strips = {} /\ w.specify = {} /\ w.despecify = {}
  BY NothingIs DEF Writings
<1>3. v.id \in Nat
  BY VariantsHave
<1>4. w \in Writings
  BY <1>2, <1>3, NothingIs DEF Writings, Ops
<1> HIDE DEF w
<1>5. WritesFit(w) /\ w.op \notin {"create", "specify"}
  BY <1>2 DEF WritesFit
<1> QED BY <1>1, <1>4, <1>5, PreparesKeeps

LEMMA StripValueKeeps ==
  ASSUME VariantsInv, WatchesVariants, NEW s \in Sellers, NEW value \in Values, StripValue(s, value)
  PROVE  VariantsInv'
<1> DEFINE from == { << v.id, value >> : v \in { v \in variants : value \in v.values } }
           w == [Nothing EXCEPT !.op = "strip", !.strips = from]
<1>1. Prepares(s, w)
  BY DEF StripValue
<1>2. from \subseteq Nat \X Values
  BY VariantsHave
<1> HIDE DEF from
<1>3. /\ w.op = "strip" /\ w.adds = {} /\ w.drops = {} /\ w.specify = {} /\ w.despecify = {}
  BY NothingIs DEF Writings
<1>4. w \in Writings
  BY <1>2, <1>3, NothingIs DEF Writings, Ops
<1> HIDE DEF w
<1>5. WritesFit(w) /\ w.op \notin {"create", "specify"}
  BY <1>3 DEF WritesFit
<1> QED BY <1>1, <1>4, <1>5, PreparesKeeps

LEMMA CreateSpecsKeeps ==
  ASSUME VariantsInv, WatchesVariants, NEW s \in Sellers, NEW a \in Attributes, NEW values \in SUBSET Values,
         CreateSpecs(s, a, values)
  PROVE  VariantsInv'
<1> DEFINE lines == { << a, v >> : v \in values }
           w == [Nothing EXCEPT !.op = "specify", !.specify = lines, !.link = {a} \ linked]
<1>1. Prepares(s, w) /\ \A x \in specs : x.attribute = a => x.value \notin values
  BY DEF CreateSpecs
<1>2. lines \subseteq Attributes \X Values /\ \A pr \in lines : pr[1] = a /\ pr[2] \in values
  OBVIOUS
<1> HIDE DEF lines
<1>3. /\ w.op = "specify" /\ w.adds = {} /\ w.drops = {} /\ w.strips = {} /\ w.specify = lines
  BY NothingIs DEF Writings
<1>4. w \in Writings
  BY <1>2, <1>3, NothingIs DEF Writings, Ops
<1> HIDE DEF w
<1>5. WritesFit(w)
  BY <1>3 DEF WritesFit
<1>6. \A x \in specs : << x.attribute, x.value >> \notin w.specify
  <2> SUFFICES ASSUME NEW x \in specs, << x.attribute, x.value >> \in lines PROVE FALSE
    BY <1>3
  <2>1. << x.attribute, x.value >>[1] = a /\ << x.attribute, x.value >>[2] \in values
    BY <1>2
  <2> QED BY <1>1, <2>1
<1> QED BY <1>1, <1>3, <1>4, <1>5, <1>6, PreparesKeeps

LEMMA UpdateSpecsKeeps ==
  ASSUME VariantsInv, WatchesVariants, NEW s \in Sellers, NEW a \in Attributes, NEW values \in SUBSET Values,
         UpdateSpecs(s, a, values)
  PROVE  VariantsInv'
<1> DEFINE lines == { << a, v >> : v \in values }
           olds == { row.id : row \in { x \in specs : x.attribute = a } }
           w == [Nothing EXCEPT !.op = "specify", !.despecify = olds, !.specify = lines]
<1>1. Prepares(s, w)
  BY DEF UpdateSpecs
<1>2. lines \subseteq Attributes \X Values /\ \A pr \in lines : pr[1] = a
  OBVIOUS
<1>3. olds \subseteq Nat /\ \A x \in specs : x.attribute = a => x.id \in olds
  BY VariantsHave
<1> HIDE DEF lines, olds
<1>4. /\ w.op = "specify" /\ w.adds = {} /\ w.drops = {} /\ w.strips = {} /\ w.specify = lines /\ w.despecify = olds
  BY NothingIs DEF Writings
<1>5. w \in Writings
  BY <1>2, <1>3, <1>4, NothingIs DEF Writings, Ops
<1> HIDE DEF w
<1>6. WritesFit(w)
  BY <1>4 DEF WritesFit
<1>7. ASSUME NEW x \in specs, << x.attribute, x.value >> \in w.specify PROVE x.id \in w.despecify
  <2>1. << x.attribute, x.value >>[1] = a
    BY <1>2, <1>4, <1>7
  <2> QED BY <1>3, <1>4, <2>1
<1> QED BY <1>1, <1>4, <1>5, <1>6, <1>7, PreparesKeeps

\* Specifications to remove are noted by their ids.
LEMMA DespecifyKeeps ==
  ASSUME VariantsInv, WatchesVariants, NEW s \in Sellers, NEW ids \in SUBSET Nat,
         Prepares(s, [Nothing EXCEPT !.op = "despecify", !.despecify = ids])
  PROVE  VariantsInv'
<1> DEFINE w == [Nothing EXCEPT !.op = "despecify", !.despecify = ids]
<1>1. /\ w.op = "despecify" /\ w.adds = {} /\ w.drops = {} /\ w.strips = {} /\ w.specify = {}
  BY NothingIs DEF Writings
<1>2. w \in Writings
  BY <1>1, NothingIs DEF Writings, Ops
<1>3. Prepares(s, w)
  OBVIOUS
<1> HIDE DEF w
<1>4. WritesFit(w) /\ w.op \notin {"create", "specify"}
  BY <1>1 DEF WritesFit
<1> QED BY <1>2, <1>3, <1>4, PreparesKeeps

LEMMA RequestsChangeKeeps ==
  ASSUME VariantsInv, WatchesVariants, NEW s \in Sellers, RequestsChange(s) PROVE VariantsInv'
<1>1. ASSUME NEW row \in specs, RemoveSpec(s, row) PROVE VariantsInv'
  <2>1. {row.id} \in SUBSET Nat
    BY VariantsHave
  <2> QED BY <1>1, <2>1, DespecifyKeeps DEF RemoveSpec
<1>2. ASSUME NEW a \in Attributes, NEW value \in Values, RemoveSpecsOfValue(s, a, value) PROVE VariantsInv'
  <2> DEFINE ids == { row.id : row \in { row \in specs : row.attribute = a /\ row.value = value } }
  <2>1. ids \in SUBSET Nat
    BY VariantsHave
  <2>2. Prepares(s, [Nothing EXCEPT !.op = "despecify", !.despecify = ids])
    BY <1>2 DEF RemoveSpecsOfValue
  <2> HIDE DEF ids
  <2> QED BY <2>1, <2>2, DespecifyKeeps
<1>3. CASE VariantRequests(s)
  BY <1>3, CreateVariantKeeps, RemoveVariantRowKeeps, StripValueKeeps DEF VariantRequests
<1>4. CASE SpecRequests(s)
  BY <1>1, <1>2, <1>4, CreateSpecsKeeps, UpdateSpecsKeeps DEF SpecRequests
<1> QED BY <1>3, <1>4 DEF RequestsChange

-----------------------------------------------------------------------------
(* Writing. *)

\* What a commit leaves: rows kept, maybe stripped, and new ones.
Written(c, row, line) ==
  /\ \A combo \in c.adds : combo \subseteq known /\ row[combo] \in lastRow + 1 .. lastRow'
  /\ \A pr \in c.specify :
       pr[1] \in Attributes /\ pr[2] \in known /\ line[pr] \in lastRow + 1 .. lastRow'
  /\ \A x, y \in c.adds : row[x] = row[y] => x = y
  /\ variants' = { [v EXCEPT !.values = @ \ { x \in Values : << v.id, x >> \in c.strips }] :
                     v \in { w \in variants : w.id \notin c.drops } }
                   \cup { [id |-> row[combo], values |-> combo] : combo \in c.adds }
  /\ specs' = { x \in specs : x.id \notin c.despecify }
                \cup { [id |-> line[pr], attribute |-> pr[1], value |-> pr[2]] : pr \in c.specify }

LEMMA CommitsRows ==
  ASSUME VariantsInv, NEW s \in Sellers, CommitsChange(s), NEW c, c = change[s]
  PROVE  /\ c \in Writings /\ WritesFit(c) /\ Busy(s)
         /\ lastRow' \in Nat /\ lastRow <= lastRow'
         /\ \E row, line : Written(c, row, line)
<1> DEFINE n == Cardinality(c.adds)
           m == Cardinality(c.specify)
           row == Numbered(c.adds, lastRow)
           line == Numbered(c.specify, lastRow + n)
<1>1. c # NoChange /\ (UNION c.adds) \cup { pr[2] : pr \in c.specify } \subseteq known /\ lastRow' = lastRow + n + m
  BY DEF CommitsChange
<1>2. c \in Writings /\ WritesFit(c) /\ Busy(s)
  BY <1>1 DEF VariantsInv, VariantsTyped, Busy
<1>3. c.adds \subseteq SUBSET Values /\ c.specify \subseteq Attributes \X Values
  BY <1>2 DEF Writings
<1>4. IsFiniteSet(c.adds) /\ IsFiniteSet(c.specify)
  <2>1. IsFiniteSet(SUBSET Values) /\ IsFiniteSet(Attributes \X Values)
    BY VariantsAssumption, FS_SUBSET, FS_Product
  <2> QED BY <1>3, <2>1, FS_Subset
<1>5. n \in Nat /\ m \in Nat /\ lastRow \in Nat
  BY <1>4, FS_CardinalityType, VariantsHave
<1>6. /\ row \in [c.adds -> lastRow + 1 .. lastRow + n]
      /\ \A x, y \in c.adds : row[x] = row[y] => x = y
  BY <1>4, <1>5, NewNumbers
<1>7. line \in [c.specify -> lastRow + n + 1 .. lastRow + n + m]
  <2>1. lastRow + n \in Nat
    BY <1>5
  <2> HIDE DEF n
  <2> QED BY <1>4, <2>1, NewNumbers
<1>8. /\ variants' = { [v EXCEPT !.values = @ \ { x \in Values : << v.id, x >> \in c.strips }] :
                                 v \in { w \in variants : w.id \notin c.drops } }
                               \cup { [id |-> row[combo], values |-> combo] : combo \in c.adds }
      /\ specs' = { x \in specs : x.id \notin c.despecify }
                            \cup { [id |-> line[pr], attribute |-> pr[1], value |-> pr[2]] : pr \in c.specify }
  BY DEF CommitsChange
<1> HIDE DEF row, line, n, m
<1>9. lastRow' \in Nat /\ lastRow <= lastRow'
  BY <1>1, <1>5
<1>10. \A combo \in c.adds : combo \subseteq known /\ row[combo] \in lastRow + 1 .. lastRow'
  <2>1. \A combo \in c.adds : row[combo] \in lastRow + 1 .. lastRow + n
    BY <1>6
  <2> QED BY <1>1, <1>5, <2>1
<1>11. \A pr \in c.specify : pr[1] \in Attributes /\ pr[2] \in known /\ line[pr] \in lastRow + 1 .. lastRow'
  <2>1. \A pr \in c.specify : line[pr] \in lastRow + n + 1 .. lastRow + n + m
    BY <1>7
  <2>2. \A pr \in c.specify : line[pr] \in lastRow + 1 .. lastRow'
    BY <1>1, <1>5, <2>1
  <2>3. ASSUME NEW pr \in c.specify PROVE pr[1] \in Attributes /\ pr[2] \in known
    <3>1. pr[1] \in Attributes
      BY <1>3
    <3> DEFINE second == { x[2] : x \in c.specify }
    <3>2. pr[2] \in second
      OBVIOUS
    <3>3. (UNION c.adds) \cup second \subseteq known
      BY DEF CommitsChange
    <3> HIDE DEF second
    <3>4. second \subseteq known
      BY <3>3
    <3>5. pr[2] \in known
      BY <3>2, <3>4, Zenon
    <3> QED BY <3>1, <3>5
  <2> QED BY <2>2, <2>3
<1>12. Written(c, row, line)
  BY <1>6, <1>8, <1>10, <1>11 DEF Written
<1> QED BY <1>2, <1>9, <1>12

LEMMA CommitsChangeKeeps ==
  ASSUME VariantsInv, WatchesVariants, NEW s \in Sellers, CommitsChange(s)
  PROVE  VariantsInv'
<1>1. PICK c : c = change[s]
  OBVIOUS
<1>2. /\ c \in Writings /\ WritesFit(c) /\ Busy(s) /\ lastRow' \in Nat /\ lastRow <= lastRow'
  BY <1>1, CommitsRows
<1>25. PICK row, line : Written(c, row, line)
  BY <1>1, CommitsRows
<1>3. /\ \A combo \in c.adds : combo \subseteq known /\ row[combo] \in lastRow + 1 .. lastRow'
      /\ \A pr \in c.specify :
           pr[1] \in Attributes /\ pr[2] \in known /\ line[pr] \in lastRow + 1 .. lastRow'
      /\ \A x, y \in c.adds : row[x] = row[y] => x = y
      /\ variants' = { [v EXCEPT !.values = @ \ { x \in Values : << v.id, x >> \in c.strips }] :
                         v \in { w \in variants : w.id \notin c.drops } }
                       \cup { [id |-> row[combo], values |-> combo] : combo \in c.adds }
      /\ specs' = { x \in specs : x.id \notin c.despecify }
                    \cup { [id |-> line[pr], attribute |-> pr[1], value |-> pr[2]] : pr \in c.specify }
  BY <1>25 DEF Written
<1>4. /\ known' = known /\ linked' = linked \cup c.link /\ change' = [change EXCEPT ![s] = NoChange]
  BY <1>1 DEF CommitsChange
<1>5. /\ change \in [Sellers -> {NoChange} \cup Writings]
      /\ change' \in [Sellers -> {NoChange} \cup Writings]
      /\ \A t \in Sellers : change'[t] = IF t = s THEN NoChange ELSE change[t]
      /\ \A t \in Sellers : Busy(t)' => t # s /\ Busy(t) /\ change'[t] = change[t]
  BY <1>4 DEF VariantsInv, VariantsTyped, Busy
<1>6. /\ Paired' /\ overlapped \subseteq overlapped' /\ (Spoiled => Spoiled')
  BY PairsRemembered
<1> DEFINE kept == [v \in variants |-> [v EXCEPT !.values = @ \ { x \in Values : << v.id, x >> \in c.strips }]]
           new == [combo \in c.adds |-> [id |-> row[combo], values |-> combo]]
           Retained(w) == \E v \in variants : w = kept[v] /\ v.id \notin c.drops
           New(w) == \E combo \in c.adds : w = new[combo]
<1>7. \A v \in variants : kept[v].id = v.id /\ kept[v].values \subseteq v.values
                          /\ kept[v] \in [id : 1 .. lastRow, values : SUBSET known]
                          /\ (c.strips = {} => kept[v] = v)
  <2> SUFFICES ASSUME NEW v \in variants
               PROVE  kept[v].id = v.id /\ kept[v].values \subseteq v.values
                          /\ kept[v] \in [id : 1 .. lastRow, values : SUBSET known]
                          /\ (c.strips = {} => kept[v] = v)
    OBVIOUS
  <2>1. v \in [id : 1 .. lastRow, values : SUBSET known]
    BY VariantsHave DEF VariantRows
  <2> DEFINE less == v.values \ { x \in Values : << v.id, x >> \in c.strips }
  <2>2. kept[v] = [v EXCEPT !.values = less]
    OBVIOUS
  <2>3. less \subseteq v.values /\ (c.strips = {} => less = v.values)
    OBVIOUS
  <2> HIDE DEF less, kept
  <2>4. kept[v].id = v.id /\ kept[v].values = less
    BY <2>1, <2>2
  <2>5. kept[v] \in [id : 1 .. lastRow, values : SUBSET known]
    BY <2>1, <2>2, <2>3
  <2> QED BY <2>1, <2>2, <2>3, <2>4, <2>5
<1>8. \A combo \in c.adds : /\ new[combo].id = row[combo] /\ new[combo].values = combo
                            /\ new[combo].id \in lastRow + 1 .. lastRow' /\ combo \subseteq known
                            /\ new[combo] \in [id : lastRow + 1 .. lastRow', values : SUBSET known]
  BY <1>3
<1>9. variants' = { kept[v] : v \in { w \in variants : w.id \notin c.drops } } \cup { new[combo] : combo \in c.adds }
  BY <1>3
<1> HIDE DEF kept, new
<1>10. \A w \in variants' : Retained(w) \/ New(w)
  BY <1>9
<1> HIDE DEF Retained, New
<1>11. \A v \in variants : v.id \notin c.drops => kept[v] \in variants'
  BY <1>9
<1>12. \A combo \in c.adds : new[combo] \in variants'
  BY <1>9
<1>13. lastRow \in Nat
  BY VariantsHave
<1>14. \A w \in variants' : w \in VariantRows' /\ Single(w.values)
  <2> SUFFICES ASSUME NEW w \in variants' PROVE w \in [id : 1 .. lastRow', values : SUBSET known] /\ Single(w.values)
    BY <1>4 DEF VariantRows
  <2>1. CASE Retained(w)
    <3>1. PICK v \in variants : w = kept[v]
      BY <2>1 DEF Retained
    <3>2. w \in [id : 1 .. lastRow, values : SUBSET known] /\ w.values \subseteq v.values
      BY <1>7, <3>1
    <3>3. Single(v.values)
      BY DEF VariantsInv, VariantsTyped
    <3>4. w \in [id : 1 .. lastRow', values : SUBSET known]
      BY <1>2, <1>13, <3>2
    <3> QED BY <3>2, <3>3, <3>4 DEF Single
  <2>2. CASE New(w)
    <3>1. PICK combo \in c.adds : w = new[combo]
      BY <2>2 DEF New
    <3>2. w \in [id : lastRow + 1 .. lastRow', values : SUBSET known] /\ w.values = combo
      BY <1>8, <3>1
    <3> QED BY <1>2, <1>13, <3>2 DEF WritesFit
  <2> QED BY <1>10, <2>1, <2>2
<1>15. \A v, w \in variants' : v.id = w.id => v = w
  <2> SUFFICES ASSUME NEW v \in variants', NEW w \in variants', v.id = w.id PROVE v = w
    OBVIOUS
  <2>1. \A x \in variants' : Retained(x) => x.id \in 1 .. lastRow
    BY <1>7 DEF Retained
  <2>2. \A x \in variants' : New(x) => x.id \in lastRow + 1 .. lastRow'
    BY <1>8 DEF New
  <2>3. CASE Retained(v) /\ Retained(w)
    <3>1. PICK x \in variants : v = kept[x]
      BY <2>3 DEF Retained
    <3>2. PICK y \in variants : w = kept[y]
      BY <2>3 DEF Retained
    <3>3. x.id = y.id
      BY <1>7, <3>1, <3>2
    <3> QED BY <3>1, <3>2, <3>3 DEF VariantsInv, VariantsTyped
  <2>4. CASE New(v) /\ New(w)
    BY <1>3, <1>8, <2>4 DEF New
  <2>5. CASE Retained(v) /\ New(w)
    BY <2>1, <2>2, <2>5, <1>2, <1>13
  <2>6. CASE New(v) /\ Retained(w)
    BY <2>1, <2>2, <2>6, <1>2, <1>13
  <2> QED BY <1>10, <2>3, <2>4, <2>5, <2>6
<1>16. \A x \in specs' : x \in SpecRows'
  <2> SUFFICES ASSUME NEW x \in specs' PROVE x \in [id : 1 .. lastRow', attribute : Attributes, value : known]
    BY <1>4 DEF SpecRows
  <2>1. CASE x \in specs
    <3>1. x \in [id : 1 .. lastRow, attribute : Attributes, value : known]
      BY <2>1, VariantsHave DEF SpecRows
    <3> QED BY <1>2, <1>13, <3>1
  <2>2. CASE x \notin specs
    <3>1. PICK pr \in c.specify : x = [id |-> line[pr], attribute |-> pr[1], value |-> pr[2]]
      BY <1>3, <2>2
    <3>2. line[pr] \in 1 .. lastRow'
      BY <1>2, <1>3, <1>13
    <3> QED BY <1>3, <3>1, <3>2
  <2> QED BY <2>1, <2>2
<1>17. VariantsTyped'
  <2>1. c.link \subseteq Attributes
    BY <1>2 DEF Writings
  <2>2. linked' \subseteq Attributes
    BY <2>1, <1>4, VariantsHave
  <2>3. \A t \in Sellers : Busy(t)' => WritesFit(change'[t])
    BY <1>5 DEF VariantsInv, VariantsTyped
  <2>4. known' \subseteq Values
    BY <1>4, VariantsHave
  <2>5. DOMAIN change' = Sellers
    BY <1>5
  <2> QED BY <1>2, <1>5, <1>14, <1>15, <1>16, <2>2, <2>3, <2>4, <2>5 DEF VariantsTyped, VariantsTypeOK
<1>18. c.op \notin {"create", "remove", "strip"} => variants' = variants
  <2> SUFFICES ASSUME c.op \notin {"create", "remove", "strip"} PROVE variants' = variants
    OBVIOUS
  <2>1. c.adds = {} /\ c.drops = {} /\ c.strips = {}
    BY <1>2 DEF WritesFit
  <2>2. \A w \in variants' : w \in variants
    BY <1>7, <1>10, <2>1 DEF Retained, New
  <2>3. \A w \in variants : w \in variants'
    BY <1>7, <1>11, <2>1
  <2> QED BY <2>2, <2>3
<1>19. CreatesFit'
  <2> SUFFICES ASSUME ~Spoiled', NEW t \in Sellers, Busy(t)', change'[t].op = "create"
               PROVE  \E all \in (SUBSET known)' \ {{}} :
                        /\ InUse(variants)' \subseteq all
                        /\ change'[t].adds = Cartesian(all) \ Combos' /\ change'[t].drops = Fewer(all)'
    BY DEF CreatesFit
  <2>1. t # s /\ Busy(t) /\ change'[t] = change[t]
    BY <1>5
  <2>2. {c.op, "create"} \in overlapped
    BY <1>1, <1>2, <2>1 DEF VariantsInv, Paired
  <2>3. ~({c.op, "create"} \subseteq {"create", "remove", "strip", "delete"})
    BY <1>6, <2>2 DEF Spoiled
  <2>4. variants' = variants
    BY <1>18, <2>3
  <2>5. Combos' = Combos /\ InUse(variants)' = InUse(variants) /\ \A all : Fewer(all)' = Fewer(all)
    BY <2>4 DEF Combos, InUse, Fewer
  <2> QED BY <1>4, <1>6, <2>1, <2>5 DEF VariantsInv, CreatesFit
<1>20. /\ stripped => stripped'
       /\ c.op = "strip" => stripped'
       /\ whole' /\ c.op # "create" => variants' = variants /\ whole
  <2>1. stripped' = (stripped \/ known' # known
          \/ \E t \in Sellers : change[t] # NoChange /\ change[t].op = "strip" /\ change'[t] = NoChange)
    BY DEF WatchesVariants
  <2>2. c.op = "strip" => stripped'
    BY <1>1, <1>2, <1>5, <2>1 DEF Busy
  <2>3. whole' = IF variants' = variants THEN whole
               ELSE \E t \in Sellers : Busy(t) /\ change[t].op = "create" /\ ~Busy(t)'
    BY DEF WatchesVariants
  <2>4. \A t \in Sellers : Busy(t) /\ ~Busy(t)' => t = s
    BY <1>5 DEF Busy
  <2> QED BY <1>1, <2>1, <2>2, <2>3, <2>4
<1>21. ASSUME ~Spoiled, c.op = "create"
       PROVE  Combos' = Cartesian(InUse(variants))' /\ (stripped \/ \A v, w \in variants' : v.values = w.values => v = w)
  <2>1. c.strips = {}
    BY <1>2, <1>21 DEF WritesFit
  <2>2. PICK all \in (SUBSET known) \ {{}} :
          InUse(variants) \subseteq all /\ c.adds = Cartesian(all) \ Combos /\ c.drops = Fewer(all)
    BY <1>1, <1>2, <1>21 DEF VariantsInv, CreatesFit
  <2>3. all \in SUBSET Values /\ all # {}
    BY <2>2, VariantsHave
  <2>4. ASSUME NEW v \in variants, v.id \notin c.drops PROVE v.values \in Cartesian(all)
    <3>1. v.values \in SUBSET all
      BY <2>2 DEF InUse
    <3>2. ~(Cardinality(AttributesOf(v.values)) < Cardinality(AttributesOf(all)))
      BY <2>2, <2>4 DEF Fewer
    <3>3. AttributesOf(v.values) = AttributesOf(all)
      BY <2>3, <3>1, <3>2, AllAttributes
    <3>4. v.values # {}
      BY <2>3, <3>3 DEF AttributesOf
    <3>5. Single(v.values)
      BY DEF VariantsInv, VariantsTyped
    <3> QED BY <2>3, <3>1, <3>3, <3>4, <3>5, CartesianIs
  <2>5. ASSUME NEW w \in variants' PROVE w.values \in Cartesian(all)
    <3>1. CASE Retained(w)
      BY <1>7, <2>1, <2>4, <3>1 DEF Retained
    <3>2. CASE New(w)
      BY <1>8, <2>2, <3>2 DEF New
    <3> QED BY <1>10, <3>1, <3>2
  <2>6. ASSUME NEW combo \in Cartesian(all) PROVE \E w \in variants' : w.values = combo
    <3>1. CASE combo \in Combos
      <4>1. PICK v \in variants : v.values = combo
        BY <3>1 DEF Combos
      <4>2. AttributesOf(combo) = AttributesOf(all)
        BY <2>3, CartesianIs
      <4>3. v.id \notin c.drops
        <5> SUFFICES ASSUME v.id \in Fewer(all) PROVE FALSE
          BY <2>2
        <5>1. PICK w \in variants : w.id = v.id /\ Cardinality(AttributesOf(w.values)) < Cardinality(AttributesOf(all))
          BY DEF Fewer
        <5>2. w = v
          BY <5>1 DEF VariantsInv, VariantsTyped
        <5>3. Cardinality(AttributesOf(all)) \in Nat
          BY <2>3, FiniteValues, FS_CardinalityType
        <5> QED BY <4>1, <4>2, <5>1, <5>2, <5>3
      <4> QED BY <1>7, <1>11, <2>1, <4>1, <4>3
    <3>2. CASE combo \notin Combos
      BY <1>8, <1>12, <2>2, <3>2
    <3> QED BY <3>1, <3>2
  <2>7. Combos' = Cartesian(all)
    BY <2>5, <2>6 DEF Combos
  <2>8. InUse(variants)' = all
    <3>1. InUse(variants)' = UNION Combos'
      BY DEF InUse, Combos
    <3> QED BY <2>3, <2>7, <3>1, CombinationsUseAll
  <2>9. ASSUME ~stripped, NEW v \in variants', NEW w \in variants', v.values = w.values PROVE v = w
    <3>1. \A x, y \in variants : x.values = y.values => x = y
      BY <1>21, <2>9 DEF VariantsInv, Products
    <3>2. CASE Retained(v) /\ Retained(w)
      BY <1>7, <2>1, <2>9, <3>1, <3>2 DEF Retained
    <3>3. CASE New(v) /\ New(w)
      BY <1>8, <2>9, <3>3 DEF New
    <3>4. \A x \in variants' : Retained(x) => x.values \in Combos
      BY <1>7, <2>1 DEF Retained, Combos
    <3>5. \A x \in variants' : New(x) => x.values \notin Combos
      BY <1>8, <2>2 DEF New
    <3> QED BY <1>10, <2>9, <3>2, <3>3, <3>4, <3>5
  <2>10. Cartesian(InUse(variants))' = Cartesian(all)
    BY <2>8 DEF Cartesian, AttributesOf
  <2> QED BY <2>7, <2>9, <2>10
<1>22. Products'
  <2> SUFFICES ASSUME ~Spoiled
               PROVE  /\ whole' => Combos' = Cartesian(InUse(variants))'
                      /\ stripped' \/ \A v, w \in variants' : v.values = w.values => v = w
    BY <1>6 DEF Products
  <2>1. CASE c.op = "create"
    BY <1>20, <1>21, <2>1
  <2>2. CASE c.op # "create"
    <3>1. ASSUME whole' PROVE Combos' = Cartesian(InUse(variants))'
      <4>1. variants' = variants /\ whole
        BY <1>20, <2>2, <3>1
      <4>2. Combos' = Combos /\ InUse(variants)' = InUse(variants)
        BY <4>1 DEF Combos, InUse
      <4>3. Cartesian(InUse(variants))' = Cartesian(InUse(variants))
        BY <4>2 DEF Cartesian, AttributesOf
      <4>4. Combos = Cartesian(InUse(variants))
        BY <4>1 DEF VariantsInv, Products
      <4> QED BY <4>2, <4>3, <4>4
    <3>2. ASSUME ~stripped' PROVE \A v, w \in variants' : v.values = w.values => v = w
      <4>1. c.adds = {} /\ c.strips = {} /\ ~stripped
        BY <1>2, <1>20, <2>2, <3>2 DEF WritesFit
      <4>2. \A w \in variants' : w \in variants
        BY <1>7, <1>10, <4>1 DEF Retained, New
      <4> QED BY <4>1, <4>2 DEF VariantsInv, Products
    <3> QED BY <3>1, <3>2
  <2> QED BY <2>1, <2>2
<1>23. SpecsFit'
  <2> SUFFICES ASSUME {"specify"} \notin overlapped', NEW t \in Sellers, Busy(t)', change'[t].op = "specify"
               PROVE  \A x \in specs' : << x.attribute, x.value >> \in change'[t].specify => x.id \in change'[t].despecify
    BY DEF SpecsFit
  <2>1. t # s /\ Busy(t) /\ change'[t] = change[t] /\ {"specify"} \notin overlapped
    BY <1>5, <1>6
  <2>2. c.op # "specify"
    <3> SUFFICES ASSUME c.op = "specify" PROVE FALSE
      OBVIOUS
    <3>1. {change[s].op, change[t].op} \in overlapped
      BY <1>2, <2>1 DEF VariantsInv, Paired
    <3>2. {change[s].op, change[t].op} = {"specify"}
      BY <1>1, <2>1
    <3> QED BY <2>1, <3>1, <3>2
  <2>3. c.specify = {}
    BY <1>2, <2>2 DEF WritesFit
  <2>4. \A x \in specs' : x \in specs
    BY <1>3, <2>3
  <2> QED BY <2>1, <2>4 DEF VariantsInv, SpecsFit
<1>24. SpecsSingle'
  <2> SUFFICES ASSUME {"specify"} \notin overlapped', NEW x \in specs', NEW y \in specs',
                      x.attribute = y.attribute, x.value = y.value
               PROVE  x = y
    BY DEF SpecsSingle
  <2>1. {"specify"} \notin overlapped
    BY <1>6
  <2>2. \A z \in specs' : \/ z \in specs /\ z.id \notin c.despecify
                          \/ \E pr \in c.specify : z = [id |-> line[pr], attribute |-> pr[1], value |-> pr[2]]
    BY <1>3
  <2>3. ASSUME NEW z \in specs', NEW pr \in c.specify,
               z = [id |-> line[pr], attribute |-> pr[1], value |-> pr[2]]
        PROVE  << z.attribute, z.value >> = pr
    <3>1. pr \in Attributes \X Values
      BY <1>2 DEF Writings
    <3> QED BY <2>3, <3>1
  <2>4. ASSUME NEW z \in specs, z.id \notin c.despecify PROVE << z.attribute, z.value >> \notin c.specify
    <3>1. CASE c.op = "specify"
      BY <1>1, <1>2, <2>1, <2>4, <3>1 DEF VariantsInv, SpecsFit
    <3>2. CASE c.op # "specify"
      BY <1>2, <3>2 DEF WritesFit
    <3> QED BY <3>1, <3>2
  <2>5. CASE x \in specs /\ y \in specs
    BY <2>1, <2>5 DEF VariantsInv, SpecsSingle
  <2>6. CASE x \notin specs
    <3>1. PICK p \in c.specify : x = [id |-> line[p], attribute |-> p[1], value |-> p[2]]
      BY <2>2, <2>6
    <3>2. << y.attribute, y.value >> = p
      BY <2>3, <3>1
    <3>3. PICK q \in c.specify : y = [id |-> line[q], attribute |-> q[1], value |-> q[2]]
      BY <2>2, <2>4, <3>2
    <3>4. p = q
      BY <2>3, <3>2, <3>3
    <3> QED BY <3>1, <3>3, <3>4
  <2>7. CASE y \notin specs
    <3>1. PICK p \in c.specify : y = [id |-> line[p], attribute |-> p[1], value |-> p[2]]
      BY <2>2, <2>7
    <3>2. << x.attribute, x.value >> = p
      BY <2>3, <3>1
    <3>3. PICK q \in c.specify : x = [id |-> line[q], attribute |-> q[1], value |-> q[2]]
      BY <2>2, <2>4, <3>2
    <3>4. p = q
      BY <2>3, <3>2, <3>3
    <3> QED BY <3>1, <3>3, <3>4
  <2> QED BY <2>5, <2>6, <2>7
<1> QED BY <1>6, <1>17, <1>19, <1>22, <1>23, <1>24 DEF VariantsInv

LEMMA AbandonsChangeKeeps ==
  ASSUME VariantsInv, WatchesVariants, NEW s \in Sellers, AbandonsChange(s)
  PROVE  VariantsInv'
<1>1. /\ change' = [change EXCEPT ![s] = NoChange] /\ known' = known /\ variants' = variants
      /\ specs' = specs /\ linked' = linked /\ lastRow' = lastRow
  BY DEF AbandonsChange
<1>2. /\ change' \in [Sellers -> {NoChange} \cup Writings]
      /\ \A t \in Sellers : Busy(t)' => t # s /\ Busy(t) /\ change'[t] = change[t]
  BY <1>1 DEF VariantsInv, VariantsTyped, Busy
<1>3. /\ Paired' /\ overlapped \subseteq overlapped' /\ (Spoiled => Spoiled')
  BY PairsRemembered
<1>4. VariantsTyped'
  BY <1>1, <1>2 DEF VariantsInv, VariantsTyped, VariantsTypeOK, VariantRows, SpecRows
<1>5. Combos' = Combos /\ InUse(variants)' = InUse(variants) /\ \A all : Fewer(all)' = Fewer(all)
  BY <1>1 DEF Combos, InUse, Fewer
<1>6. CreatesFit'
  BY <1>1, <1>2, <1>3, <1>5 DEF VariantsInv, CreatesFit
<1>7. (stripped => stripped') /\ (whole' => whole)
  BY <1>1 DEF WatchesVariants
<1>8. Products'
  BY <1>1, <1>3, <1>5, <1>7 DEF VariantsInv, Products
<1>9. SpecsFit' /\ SpecsSingle'
  BY <1>1, <1>2, <1>3 DEF VariantsInv, SpecsFit, SpecsSingle
<1> QED BY <1>3, <1>4, <1>6, <1>8, <1>9 DEF VariantsInv

LEMMA DeleteValueKeeps ==
  ASSUME VariantsInv, WatchesVariants, NEW value \in Values, DeleteValue(value)
  PROVE  VariantsInv'
<1>1. /\ value \in known /\ known' = known \ {value} /\ \A x \in specs : x.value # value
      /\ variants' = { [v EXCEPT !.values = @ \ {value}] : v \in variants }
      /\ specs' = specs /\ linked' = linked /\ lastRow' = lastRow /\ change' = change
  BY DEF DeleteValue
<1>2. /\ Paired' /\ overlapped \subseteq overlapped' /\ (Spoiled => Spoiled')
      /\ \A s \in Sellers : Busy(s) => {"delete", change[s].op} \in overlapped'
  BY <1>1, PairsRemembered
<1>3. \A w \in variants' : \E v \in variants :
        w \in [id : 1 .. lastRow, values : SUBSET known'] /\ w.id = v.id /\ w.values = v.values \ {value}
        /\ w = [v EXCEPT !.values = @ \ {value}]
  <2> SUFFICES ASSUME NEW v \in variants, NEW w, w = [v EXCEPT !.values = @ \ {value}]
               PROVE  w \in [id : 1 .. lastRow, values : SUBSET known'] /\ w.id = v.id /\ w.values = v.values \ {value}
    BY <1>1
  <2>1. v \in [id : 1 .. lastRow, values : SUBSET known]
    BY VariantsHave DEF VariantRows
  <2> QED BY <1>1, <2>1
<1>4. VariantsTyped'
  <2>1. variants' \subseteq VariantRows'
    BY <1>1, <1>3 DEF VariantRows
  <2>2. specs' \subseteq SpecRows'
    BY <1>1 DEF VariantsInv, VariantsTyped, VariantsTypeOK, SpecRows
  <2>3. \A v, w \in variants' : v.id = w.id => v = w
    <3> SUFFICES ASSUME NEW v \in variants', NEW w \in variants', v.id = w.id PROVE v = w
      OBVIOUS
    <3>1. PICK x \in variants : v.id = x.id /\ v = [x EXCEPT !.values = @ \ {value}]
      BY <1>3
    <3>2. PICK y \in variants : w.id = y.id /\ w = [y EXCEPT !.values = @ \ {value}]
      BY <1>3
    <3>3. x = y
      BY <3>1, <3>2 DEF VariantsInv, VariantsTyped
    <3> QED BY <3>1, <3>2, <3>3
  <2>4. ASSUME NEW w \in variants' PROVE Single(w.values)
    <3>1. PICK v \in variants : w.values = v.values \ {value}
      BY <1>3
    <3> QED BY <3>1 DEF VariantsInv, VariantsTyped, Single
  <2>5. known' \subseteq Values /\ linked' \subseteq Attributes /\ lastRow' \in Nat
    BY <1>1, VariantsHave
  <2>6. \A s \in Sellers : Busy(s)' => WritesFit(change'[s])
    BY <1>1 DEF VariantsInv, VariantsTyped, Busy
  <2> QED BY <1>1, <2>1, <2>2, <2>3, <2>4, <2>5, <2>6 DEF VariantsInv, VariantsTyped, VariantsTypeOK
<1>5. CreatesFit'
  <2> SUFFICES ASSUME ~Spoiled', NEW s \in Sellers, Busy(s), change[s].op = "create" PROVE FALSE
    BY <1>1 DEF CreatesFit, Busy
  <2>1. {"delete", "create"} \in overlapped'
    BY <1>2
  <2> QED BY <2>1 DEF Spoiled
<1>6. stripped' /\ (whole' => variants' = variants /\ whole)
  <2>1. stripped' /\ known' # known
    BY <1>1 DEF WatchesVariants
  <2>2. ASSUME whole' PROVE variants' = variants /\ whole
    <3>1. ~\E s \in Sellers : Busy(s) /\ ~Busy(s)'
      BY <1>1 DEF Busy
    <3>2. whole' = IF variants' = variants THEN whole
               ELSE \E s \in Sellers : Busy(s) /\ change[s].op = "create" /\ ~Busy(s)'
      BY DEF WatchesVariants
    <3> QED BY <2>2, <3>1, <3>2
  <2> QED BY <2>1, <2>2
<1>7. Products'
  <2> SUFFICES ASSUME ~Spoiled, whole' PROVE Combos' = Cartesian(InUse(variants))'
    BY <1>2, <1>6 DEF Products
  <2>1. Combos' = Combos /\ InUse(variants)' = InUse(variants)
    BY <1>6 DEF Combos, InUse
  <2>2. Cartesian(InUse(variants))' = Cartesian(InUse(variants))
    BY <2>1 DEF Cartesian, AttributesOf
  <2>3. Combos = Cartesian(InUse(variants))
    BY <1>6 DEF VariantsInv, Products
  <2> QED BY <2>1, <2>2, <2>3
<1>8. SpecsFit' /\ SpecsSingle'
  BY <1>1, <1>2 DEF VariantsInv, SpecsFit, SpecsSingle, Busy
<1> QED BY <1>2, <1>4, <1>5, <1>7, <1>8 DEF VariantsInv

-----------------------------------------------------------------------------

LEMMA VariantsStart == WatchedVariantsInit => VariantsInv
<1> SUFFICES ASSUME WatchedVariantsInit PROVE VariantsInv
  OBVIOUS
<1>1. /\ known = Values /\ change = [s \in Sellers |-> NoChange] /\ overlapped = {}
  BY DEF WatchedVariantsInit, VariantsInit
<1>2. PICK values \in SUBSET { v \in Values : AttributeOf[v] \in Varying },
           v \in SUBSET { v \in Values : AttributeOf[v] \notin Varying } :
        /\ variants = { [id |-> Numbered(Cartesian(values), 0)[combo], values |-> combo] : combo \in Cartesian(values) }
        /\ specs = { [id |-> Numbered(v, Cardinality(Cartesian(values)))[x], attribute |-> AttributeOf[x], value |-> x] : x \in v }
        /\ linked = AttributesOf(values \cup v)
        /\ lastRow = Cardinality(Cartesian(values)) + Cardinality(v)
  BY DEF WatchedVariantsInit, VariantsInit
<1> DEFINE all == Cartesian(values)
           n == Cardinality(all)
           m == Cardinality(v)
           row == Numbered(all, 0)
           line == Numbered(v, n)
<1>3. values \in SUBSET Values /\ v \in SUBSET Values
  OBVIOUS
<1>4. IsFiniteSet(all) /\ IsFiniteSet(v) /\ n \in Nat /\ m \in Nat /\ all \subseteq SUBSET Values
  BY <1>3, FiniteValues, FS_CardinalityType
<1>5. row \in [all -> 1 .. n] /\ \A x, y \in all : row[x] = row[y] => x = y
  <2> HIDE DEF all, n
  <2>1. /\ row \in [all -> 0 + 1 .. 0 + Cardinality(all)]
        /\ \A x, y \in all : row[x] = row[y] => x = y
    BY <1>4, NewNumbers
  <2>2. 0 + 1 = 1 /\ 0 + n = n
    BY <1>4
  <2> QED BY <2>1, <2>2 DEF n
<1>6. line \in [v -> n + 1 .. n + m]
  BY <1>4, NewNumbers
<1>7. /\ variants = { [id |-> row[combo], values |-> combo] : combo \in all }
      /\ specs = { [id |-> line[x], attribute |-> AttributeOf[x], value |-> x] : x \in v }
      /\ lastRow = n + m
  BY <1>2
<1>8. \A combo \in all : Single(combo)
  BY <1>3, CartesianIs
<1>9. UNION all = values
  BY <1>3, CombinationsUseAll
<1> HIDE DEF row, line, n, m
<1>10. ASSUME NEW w \in variants
       PROVE  /\ w.values \in all /\ w \in [id : 1 .. lastRow, values : SUBSET Values]
              /\ w.id = row[w.values]
  <2>1. PICK combo \in all : w = [id |-> row[combo], values |-> combo]
    BY <1>7
  <2>2. row[combo] \in 1 .. lastRow
    BY <1>4, <1>5, <1>7
  <2> QED BY <1>4, <2>1, <2>2
<1>11. { w.values : w \in variants } = all
  <2>1. \A combo \in all : \E w \in variants : w.values = combo
    <3> SUFFICES ASSUME NEW combo \in all PROVE \E w \in variants : w.values = combo
      OBVIOUS
    <3>1. [id |-> row[combo], values |-> combo] \in variants
      BY <1>7
    <3>2. [id |-> row[combo], values |-> combo].values = combo
      OBVIOUS
    <3> QED BY <3>1, <3>2
  <2> QED BY <1>10, <2>1
<1>12. \A u, w \in variants : u.values = w.values \/ u.id = w.id => u = w
  <2> SUFFICES ASSUME NEW u \in variants, NEW w \in variants, u.values = w.values \/ u.id = w.id PROVE u = w
    OBVIOUS
  <2>1. u.values = w.values
    BY <1>5, <1>10
  <2>2. u.id = w.id
    BY <1>10, <2>1
  <2> QED BY <1>10, <2>1, <2>2
<1>13. ASSUME NEW x \in specs
       PROVE  /\ x \in [id : 1 .. lastRow, attribute : Attributes, value : Values]
              /\ \E y \in v : x.value = y /\ x = [id |-> line[y], attribute |-> AttributeOf[y], value |-> y]
  <2>1. PICK y \in v : x = [id |-> line[y], attribute |-> AttributeOf[y], value |-> y]
    BY <1>7
  <2>2. line[y] \in 1 .. lastRow
    BY <1>4, <1>6, <1>7
  <2>3. y \in Values /\ AttributeOf[y] \in Attributes
    BY <1>3, VariantsAssumption
  <2> QED BY <2>1, <2>2, <2>3
<1>14. VariantsTypeOK
  <2>1. linked \subseteq Attributes
    BY <1>2, <1>3, VariantsAssumption DEF AttributesOf
  <2>2. lastRow \in Nat
    BY <1>4, <1>7
  <2>3. variants \subseteq VariantRows /\ specs \subseteq SpecRows
    BY <1>1, <1>10, <1>13 DEF VariantRows, SpecRows
  <2> QED BY <1>1, <2>1, <2>2, <2>3 DEF VariantsTypeOK
<1>15. VariantsTyped
  BY <1>1, <1>8, <1>10, <1>12, <1>14 DEF VariantsTyped, Busy
<1>16. InUse(variants) = values
  <2>1. InUse(variants) = UNION { w.values : w \in variants }
    BY DEF InUse
  <2> QED BY <1>9, <1>11, <2>1
<1>17. Products
  BY <1>11, <1>12, <1>16 DEF Products, Combos
<1>18. Paired /\ CreatesFit /\ SpecsFit
  BY <1>1 DEF Paired, CreatesFit, SpecsFit, Busy
<1>19. SpecsSingle
  BY <1>13 DEF SpecsSingle
<1> QED BY <1>15, <1>17, <1>18, <1>19 DEF VariantsInv

LEMMA VariantsStep ==
  ASSUME VariantsInv, [WatchedVariantsNext]_<< variantVars, variantWatch >> PROVE VariantsInv'
<1>1. CASE UNCHANGED << variantVars, variantWatch >>
  <2>1. /\ known' = known /\ variants' = variants /\ specs' = specs /\ linked' = linked /\ lastRow' = lastRow
        /\ change' = change /\ overlapped' = overlapped /\ stripped' = stripped /\ whole' = whole
    BY <1>1 DEF variantVars, variantWatch
  <2>2. VariantsTyped'
    BY <2>1 DEF VariantsInv, VariantsTyped, VariantsTypeOK, VariantRows, SpecRows, Busy
  <2>3. Combos' = Combos /\ InUse(variants)' = InUse(variants) /\ (Spoiled' <=> Spoiled)
        /\ \A all : Fewer(all)' = Fewer(all)
    BY <2>1 DEF Combos, InUse, Fewer, Spoiled
  <2>4. CreatesFit' /\ Products' /\ Paired'
    BY <2>1, <2>3 DEF VariantsInv, CreatesFit, Products, Paired, Busy
  <2>5. SpecsFit' /\ SpecsSingle'
    BY <2>1 DEF VariantsInv, SpecsFit, SpecsSingle, Busy
  <2> QED BY <2>2, <2>4, <2>5 DEF VariantsInv
<1>2. CASE WatchedVariantsNext
  BY <1>2, RequestsChangeKeeps, DeleteValueKeeps, CommitsChangeKeeps, AbandonsChangeKeeps
  DEF WatchedVariantsNext, EndsChange
<1> QED BY <1>1, <1>2

LEMMA VariantsInvHolds == WatchedVariantsSpec => []VariantsInv
BY VariantsStart, VariantsStep, PTL DEF WatchedVariantsSpec

\* Variants and specifications have ids that were given and values that exist,
\* whatever is prepared, committed, abandoned or deleted meanwhile.
THEOREM VariantsTyping == WatchedVariantsSpec => []VariantsTypeOK
<1>1. VariantsInv => VariantsTypeOK
  BY DEF VariantsInv, VariantsTyped
<1> QED BY <1>1, VariantsInvHolds, PTL

\* After a create the variants are the product of the values in use, single
\* unless values were taken away, and specifications are single, as long as no
\* two requests that can spoil it overlap.
THEOREM VariantsKept == WatchedVariantsSpec => []VariantsSound
<1>1. VariantsInv => VariantsSound
  BY DEF VariantsInv, Products, SpecsSingle, VariantsSound, Spoiled, Combos
<1> QED BY <1>1, VariantsInvHolds, PTL

-----------------------------------------------------------------------------
\* The cards, the orders and the promotions.

-----------------------------------------------------------------------------
(* Sums over finite sets of rows. *)

LEMMA SmallestSubset ==
  ASSUME NEW S, IsFiniteSet(S), NEW W, W \subseteq SUBSET S, W # {}
  PROVE \E A \in W : \A B \in W : B \subseteq A => B = A
<1>1. PICK x \in W : \A y \in W : ~ (<<y, x>> \in StrictSubsetOrdering(S))
  <2>1. W \subseteq FiniteSubsetsOf(S)
    BY FS_Subset DEF FiniteSubsetsOf
  <2> QED BY <2>1, FS_StrictSubsetOrderingWellFounded, WFMin
<1> QED BY <1>1 DEF StrictSubsetOrdering

\* Of finitely many numbered things one has the highest number.
LEMMA Highest ==
  ASSUME NEW S, IsFiniteSet(S), S # {}, NEW f, \A a \in S : f[a] \in Nat
  PROVE  \E a \in S : \A b \in S : f[b] <= f[a]
<1> SUFFICES ASSUME \A a \in S : \E b \in S : f[b] > f[a] PROVE FALSE
  OBVIOUS
<1> DEFINE W == { A \in SUBSET S : A # {} /\ \A a \in A : \E b \in A : f[b] > f[a] }
<1>1. W \subseteq SUBSET S /\ W # {}
  <2>1. S \in W
    OBVIOUS
  <2> QED BY <2>1
<1>2. PICK A \in W : \A B \in W : B \subseteq A => B = A
  <2> HIDE DEF W
  <2> QED BY <1>1, SmallestSubset
<1>3. PICK a \in A : TRUE
  OBVIOUS
<1>4. A \ {a} \in W
  <2>1. PICK z \in A : f[z] > f[a]
    OBVIOUS
  <2>2. z # a
    BY <2>1
  <2>3. ASSUME NEW x \in A \ {a} PROVE \E y \in A \ {a} : f[y] > f[x]
    <3>1. PICK y \in A : f[y] > f[x]
      OBVIOUS
    <3>2. CASE y # a
      BY <3>1, <3>2
    <3>3. CASE y = a
      BY <3>1, <3>3, <2>1, <2>2
    <3> QED BY <3>2, <3>3
  <2> QED BY <2>2, <2>3
<1> QED BY <1>2, <1>3, <1>4

Some(T) == CHOOSE x \in T : TRUE

\* g adds up f over the sets of C, one of their elements after the other.
AddsUp(f, C, g) ==
  \A T \in C : g[T] = IF T = {} THEN 0 ELSE f[Some(T)] + g[T \ {Some(T)}]

Totals(f, S, h) == h \in [SUBSET S -> Int] /\ AddsUp(f, SUBSET S, h)

LEMMA SomeIsIn == ASSUME NEW T, T # {} PROVE Some(T) \in T
BY Zenon DEF Some

LEMMA SumIs ==
  ASSUME NEW f, NEW S
  PROVE  Sum(f, S) = (CHOOSE g : g = [T \in SUBSET S |-> IF T = {} THEN 0 ELSE f[Some(T)] + g[T \ {Some(T)}]])[S]
BY Zenon DEF Sum, MapThenSumSet, MapThenFoldSet, Some

LEMMA SumUnfolds ==
  ASSUME NEW f, NEW S, NEW g, g = [T \in SUBSET S |-> IF T = {} THEN 0 ELSE f[Some(T)] + g[T \ {Some(T)}]]
  PROVE  \E h : AddsUp(f, SUBSET S, h) /\ Sum(f, S) = h[S]
<1> DEFINE h == CHOOSE x : x = [T \in SUBSET S |-> IF T = {} THEN 0 ELSE f[Some(T)] + x[T \ {Some(T)}]]
<1>1. h = [T \in SUBSET S |-> IF T = {} THEN 0 ELSE f[Some(T)] + h[T \ {Some(T)}]]
  BY Zenon
<1>2. Sum(f, S) = h[S]
  BY SumIs, Zenon
<1> HIDE DEF h
<1>3. AddsUp(f, SUBSET S, h)
  BY <1>1 DEF AddsUp
<1> QED BY <1>2, <1>3

\* From the largest family of sets on which f can be added up.
LEMMA AdditionExists ==
  ASSUME NEW S, IsFiniteSet(S), NEW f, \A x \in S : f[x] \in Int
  PROVE  \E g \in [SUBSET S -> Int] : AddsUp(f, SUBSET S, g)
<1> DEFINE Closed(C) == \A T \in C : T = {} \/ T \ {Some(T)} \in C
           W == { D \in SUBSET SUBSET S : LET C == (SUBSET S) \ D IN
                    Closed(C) /\ \E g \in [C -> Int] : AddsUp(f, C, g) }
<1>1. W \subseteq SUBSET SUBSET S /\ W # {}
  <2>1. [T \in {} |-> 0] \in [{} -> Int] /\ AddsUp(f, {}, [T \in {} |-> 0])
    BY DEF AddsUp
  <2>2. SUBSET S \in W
    <3>1. (SUBSET S) \ (SUBSET S) = {}
      OBVIOUS
    <3> QED BY <2>1, <3>1
  <2> QED BY <2>2
<1>2. PICK D \in W : \A B \in W : B \subseteq D => B = D
  <2>1. IsFiniteSet(SUBSET S)
    BY FS_SUBSET
  <2> HIDE DEF W
  <2> QED BY <1>1, <2>1, SmallestSubset
<1> DEFINE C == (SUBSET S) \ D
<1>3. Closed(C) /\ D \subseteq SUBSET S
  OBVIOUS
<1>4. PICK g \in [C -> Int] : AddsUp(f, C, g)
  OBVIOUS
<1>5. ASSUME D # {} PROVE FALSE
  <2>1. PICK T \in D : \A B \in D : B \subseteq T => B = T
    BY <1>3, <1>5, SmallestSubset
  <2>2. T = {} \/ (Some(T) \in T /\ T \ {Some(T)} \in C)
    BY <2>1, <1>3, SomeIsIn
  <2> DEFINE E == (SUBSET S) \ (D \ {T})
             sum == IF T = {} THEN 0 ELSE f[Some(T)] + g[T \ {Some(T)}]
             h == [A \in E |-> IF A = T THEN sum ELSE g[A]]
  <2>3. E = C \cup {T} /\ T \notin C /\ T \subseteq S
    BY <1>3
  <2>4. Closed(E)
    BY <1>3, <2>2, <2>3
  <2>5. sum \in Int
    <3>1. CASE T = {}
      BY <3>1
    <3>2. CASE T # {}
      <4>1. f[Some(T)] \in Int /\ g[T \ {Some(T)}] \in Int
        BY <2>2, <2>3, <3>2
      <4> QED BY <3>2, <4>1
    <3> QED BY <3>1, <3>2
  <2> HIDE DEF sum
  <2>6. h \in [E -> Int]
    BY <2>3, <2>5
  <2>7. \A A \in C : h[A] = g[A]
    BY <2>3
  <2>8. h[T] = sum
    BY <2>3
  <2> HIDE DEF h
  <2>9. AddsUp(f, E, h)
    <3>1. ASSUME NEW A \in E PROVE h[A] = IF A = {} THEN 0 ELSE f[Some(A)] + h[A \ {Some(A)}]
      <4>1. CASE A = T
        BY <2>2, <2>7, <2>8, <4>1 DEF sum
      <4>2. CASE A # T
        <5>1. A \in C /\ (A = {} \/ A \ {Some(A)} \in C)
          BY <1>3, <2>3, <4>2
        <5>2. g[A] = IF A = {} THEN 0 ELSE f[Some(A)] + g[A \ {Some(A)}]
          BY <1>4, <5>1 DEF AddsUp
        <5> QED BY <2>7, <5>1, <5>2
      <4> QED BY <4>1, <4>2
    <3> QED BY <3>1 DEF AddsUp
  <2>10. D \ {T} \in W
    BY <2>4, <2>6, <2>9
  <2> QED BY <1>2, <2>1, <2>10
<1>6. C = SUBSET S
  BY <1>5
<1> QED BY <1>4, <1>6

LEMMA SumRule ==
  ASSUME NEW S, IsFiniteSet(S), NEW f, \A x \in S : f[x] \in Int
  PROVE  \E h \in [SUBSET S -> Int] : AddsUp(f, SUBSET S, h) /\ Sum(f, S) = h[S]
<1>1. PICK g \in [SUBSET S -> Int] : AddsUp(f, SUBSET S, g)
  BY AdditionExists
<1>2. g = [T \in SUBSET S |-> IF T = {} THEN 0 ELSE f[Some(T)] + g[T \ {Some(T)}]]
  BY <1>1 DEF AddsUp
<1>3. PICK h : AddsUp(f, SUBSET S, h) /\ Sum(f, S) = h[S]
  BY <1>2, SumUnfolds
<1>4. ASSUME NEW T \in SUBSET S, h[T] # g[T] PROVE FALSE
  <2> DEFINE W == { A \in SUBSET S : h[A] # g[A] }
  <2>1. W \subseteq SUBSET S /\ W # {}
    BY <1>4
  <2>2. PICK A \in W : \A B \in W : B \subseteq A => B = A
    <3> HIDE DEF W
    <3> QED BY <2>1, SmallestSubset
  <2>3. A = {} \/ (Some(A) \in A /\ A \ {Some(A)} \notin W)
    BY <2>2, SomeIsIn
  <2>4. /\ h[A] = IF A = {} THEN 0 ELSE f[Some(A)] + h[A \ {Some(A)}]
        /\ g[A] = IF A = {} THEN 0 ELSE f[Some(A)] + g[A \ {Some(A)}]
    BY <1>1, <1>3 DEF AddsUp
  <2> QED BY <2>2, <2>3, <2>4
<1>5. AddsUp(f, SUBSET S, g) /\ Sum(f, S) = g[S]
  BY <1>1, <1>3, <1>4
<1> QED BY <1>5

\* Whichever element is taken last.
LEMMA AnyLast ==
  ASSUME NEW S, IsFiniteSet(S), NEW f, \A x \in S : f[x] \in Int,
         NEW h, Totals(f, S, h), NEW y \in S
  PROVE  h[S] = f[y] + h[S \ {y}]
<1> USE DEF Totals
<1> DEFINE W == { T \in SUBSET S : \E x \in T : h[T] # f[x] + h[T \ {x}] }
<1>1. ASSUME W # {} PROVE FALSE
  <2>1. PICK T \in W : \A B \in W : B \subseteq T => B = T
    <3>1. W \subseteq SUBSET S
      OBVIOUS
    <3> HIDE DEF W
    <3> QED BY <1>1, <3>1, SmallestSubset
  <2>2. PICK x \in T : h[T] # f[x] + h[T \ {x}]
    OBVIOUS
  <2>3. Some(T) \in T
    BY <2>2, SomeIsIn
  <2>4. PICK z : z = Some(T)
    OBVIOUS
  <2>5. z \in T /\ T \in SUBSET S /\ h[T] = f[z] + h[T \ {z}]
    BY <2>3, <2>4 DEF AddsUp
  <2>6. z # x
    BY <2>2, <2>5
  <2>7. T \ {z} \notin W /\ T \ {x} \notin W
    BY <2>1, <2>2, <2>5
  <2>8. h[T \ {z}] = f[x] + h[(T \ {z}) \ {x}]
    BY <2>2, <2>5, <2>6, <2>7
  <2>9. h[T \ {x}] = f[z] + h[(T \ {x}) \ {z}]
    BY <2>2, <2>5, <2>6, <2>7
  <2>10. (T \ {x}) \ {z} = (T \ {z}) \ {x}
    OBVIOUS
  <2>11. PICK rest \in Int : rest = h[(T \ {z}) \ {x}]
    BY <2>2, <2>5
  <2>12. PICK a \in Int, b \in Int : a = f[x] /\ b = f[z]
    BY <2>2, <2>5
  <2>13. h[T] = b + (a + rest) /\ h[T \ {x}] = b + rest
    BY <2>5, <2>8, <2>9, <2>10, <2>11, <2>12
  <2>14. h[T] = a + h[T \ {x}]
    BY <2>13
  <2> QED BY <2>2, <2>12, <2>14
<1>2. S \notin W
  BY <1>1
<1> QED BY <1>2

LEMMA SumOfNone == ASSUME NEW f PROVE Sum(f, {}) = 0
<1>1. IsFiniteSet({}) /\ \A x \in {} : f[x] \in Int
  BY FS_EmptySet
<1>2. PICK h \in [SUBSET {} -> Int] : AddsUp(f, SUBSET {}, h) /\ Sum(f, {}) = h[{}]
  BY <1>1, SumRule
<1> QED BY <1>2 DEF AddsUp

LEMMA SumInt ==
  ASSUME NEW S, IsFiniteSet(S), NEW f, \A x \in S : f[x] \in Int
  PROVE  Sum(f, S) \in Int
<1>1. PICK h \in [SUBSET S -> Int] : Sum(f, S) = h[S]
  BY SumRule
<1> QED BY <1>1

LEMMA SumLess ==
  ASSUME NEW S, IsFiniteSet(S), NEW f, \A x \in S : f[x] \in Int, NEW y \in S
  PROVE  Sum(f, S) = f[y] + Sum(f, S \ {y})
<1>1. PICK h \in [SUBSET S -> Int] : AddsUp(f, SUBSET S, h) /\ Sum(f, S) = h[S]
  BY SumRule
<1>2. h[S] = f[y] + h[S \ {y}]
  <2>1. Totals(f, S, h)
    BY <1>1 DEF Totals
  <2> QED BY <2>1, AnyLast
<1>3. IsFiniteSet(S \ {y}) /\ \A x \in S \ {y} : f[x] \in Int
  BY FS_Subset
<1>4. PICK g \in [SUBSET (S \ {y}) -> Int] : AddsUp(f, SUBSET (S \ {y}), g) /\ Sum(f, S \ {y}) = g[S \ {y}]
  BY <1>3, SumRule
<1>5. ASSUME g[S \ {y}] # h[S \ {y}] PROVE FALSE
  <2> DEFINE W == { A \in SUBSET (S \ {y}) : h[A] # g[A] }
  <2>1. W \subseteq SUBSET (S \ {y}) /\ W # {}
    BY <1>5
  <2>2. PICK A \in W : \A B \in W : B \subseteq A => B = A
    <3> HIDE DEF W
    <3> QED BY <1>3, <2>1, SmallestSubset
  <2>3. A = {} \/ (Some(A) \in A /\ A \ {Some(A)} \notin W)
    BY <2>2, SomeIsIn
  <2>4. A \in SUBSET S /\ A \in SUBSET (S \ {y})
    OBVIOUS
  <2>5. /\ h[A] = IF A = {} THEN 0 ELSE f[Some(A)] + h[A \ {Some(A)}]
        /\ g[A] = IF A = {} THEN 0 ELSE f[Some(A)] + g[A \ {Some(A)}]
    BY <1>1, <1>4, <2>4 DEF AddsUp
  <2> QED BY <2>2, <2>3, <2>5
<1> QED BY <1>1, <1>2, <1>4, <1>5

LEMMA SumOfOne ==
  ASSUME NEW f, NEW x, f[x] \in Int
  PROVE  Sum(f, {x}) = f[x]
<1>1. IsFiniteSet({x}) /\ \A y \in {x} : f[y] \in Int
  BY FS_Singleton
<1>2. Sum(f, {x}) = f[x] + Sum(f, {x} \ {x})
  BY <1>1, SumLess
<1>3. {x} \ {x} = {}
  OBVIOUS
<1> QED BY <1>2, <1>3, SumOfNone

LEMMA SumNat ==
  ASSUME NEW S, IsFiniteSet(S), NEW f, \A x \in S : f[x] \in Nat
  PROVE  Sum(f, S) \in Nat
<1> DEFINE W == { T \in SUBSET S : ~(Sum(f, T) \in Nat) }
<1>1. ASSUME W # {} PROVE FALSE
  <2>1. PICK T \in W : \A B \in W : B \subseteq T => B = T
    <3>1. W \subseteq SUBSET S
      OBVIOUS
    <3> HIDE DEF W
    <3> QED BY <1>1, <3>1, SmallestSubset
  <2>2. IsFiniteSet(T) /\ \A x \in T : f[x] \in Int
    BY FS_Subset
  <2>3. T # {}
    BY SumOfNone
  <2>4. PICK x \in T : TRUE
    BY <2>3
  <2>5. Sum(f, T) = f[x] + Sum(f, T \ {x})
    BY <2>2, SumLess
  <2>6. Sum(f, T \ {x}) \in Nat
    BY <2>1
  <2> QED BY <2>5, <2>6
<1>2. S \notin W
  BY <1>1
<1> QED BY <1>2

\* Term by term.
LEMMA SumMinus ==
  ASSUME NEW S, IsFiniteSet(S), NEW f, NEW g, NEW k,
         \A x \in S : f[x] \in Int /\ g[x] \in Int /\ k[x] = f[x] - g[x]
  PROVE  Sum(k, S) = Sum(f, S) - Sum(g, S)
<1> DEFINE W == { T \in SUBSET S : Sum(k, T) # Sum(f, T) - Sum(g, T) }
<1>1. ASSUME W # {} PROVE FALSE
  <2>1. PICK T \in W : \A B \in W : B \subseteq T => B = T
    <3>1. W \subseteq SUBSET S
      OBVIOUS
    <3> HIDE DEF W
    <3> QED BY <1>1, <3>1, SmallestSubset
  <2>2. IsFiniteSet(T) /\ \A x \in T : f[x] \in Int /\ g[x] \in Int /\ k[x] \in Int
    <3>1. T \subseteq S
      OBVIOUS
    <3> QED BY <3>1, FS_Subset
  <2>3. T # {}
    <3>1. Sum(f, {}) = 0 /\ Sum(g, {}) = 0 /\ Sum(k, {}) = 0
      BY SumOfNone
    <3> QED BY <3>1
  <2>4. PICK x \in T : TRUE
    BY <2>3
  <2>5. /\ Sum(f, T) = f[x] + Sum(f, T \ {x}) /\ Sum(g, T) = g[x] + Sum(g, T \ {x})
        /\ Sum(k, T) = k[x] + Sum(k, T \ {x})
    BY <2>2, SumLess
  <2>6. Sum(k, T \ {x}) = Sum(f, T \ {x}) - Sum(g, T \ {x})
    BY <2>1
  <2>7. /\ Sum(f, T \ {x}) \in Int /\ Sum(g, T \ {x}) \in Int /\ Sum(k, T \ {x}) \in Int
    <3>1. IsFiniteSet(T \ {x})
      BY <2>2, FS_Subset
    <3> QED BY <2>2, <3>1, SumInt
  <2> QED BY <2>1, <2>2, <2>5, <2>6, <2>7
<1>2. S \notin W
  BY <1>1
<1> QED BY <1>2

-----------------------------------------------------------------------------
(* The invariant. *)

LineFits(l) ==
  /\ l \in Lines /\ l.id <= lastLine
  /\ l.id \notin mixed /\ l.ware \notin retagged =>
       l.unit = tag[l.ware].price /\ l.off = ResolveUnitDiscount(tag[l.ware])

Keeps(card) == card.subtotal = Subtotal(card.lines) /\ card.discount = DiscountTotal(card.lines)

CardFits(card) ==
  /\ card \in Carts /\ IsFiniteSet(card.lines) /\ Keeps(card)
  /\ \A l \in card.lines : LineFits(l)
  /\ \A l, m \in card.lines : l.id = m.id => l = m

CardsFit == cards \in [Cards -> Carts] /\ \A c \in Cards : CardFits(cards[c])
OneOpen == unlocked \/ \A c, d \in OpenCards : c = d
OrdersFit == IsFiniteSet(orders) /\ \A o \in orders : o \in Orders /\ TotalFits(o)

SalesInv ==
  /\ tag \in [Wares -> Tags] /\ lastLine \in 0 .. MaxLines /\ unlocked \in BOOLEAN
  /\ PromotionsTypeOK /\ CardsFit /\ OneOpen /\ OrdersFit /\ PromotionsDeserved

-----------------------------------------------------------------------------
(* Rounding and figures. *)

LEMMA KeptClose ==
  ASSUME NEW x \in Int
  PROVE  /\ Kept(x) \in Int /\ 100 * Kept(x) - x \in -50 .. 50
         /\ x >= 0 => Kept(x) \in Nat
BY DEF Kept

LEMMA LineFigures ==
  ASSUME NEW lines, lines \subseteq Lines, IsFiniteSet(lines)
  PROVE  Subtotal(lines) \in Nat /\ DiscountTotal(lines) \in Nat
<1> DEFINE f == [l \in lines |-> l.unit * l.quantity]
           g == [l \in lines |-> l.off * l.quantity]
<1>1. \A l \in lines : l.unit \in Nat /\ l.off \in Nat /\ l.quantity \in Nat
  BY SalesAssumption DEF Lines
<1>2. \A x, y \in Nat : x * y \in Nat
  OBVIOUS
<1>3. \A l \in lines : f[l] \in Nat /\ g[l] \in Nat
  BY <1>1, <1>2
<1> HIDE DEF f, g
<1>4. Sum(f, lines) \in Nat /\ Sum(g, lines) \in Nat
  BY <1>3, SumNat
<1> QED BY <1>4 DEF f, g, Subtotal, DiscountTotal

LEMMA SnapshotRight ==
  ASSUME NEW card \in Carts, IsFiniteSet(card.lines)
  PROVE  /\ ComputeSnapshot(card) \in Carts /\ Keeps(ComputeSnapshot(card))
         /\ ComputeSnapshot(card).lines = card.lines /\ ComputeSnapshot(card).status = card.status
<1>1. Subtotal(card.lines) \in Nat /\ DiscountTotal(card.lines) \in Nat
  BY LineFigures DEF Carts
<1>2. PICK a \in Nat, b \in Nat : a = Subtotal(card.lines) /\ b = DiscountTotal(card.lines)
  BY <1>1
<1>3. ComputeSnapshot(card) = [card EXCEPT !.subtotal = a, !.discount = b]
  BY <1>2 DEF ComputeSnapshot
<1>4. /\ ComputeSnapshot(card) \in Carts
      /\ ComputeSnapshot(card).lines = card.lines /\ ComputeSnapshot(card).status = card.status
      /\ ComputeSnapshot(card).subtotal = a /\ ComputeSnapshot(card).discount = b
  BY <1>3 DEF Carts
<1> QED BY <1>2, <1>4 DEF Keeps

LEMMA SnapshotStays ==
  ASSUME NEW card \in Carts, Keeps(card)
  PROVE  card = ComputeSnapshot(card)
BY DEF Carts, Keeps, ComputeSnapshot

LEMMA NothingKeeps == NoCard \in Carts /\ Keeps(NoCard) /\ IsFiniteSet(NoCard.lines)
<1> DEFINE f == [l \in {} |-> l.unit * l.quantity]
           g == [l \in {} |-> l.off * l.quantity]
<1>1. Sum(f, {}) = 0 /\ Sum(g, {}) = 0
  BY SumOfNone
<1> QED BY <1>1, FS_EmptySet DEF NoCard, Carts, Keeps, Subtotal, DiscountTotal

LEMMA EmptyKeeps == Subtotal({}) = 0 /\ DiscountTotal({}) = 0
<1> DEFINE f == [l \in {} |-> l.unit * l.quantity]
           g == [l \in {} |-> l.off * l.quantity]
<1>1. Sum(f, {}) = 0 /\ Sum(g, {}) = 0
  BY SumOfNone
<1> QED BY <1>1 DEF Subtotal, DiscountTotal

LEMMA TagsFit == \A t \in Tags : TagFits(t) /\ ResolveUnitDiscount(t) \in Nat /\ CalculateItemDiscount(t) \in Nat
<1> SUFFICES ASSUME NEW t \in Tags
             PROVE TagFits(t) /\ ResolveUnitDiscount(t) \in Nat /\ CalculateItemDiscount(t) \in Nat
  OBVIOUS
<1>1. t.price \in Nat /\ t.amount \in Nat /\ t.percent \in Nat
  BY SalesAssumption
<1>2. PICK x \in Nat : x = t.price * t.percent
  BY <1>1
<1>3. x \div 100 \in Nat /\ 100 * (x \div 100) \in x - 99 .. x
  BY <1>2
<1>4. t.percent = 0 => x = 0
  BY <1>1, <1>2
<1> QED BY <1>1, <1>2, <1>3, <1>4
     DEF TagFits, ResolveUnitDiscount, CalculateItemDiscount, SearchDiscount, SortDiscount

LEMMA FinalSum ==
  ASSUME NEW lines, lines \subseteq Lines, IsFiniteSet(lines), \A l \in lines : l.off <= l.unit
  PROVE  Sum([l \in lines |-> FinalUnit(l) * l.quantity], lines) = Subtotal(lines) - DiscountTotal(lines)
<1> DEFINE f == [l \in lines |-> l.unit * l.quantity]
           g == [l \in lines |-> l.off * l.quantity]
           k == [l \in lines |-> FinalUnit(l) * l.quantity]
<1>1. \A l \in lines : l.unit \in Nat /\ l.off \in Nat /\ l.quantity \in Nat
  BY SalesAssumption DEF Lines
<1>2. \A x, y, z \in Int : (x - y) * z = x * z - y * z /\ x * z \in Int
  OBVIOUS
<1>3. ASSUME NEW l \in lines PROVE f[l] \in Int /\ g[l] \in Int /\ k[l] = f[l] - g[l]
  <2>1. FinalUnit(l) = l.unit - l.off
    BY <1>1 DEF FinalUnit
  <2> QED BY <1>1, <1>2, <2>1
<1>4. /\ Subtotal(lines) = Sum(f, lines) /\ DiscountTotal(lines) = Sum(g, lines)
  BY DEF Subtotal, DiscountTotal
<1> HIDE DEF f, g, k
<1>5. Sum(k, lines) = Sum(f, lines) - Sum(g, lines)
  BY <1>3, SumMinus
<1> QED BY <1>4, <1>5 DEF k

LEMMA CardOrderFits ==
  ASSUME NEW o \in Orders, IsFiniteSet(o.lines), o.status # "manual", o.given \in Nat,
         o.subtotal = Subtotal(o.lines),
         o.total = Kept(100 * (o.subtotal + o.extras) - (100 * DiscountTotal(o.lines) + o.given))
  PROVE  TotalFits(o)
<1> SUFFICES ASSUME \A l \in o.lines : l.off <= l.unit
             PROVE  100 * o.total - Due(o) \in -50 .. 50
  BY DEF TotalFits, Tolerance
<1>1. o.lines \subseteq Lines /\ o.extras \in Nat
  BY DEF Orders
<1>2. PICK a \in Nat, b \in Nat : a = Subtotal(o.lines) /\ b = DiscountTotal(o.lines)
  BY <1>1, LineFigures
<1>3. PICK x \in Int : x = 100 * (a + o.extras) - (100 * b + o.given)
  BY <1>1
<1>4. o.total = Kept(x)
  BY <1>2, <1>3
<1>5. Due(o) = x
  <2>1. Sum([l \in o.lines |-> FinalUnit(l) * l.quantity], o.lines) = a - b
    BY <1>1, <1>2, FinalSum
  <2>2. Due(o) = 100 * ((a - b) + o.extras) - o.given
    BY <2>1 DEF Due
  <2> QED BY <1>1, <1>3, <2>2
<1> QED BY <1>4, <1>5, KeptClose

LEMMA ManualOrderFits ==
  ASSUME NEW o \in Orders, NEW l \in Lines, o.lines = {l}, o.status = "manual", o.extras = 0,
         NEW d \in Nat, l.off = Kept(d),
         o.total = Kept(100 * (l.unit * l.quantity) - d * l.quantity - o.given)
  PROVE  TotalFits(o)
<1> SUFFICES ASSUME l.off <= l.unit
             PROVE  100 * o.total - Due(o) \in -Tolerance(o) .. Tolerance(o)
  BY DEF TotalFits
<1>1. l.unit \in Nat /\ l.off \in Nat /\ l.quantity \in Nat /\ o.given \in Int
  BY SalesAssumption DEF Lines, Orders
<1> DEFINE k == [m \in {l} |-> FinalUnit(m) * m.quantity]
           s == [m \in {l} |-> 50 * m.quantity]
<1>2. FinalUnit(l) = l.unit - l.off
  BY <1>1 DEF FinalUnit
<1>3. \A x, y, z \in Int : (x - y) * z = x * z - y * z /\ x * z \in Int
  OBVIOUS
<1>4. PICK u \in Int, w \in Int, v \in Int : u = l.unit * l.quantity /\ w = l.off * l.quantity /\ v = d * l.quantity
  BY <1>1, <1>3
<1>5. k[l] = u - w /\ s[l] = 50 * l.quantity
  BY <1>1, <1>2, <1>3, <1>4
<1>6. Sum(k, {l}) = u - w /\ Sum(s, {l}) = 50 * l.quantity
  <2> HIDE DEF k, s
  <2>1. k[l] \in Int /\ s[l] \in Int
    BY <1>1, <1>5
  <2> QED BY <1>5, <2>1, SumOfOne
<1>7. Due(o) = 100 * (u - w) - o.given
  BY <1>1, <1>6 DEF Due
<1>8. Tolerance(o) = 50 + 50 * l.quantity
  BY <1>1, <1>6 DEF Tolerance
<1>9. 100 * w - v \in (-50 * l.quantity) .. (50 * l.quantity)
  <2>1. PICK e \in Int : e = 100 * l.off - d /\ e \in -50 .. 50
    <3>1. 100 * Kept(d) - d \in -50 .. 50 /\ Kept(d) \in Int
      BY KeptClose
    <3>2. 100 * l.off - d \in -50 .. 50 /\ 100 * l.off - d \in Int
      BY <1>1, <3>1
    <3> QED BY <3>2
  <2>2. 100 * w - v = e * l.quantity
    <3>1. (100 * l.off - d) * l.quantity = (100 * l.off) * l.quantity - d * l.quantity
      BY <1>1, <1>3
    <3>2. (100 * l.off) * l.quantity = 100 * w
      BY <1>1, <1>4
    <3> QED BY <1>4, <2>1, <3>1, <3>2
  <2>3. \A x \in -50 .. 50, y \in Nat : -50 * y <= x * y /\ x * y <= 50 * y
    OBVIOUS
  <2> QED BY <1>1, <1>4, <2>1, <2>2, <2>3
<1>10. PICK x \in Int : x = 100 * u - v - o.given
  BY <1>1
<1>11. 100 * o.total - x \in -50 .. 50 /\ o.total \in Int
  BY <1>4, <1>10, KeptClose
<1> QED BY <1>1, <1>7, <1>8, <1>9, <1>10, <1>11

-----------------------------------------------------------------------------
(* Promotions. *)

LEMMA MeetsSame ==
  ASSUME NEW o, NEW q, o.lines = q.lines, o.subtotal = q.subtotal, o.first = q.first, NEW c
  PROVE  Meets(o, c) = Meets(q, c)
BY DEF Meets

LEMMA AppliedValid ==
  ASSUME NEW order, NEW found, NEW granted \in Applied(order, found)
  PROVE  \A q \in granted : q \in found /\ Validate(order, q)
BY DEF Applied

\* What findActiveForOrder loads of a row.
LEMMA LoadedRows ==
  ASSUME PromotionsTypeOK
  PROVE  /\ IsFiniteSet(FindActiveForOrder)
         /\ \A q \in FindActiveForOrder : \E p \in promotions :
              /\ p.type # "coupon" /\ q.id = p.id /\ PromotionRow(q)
              /\ q.conditions = { c \in p.conditions : c.type # "user" \/ Buyer \in c.of }
              /\ q.conditions # {}
<1> DEFINE f == [p \in promotions |-> [p EXCEPT !.conditions = { c \in @ : c.type # "user" \/ Buyer \in c.of }]]
           Found == { x \in promotions : x.active /\ x.type # "coupon" /\ f[x].conditions # {} }
           g == [p \in Found |-> f[p]]
<1>1. FindActiveForOrder = { f[p] : p \in Found }
  BY DEF FindActiveForOrder
<1>2. IsFiniteSet(FindActiveForOrder)
  <2>1. g \in Surjection(Found, FindActiveForOrder)
    BY <1>1 DEF Surjection
  <2>2. IsFiniteSet(Found)
    BY FS_Subset DEF PromotionsTypeOK
  <2> HIDE DEF g, Found
  <2> QED BY <2>1, <2>2, FS_Surjection
<1>3. ASSUME NEW p \in Found
      PROVE  /\ p \in promotions /\ p.type # "coupon" /\ f[p].id = p.id /\ PromotionRow(f[p])
             /\ f[p].conditions = { c \in p.conditions : c.type # "user" \/ Buyer \in c.of }
             /\ f[p].conditions # {}
  BY DEF PromotionsTypeOK, PromotionRow
<1> HIDE DEF f, Found
<1>4. ASSUME NEW q \in FindActiveForOrder
      PROVE  \E p \in promotions :
               /\ p.type # "coupon" /\ q.id = p.id /\ PromotionRow(q)
               /\ q.conditions = { c \in p.conditions : c.type # "user" \/ Buyer \in c.of }
               /\ q.conditions # {}
  <2>1. PICK p \in Found : q = f[p]
    BY <1>1
  <2> QED BY <1>3, <2>1
<1> QED BY <1>2, <1>4

LEMMA GrantedRows ==
  ASSUME PromotionsTypeOK, NEW order, NEW code, NEW granted \in Granted(order, code)
  PROVE  /\ IsFiniteSet(granted) /\ \A q \in granted : PromotionRow(q)
         /\ { q.id : q \in granted } \subseteq Nat
<1>1. CASE code = ""
  <2>1. granted \subseteq FindActiveForOrder
    BY <1>1, AppliedValid DEF Granted
  <2>2. \A q \in granted : PromotionRow(q)
    BY <2>1, LoadedRows
  <2> QED BY <2>1, <2>2, LoadedRows, FS_Subset DEF PromotionRow
<1>2. CASE code # ""
  <2>1. granted \subseteq promotions
    BY <1>2, AppliedValid DEF Granted, FindActiveByCode
  <2> QED BY <2>1, FS_Subset DEF PromotionRow, PromotionsTypeOK
<1> QED BY <1>1, <1>2

LEMMA GrantedDeserved ==
  ASSUME PromotionsTypeOK, NEW order, NEW code, NEW granted \in Granted(order, code),
         NEW o, o.lines = order.lines, o.subtotal = order.subtotal, o.first = order.first,
         NEW p \in promotions, p.id \in { q.id : q \in granted }
  PROVE  Deserves(o, p)
<1>1. PICK q \in granted : q.id = p.id
  OBVIOUS
<1>2. CASE code = ""
  <2>1. q \in FindActiveForOrder /\ Validate(order, q)
    BY <1>2, AppliedValid DEF Granted
  <2>2. PICK r \in promotions :
          /\ r.type # "coupon" /\ q.id = r.id /\ q.conditions # {}
          /\ q.conditions = { c \in r.conditions : c.type # "user" \/ Buyer \in c.of }
    BY <2>1, LoadedRows
  <2>3. r = p
    BY <1>1, <2>2 DEF PromotionsTypeOK
  <2>4. PICK d \in p.conditions : d.type # "user" \/ Buyer \in d.of
    BY <2>2, <2>3
  <2>5. ASSUME NEW c \in p.conditions, ~Meets(o, c)
        PROVE  c.type = "user" /\ p.type # "coupon"
               /\ \E x \in p.conditions \ {c} : x.type # "user" \/ Buyer \in x.of
    <3>1. c \notin q.conditions
      BY <2>1, <2>5, MeetsSame DEF Validate
    <3> QED BY <2>2, <2>3, <2>4, <3>1
  <2> QED BY <2>5 DEF Deserves
<1>3. CASE code # ""
  <2>1. q \in promotions /\ Validate(order, q)
    BY <1>3, AppliedValid DEF Granted, FindActiveByCode
  <2>2. q = p
    BY <1>1, <2>1 DEF PromotionsTypeOK
  <2> QED BY <2>1, <2>2, MeetsSame DEF Validate, Deserves
<1> QED BY <1>2, <1>3

LEMMA GivenNat ==
  ASSUME NEW order, order.subtotal \in Nat, NEW granted, IsFiniteSet(granted), \A p \in granted : PromotionRow(p)
  PROVE  Sum([p \in granted |-> DiscountOf(order, p)], granted) \in Nat
<1> DEFINE f == [p \in granted |-> DiscountOf(order, p)]
<1>1. ASSUME NEW p \in granted PROVE DiscountOf(order, p) \in Nat
  <2> DEFINE g == [a \in p.actions |-> ActionGives(order, a)]
  <2>1. \A x, y \in Nat : x * y \in Nat
    OBVIOUS
  <2>2. \A a \in p.actions : g[a] \in Nat
    BY <2>1 DEF ActionGives, PromotionRow
  <2>3. IsFiniteSet(p.actions) /\ p.max \in Nat
    BY DEF PromotionRow
  <2> HIDE DEF g
  <2>4. Sum(g, p.actions) \in Nat
    BY <2>2, <2>3, SumNat
  <2>5. 100 * p.max \in Nat
    BY <2>3
  <2> QED BY <2>4, <2>5 DEF g, DiscountOf
<1>2. \A p \in granted : f[p] \in Nat
  BY <1>1
<1> HIDE DEF f
<1>3. Sum(f, granted) \in Nat
  BY <1>2, SumNat
<1> QED BY <1>3 DEF f

-----------------------------------------------------------------------------
(* The steps of carts. *)

LEMMA CardWritten ==
  ASSUME SalesInv, NEW c \in Cards, NEW card, CardFits(card)', cards' = [cards EXCEPT ![c] = card],
         \A l \in Lines : LineFits(l) => LineFits(l)', UNCHANGED << tag, promotions, orders >>,
         lastLine' \in 0 .. MaxLines, unlocked' \in BOOLEAN, unlocked => unlocked',
         unlocked' \/ card.status # "open" \/ OpenCards \subseteq {c}
  PROVE  SalesInv'
<1>1. card \in Carts
  BY DEF CardFits
<1>2. cards' \in [Cards -> Carts] /\ cards'[c] = card /\ \A d \in Cards \ {c} : cards'[d] = cards[d]
  BY <1>1 DEF SalesInv, CardsFit
<1>3. ASSUME NEW d \in Cards PROVE CardFits(cards[d])'
  <2>1. CASE d = c
    BY <1>2, <2>1 DEF CardFits, Keeps, LineFits
  <2>2. CASE d # c
    <3>1. PICK x : x = cards[d]
      OBVIOUS
    <3>2. CardFits(x)
      BY <3>1 DEF SalesInv, CardsFit
    <3>3. x.lines \subseteq Lines
      BY <3>2 DEF CardFits, LineFits
    <3>4. \A l \in x.lines : LineFits(l)'
      BY <3>2, <3>3 DEF CardFits
    <3>5. x = cards'[d]
      BY <1>2, <2>2, <3>1
    <3> QED BY <3>2, <3>4, <3>5 DEF CardFits, Keeps
  <2> QED BY <2>1, <2>2
<1>4. CardsFit'
  BY <1>2, <1>3 DEF CardsFit
<1>5. OneOpen'
  BY <1>2 DEF SalesInv, OneOpen, OpenCards
<1>6. PromotionsTypeOK' /\ OrdersFit' /\ PromotionsDeserved' /\ tag' \in [Wares -> Tags]
  BY DEF SalesInv, PromotionsTypeOK, OrdersFit, PromotionsDeserved
<1> QED BY <1>4, <1>5, <1>6 DEF SalesInv

\* All carts of the customer at once: only their status changes.
LEMMA CardsMoved ==
  ASSUME SalesInv, UNCHANGED << tag, lastLine, promotions, orders, retagged, mixed >>,
         DOMAIN cards' = Cards, cards' = [c \in Cards |-> cards'[c]],
         \A c \in Cards : \E s \in {"none", "open", "locked", "abandoned"} :
           cards'[c] = [cards[c] EXCEPT !.status = s],
         unlocked' \in BOOLEAN, OneOpen'
  PROVE  SalesInv'
<1>1. ASSUME NEW c \in Cards PROVE CardFits(cards[c])' /\ cards'[c] \in Carts
  <2>1. PICK x, y : x = cards[c] /\ y = cards'[c]
    OBVIOUS
  <2>2. CardFits(x) /\ x \in Carts
    BY <2>1 DEF SalesInv, CardsFit, CardFits
  <2>3. /\ y \in Carts /\ y.lines = x.lines /\ y.subtotal = x.subtotal /\ y.discount = x.discount
    BY <2>1, <2>2 DEF Carts
  <2>4. Keeps(y) /\ IsFiniteSet(y.lines) /\ \A l, m \in y.lines : l.id = m.id => l = m
    BY <2>2, <2>3 DEF CardFits, Keeps
  <2>5. \A l \in y.lines : LineFits(l)'
    BY <2>2, <2>3 DEF CardFits, LineFits
  <2> QED BY <2>1, <2>3, <2>4, <2>5 DEF CardFits, Keeps
<1>2. CardsFit'
  BY <1>1 DEF CardsFit
<1>3. PromotionsTypeOK' /\ OrdersFit' /\ PromotionsDeserved'
  BY DEF SalesInv, PromotionsTypeOK, OrdersFit, PromotionsDeserved
<1> QED BY <1>2, <1>3 DEF SalesInv

LEMMA WatchedOnly ==
  ASSUME SalesInv, WatchesCarts
  PROVE  unlocked' \in BOOLEAN /\ (unlocked => unlocked')
BY DEF SalesInv, WatchesCarts

LEMMA OnlyCard ==
  ASSUME SalesInv, NEW c \in Cards, OpenCard(c) \/ NewCard(c)
  PROVE  unlocked \/ OpenCards \subseteq {c}
BY DEF SalesInv, OneOpen, OpenCard, NewCard

LEMMA AddKeeps ==
  ASSUME SalesInv, WatchesCarts, NEW c \in Cards, NEW ware \in Wares, NEW quantity \in 1 .. MaxQuantity,
         AddToCard(c, ware, quantity),
         mixed' = mixed \cup (IF ware[2] = Plain THEN Mixes(ware) ELSE {}), UNCHANGED retagged
  PROVE  SalesInv'
<1>1. PICK card : card = IF OpenCard(c) THEN cards[c] ELSE [NoCard EXCEPT !.status = "open"]
  OBVIOUS
<1>2. CardFits(card) /\ card.status = "open"
  <2>1. CASE OpenCard(c)
    BY <1>1, <2>1 DEF SalesInv, CardsFit, OpenCard, OpenCards
  <2>2. CASE ~OpenCard(c)
    <3>1. /\ card \in Carts /\ card.lines = {} /\ card.subtotal = 0 /\ card.discount = 0
          /\ card.status = "open"
      BY <1>1, <2>2 DEF NoCard, Carts
    <3> QED BY <3>1, EmptyKeeps, FS_EmptySet DEF CardFits, Keeps
  <2> QED BY <2>1, <2>2
<1>3. PICK unit, off : unit = tag[ware].price /\ off = ResolveUnitDiscount(tag[ware])
  OBVIOUS
<1>4. unit \in Nat /\ off \in Nat
  BY <1>3, TagsFit, SalesAssumption DEF SalesInv
<1>5. \A l \in Lines : LineFits(l) /\ lastLine' \in lastLine .. MaxLines => LineFits(l)'
  <2>1. tag' = tag /\ retagged' = retagged
    BY DEF AddToCard
  <2>3. mixed \subseteq mixed' /\ lastLine \in Int /\ MaxLines \in Int
    BY SalesAssumption DEF SalesInv
  <2>2. \A l \in Lines : l.id \in Int
    BY DEF Lines
  <2> QED BY <2>1, <2>2, <2>3 DEF LineFits
<1>6. unlocked' \/ OpenCards \subseteq {c}
  BY OnlyCard, WatchedOnly DEF AddToCard
<1>7. card \in Carts /\ card.lines \subseteq Lines /\ IsFiniteSet(card.lines)
  BY <1>2 DEF CardFits, Carts
<1>8. CASE \E l \in LinesFor(card, ware) :
             /\ l.quantity + quantity <= MaxQuantity
             /\ cards' = [cards EXCEPT ![c] = ComputeSnapshot([card EXCEPT
                  !.lines = (@ \ {l}) \cup {[l EXCEPT !.quantity = @ + quantity, !.unit = unit, !.off = off]}])]
             /\ UNCHANGED lastLine
  <2>1. PICK l \in LinesFor(card, ware) :
             /\ l.quantity + quantity <= MaxQuantity
             /\ cards' = [cards EXCEPT ![c] = ComputeSnapshot([card EXCEPT
                  !.lines = (@ \ {l}) \cup {[l EXCEPT !.quantity = @ + quantity, !.unit = unit, !.off = off]}])]
             /\ UNCHANGED lastLine
    BY <1>8
  <2>2. PICK n : n = [l EXCEPT !.quantity = @ + quantity, !.unit = unit, !.off = off]
    OBVIOUS
  <2>3. l \in card.lines /\ l.ware[1] = ware[1] /\ (ware[2] # Plain => l.ware = ware)
    BY DEF LinesFor
  <2>4. n \in Lines /\ n.id = l.id /\ n.ware = l.ware /\ n.unit = unit /\ n.off = off
    <3>1. l \in Lines /\ l.quantity + quantity \in 1 .. MaxQuantity
      BY <1>7, <2>1, <2>3, SalesAssumption DEF Lines
    <3>2. PICK q \in 1 .. MaxQuantity : n = [l EXCEPT !.quantity = q, !.unit = unit, !.off = off]
      BY <2>2, <3>1
    <3> QED BY <1>4, <3>1, <3>2 DEF Lines
  <2>5. PICK old : old = [card EXCEPT !.lines = (card.lines \ {l}) \cup {n}]
    OBVIOUS
  <2>6. old \in Carts /\ old.lines = (card.lines \ {l}) \cup {n} /\ old.status = "open"
    BY <1>2, <1>7, <2>4, <2>5 DEF Carts
  <2>7. IsFiniteSet(old.lines)
    <3>1. IsFiniteSet(card.lines \ {l})
      BY <1>7, FS_Subset
    <3> QED BY <2>6, <3>1, FS_AddElement
  <2>8. PICK new : new = ComputeSnapshot(old)
    OBVIOUS
  <2>9. new \in Carts /\ Keeps(new) /\ new.lines = old.lines /\ new.status = "open"
    BY <2>6, <2>7, <2>8, SnapshotRight
  <2>10. cards' = [cards EXCEPT ![c] = new]
    BY <2>1, <2>2, <2>5, <2>8
  <2>11. lastLine' = lastLine /\ lastLine \in 0 .. MaxLines /\ UNCHANGED << tag, promotions, orders >>
    BY <2>1 DEF SalesInv, AddToCard
  <2>12. LineFits(n)'
    <3>1. n.ware # ware => ware[2] = Plain /\ n.id \in Mixes(ware)
      <4>1. CASE OpenCard(c)
        BY <1>1, <2>3, <2>4, <4>1 DEF Mixes
      <4>2. CASE ~OpenCard(c)
        BY <1>1, <2>3, <4>2 DEF NoCard
      <4> QED BY <4>1, <4>2
    <3>2. n.id <= lastLine
      BY <1>2, <2>3, <2>4 DEF CardFits, LineFits
    <3> QED BY <1>3, <2>4, <2>11, <3>1, <3>2 DEF LineFits
  <2>13. CardFits(new)'
    <3>1. \A m \in card.lines : LineFits(m)'
      BY <1>2, <1>5, <1>7, <2>11 DEF CardFits
    <3>2. \A x, y \in new.lines : x.id = y.id => x = y
      BY <1>2, <2>3, <2>4, <2>6, <2>9 DEF CardFits
    <3> QED BY <2>6, <2>7, <2>9, <2>12, <3>1, <3>2 DEF CardFits, Keeps
  <2>14. lastLine' \in lastLine .. MaxLines /\ lastLine' \in 0 .. MaxLines
    BY <2>11, SalesAssumption
  <2>15. \A m \in Lines : LineFits(m) => LineFits(m)'
    BY <1>5, <2>14
  <2> QED BY <1>6, <2>10, <2>11, <2>13, <2>14, <2>15, CardWritten, WatchedOnly
<1>9. CASE /\ LinesFor(card, ware) = {}
           /\ lastLine < MaxLines
           /\ cards' = [cards EXCEPT ![c] = ComputeSnapshot([card EXCEPT
                !.lines = @ \cup {[id |-> lastLine + 1, ware |-> ware, quantity |-> quantity,
                                   unit |-> unit, off |-> off]}])]
           /\ lastLine' = lastLine + 1
  <2>1. PICK n : n = [id |-> lastLine + 1, ware |-> ware, quantity |-> quantity, unit |-> unit, off |-> off]
    OBVIOUS
  <2>2. lastLine \in 0 .. MaxLines /\ lastLine' \in lastLine .. MaxLines /\ lastLine' \in 0 .. MaxLines
    BY <1>9, SalesAssumption DEF SalesInv
  <2>3. n \in Lines /\ n.id = lastLine + 1 /\ n.ware = ware /\ n.unit = unit /\ n.off = off
    BY <1>4, <1>9, <2>1, <2>2, SalesAssumption DEF Lines
  <2>4. PICK old : old = [card EXCEPT !.lines = card.lines \cup {n}]
    OBVIOUS
  <2>5. old \in Carts /\ old.lines = card.lines \cup {n} /\ old.status = "open"
    BY <1>2, <1>7, <2>3, <2>4 DEF Carts
  <2>6. IsFiniteSet(old.lines)
    BY <1>7, <2>5, FS_AddElement
  <2>7. PICK new : new = ComputeSnapshot(old)
    OBVIOUS
  <2>8. new \in Carts /\ Keeps(new) /\ new.lines = old.lines /\ new.status = "open"
    BY <2>5, <2>6, <2>7, SnapshotRight
  <2>9. cards' = [cards EXCEPT ![c] = new]
    BY <1>9, <2>1, <2>4, <2>7
  <2>10. UNCHANGED << tag, promotions, orders >>
    BY DEF AddToCard
  <2>11. LineFits(n)'
    BY <1>3, <1>9, <2>2, <2>3, <2>10 DEF LineFits
  <2>12. CardFits(new)'
    <3>1. \A m \in card.lines : LineFits(m)'
      BY <1>2, <1>5, <1>7, <2>2 DEF CardFits
    <3>2. \A m \in card.lines : m.id # n.id
      BY <1>2, <1>7, <2>2, <2>3 DEF CardFits, LineFits, Lines
    <3>3. \A x, y \in new.lines : x.id = y.id => x = y
      BY <1>2, <2>5, <2>8, <3>2 DEF CardFits
    <3> QED BY <2>5, <2>6, <2>8, <2>11, <3>1, <3>3 DEF CardFits, Keeps
  <2> QED BY <1>5, <1>6, <2>2, <2>9, <2>10, <2>12, CardWritten, WatchedOnly
<1> QED BY <1>1, <1>3, <1>8, <1>9 DEF AddToCard

LEMMA LinesStay ==
  ASSUME UNCHANGED << tag, lastLine, retagged, mixed >>
  PROVE  \A l \in Lines : LineFits(l) => LineFits(l)'
BY DEF LineFits

\* A write of one cart that changes no price.
LEMMA OneCardWritten ==
  ASSUME SalesInv, WatchesCarts, UNCHANGED << tag, lastLine, retagged, mixed, promotions, orders >>,
         NEW c \in Cards, NEW card, cards' = [cards EXCEPT ![c] = card],
         card \in Carts, IsFiniteSet(card.lines), Keeps(card), \A l \in card.lines : LineFits(l),
         \A l, m \in card.lines : l.id = m.id => l = m,
         card.status # "open" \/ OpenCard(c) \/ NewCard(c)
  PROVE  SalesInv'
<1>1. CardFits(card)'
  <2>1. card.lines \subseteq Lines
    BY DEF Carts
  <2> QED BY <2>1, LinesStay DEF CardFits, Keeps
<1>2. unlocked' \/ card.status # "open" \/ OpenCards \subseteq {c}
  BY OnlyCard, WatchedOnly
<1>3. lastLine' \in 0 .. MaxLines
  BY DEF SalesInv
<1> QED BY <1>1, <1>2, <1>3, LinesStay, CardWritten, WatchedOnly

LEMMA CardRequestsKeep ==
  ASSUME SalesInv, WatchesCarts, UNCHANGED << retagged, mixed >>, NEW c \in Cards, CardRequests(c)
  PROVE  SalesInv'
<1>1. PICK card : card = cards[c]
  OBVIOUS
<1>2. /\ CardFits(card) /\ card \in Carts /\ card.lines \subseteq Lines
      /\ (card.status = "open" => OpenCard(c)) /\ cards \in [Cards -> Carts]
  BY <1>1 DEF SalesInv, CardsFit, CardFits, Carts, OpenCard, OpenCards
<1>3. ASSUME NEW l \in cards[c].lines, NEW quantity \in 0 .. MaxQuantity, UpdateCartLine(c, l, quantity)
      PROVE  SalesInv'
  <2>1. PICK kept : kept = IF quantity = 0 THEN {} ELSE {[l EXCEPT !.quantity = quantity]}
    OBVIOUS
  <2>2. PICK old : old = [card EXCEPT !.lines = (card.lines \ {l}) \cup kept]
    OBVIOUS
  <2>3. PICK new : new = ComputeSnapshot(old)
    OBVIOUS
  <2>4. cards' = [cards EXCEPT ![c] = new] /\ OpenCard(c)
    BY <1>1, <1>3, <2>1, <2>2, <2>3 DEF UpdateCartLine
  <2>5. UNCHANGED << tag, lastLine, promotions, orders >>
    BY <1>3 DEF UpdateCartLine
  <2>6. l \in Lines /\ LineFits(l) /\ l \in card.lines
    BY <1>1, <1>2 DEF CardFits
  <2>7. \A n \in kept : n \in Lines /\ LineFits(n) /\ n.id = l.id /\ kept = {n}
    <3>1. CASE quantity = 0
      BY <2>1, <3>1
    <3>2. CASE quantity # 0
      <4>1. PICK n : n = [l EXCEPT !.quantity = quantity]
        OBVIOUS
      <4>2. quantity \in 1 .. MaxQuantity
        BY <3>2, SalesAssumption
      <4>3. n \in Lines /\ n.id = l.id /\ n.ware = l.ware /\ n.unit = l.unit /\ n.off = l.off
        BY <2>6, <4>1, <4>2 DEF Lines
      <4>4. LineFits(n)
        BY <2>6, <4>3 DEF LineFits
      <4> QED BY <2>1, <3>2, <4>1, <4>3, <4>4
    <3> QED BY <3>1, <3>2
  <2>8. IsFiniteSet(kept)
    BY <2>1, FS_EmptySet, FS_Singleton
  <2>9. old \in Carts /\ old.lines = (card.lines \ {l}) \cup kept /\ old.status = card.status
    BY <1>2, <2>2, <2>7 DEF Carts
  <2>10. IsFiniteSet(old.lines)
    <3>1. IsFiniteSet(card.lines \ {l})
      BY <1>2, FS_Subset DEF CardFits
    <3> QED BY <2>8, <2>9, <3>1, FS_Union
  <2>11. new \in Carts /\ Keeps(new) /\ new.lines = old.lines
    BY <2>3, <2>9, <2>10, SnapshotRight
  <2>12. \A m \in new.lines : LineFits(m)
    BY <1>2, <2>7, <2>9, <2>11 DEF CardFits
  <2>13. \A x, y \in new.lines : x.id = y.id => x = y
    BY <1>2, <2>6, <2>7, <2>9, <2>11 DEF CardFits
  <2> QED BY <2>4, <2>5, <2>10, <2>11, <2>12, <2>13, OneCardWritten
<1>4. ASSUME ClearCart(c) PROVE SalesInv'
  <2>1. PICK new : new = [card EXCEPT !.lines = {}, !.subtotal = 0, !.discount = 0]
    OBVIOUS
  <2>2. /\ new \in Carts /\ new.lines = {} /\ new.subtotal = 0 /\ new.discount = 0
        /\ new.status = card.status
    BY <1>2, <2>1 DEF Carts
  <2>3. cards' = [cards EXCEPT ![c] = new] /\ UNCHANGED << tag, lastLine, promotions, orders >>
    BY <1>1, <1>2, <1>4, <2>1 DEF ClearCart, Carts
  <2>4. Keeps(new) /\ IsFiniteSet(new.lines)
    BY <2>2, EmptyKeeps, FS_EmptySet DEF Keeps
  <2> QED BY <1>2, <2>2, <2>3, <2>4, OneCardWritten
<1>5. ASSUME NEW s \in {"open", "locked"}, cards' = [cards EXCEPT ![c].status = s], s = "open" => NewCard(c),
             UNCHANGED << tag, lastLine, promotions, orders >>
      PROVE  SalesInv'
  <2>1. PICK new : new = [card EXCEPT !.status = s]
    OBVIOUS
  <2>2. /\ new \in Carts /\ new.lines = card.lines /\ new.subtotal = card.subtotal
        /\ new.discount = card.discount /\ new.status = s
    BY <1>2, <2>1 DEF Carts
  <2>3. cards' = [cards EXCEPT ![c] = new]
    BY <1>1, <1>2, <1>5, <2>1
  <2>4. /\ Keeps(new) /\ IsFiniteSet(new.lines) /\ \A l \in new.lines : LineFits(l)
        /\ \A l, m \in new.lines : l.id = m.id => l = m
    BY <1>2, <2>2 DEF CardFits, Keeps
  <2> QED BY <1>5, <2>2, <2>3, <2>4, OneCardWritten
<1> QED BY <1>3, <1>4, <1>5 DEF CardRequests, GetMyCard, LockCard

LEMMA CartsKeep ==
  ASSUME SalesInv, WatchesCarts, UNCHANGED << retagged, mixed >>, LockCart \/ UnlockCart \/ AbandonCart
  PROVE  SalesInv'
<1>1. UNCHANGED << tag, lastLine, promotions, orders >>
  BY DEF LockCart, UnlockCart, AbandonCart
<1>2. /\ \A c \in Cards : cards[c] \in Carts
      /\ \A c \in Cards : \A s : [cards[c] EXCEPT !.status = s].status = s
      /\ \A c \in Cards : [cards[c] EXCEPT !.status = cards[c].status] = cards[c]
      /\ \A c \in Cards : cards[c].status \in {"none", "open", "locked", "abandoned"}
  <2>1. \A x \in Carts : \A s : [x EXCEPT !.status = s].status = s
    BY DEF Carts
  <2>2. \A x \in Carts : [x EXCEPT !.status = x.status] = x /\ x.status \in {"none", "open", "locked", "abandoned"}
    BY DEF Carts
  <2> QED BY <2>1, <2>2 DEF SalesInv, CardsFit
<1>3. ASSUME NEW from \in {"open", "locked"}, NEW to \in {"open", "locked", "abandoned"},
             cards' = Moved(from, to)
      PROVE  SalesInv'
  <2>1. /\ DOMAIN cards' = Cards /\ cards' = [c \in Cards |-> cards'[c]]
        /\ \A c \in Cards : cards'[c] = IF cards[c].status = from THEN [cards[c] EXCEPT !.status = to] ELSE cards[c]
    BY <1>3 DEF Moved
  <2>2. \A c \in Cards : \E s \in {"none", "open", "locked", "abandoned"} :
          cards'[c] = [cards[c] EXCEPT !.status = s]
    BY <1>2, <2>1
  <2>3. \A c \in Cards : cards'[c].status = IF cards[c].status = from THEN to ELSE cards[c].status
    <3> SUFFICES ASSUME NEW c \in Cards
                 PROVE  cards'[c].status = IF cards[c].status = from THEN to ELSE cards[c].status
      OBVIOUS
    <3>1. PICK x : x = [cards[c] EXCEPT !.status = to]
      OBVIOUS
    <3>2. x.status = to
      BY <1>2, <3>1
    <3>3. cards'[c] = IF cards[c].status = from THEN x ELSE cards[c]
      BY <2>1, <3>1
    <3> QED BY <3>2, <3>3
  <2>4. OneOpen'
    BY <2>3 DEF SalesInv, OneOpen, OpenCards, WatchesCarts
  <2> QED BY <1>1, <2>1, <2>2, <2>4, CardsMoved, WatchedOnly
<1>4. ASSUME NEW c \in Cards, NewCard(c), cards' = [Moved("locked", "abandoned") EXCEPT ![c].status = "open"]
      PROVE  SalesInv'
  <2>1. cards[c].status = "none" /\ OpenCards = {}
    BY <1>4 DEF NewCard
  <2>2. /\ DOMAIN cards' = Cards /\ cards' = [d \in Cards |-> cards'[d]]
        /\ cards'[c] = [cards[c] EXCEPT !.status = "open"]
        /\ \A d \in Cards \ {c} : cards'[d] =
             IF cards[d].status = "locked" THEN [cards[d] EXCEPT !.status = "abandoned"] ELSE cards[d]
    BY <1>4, <2>1 DEF Moved
  <2>3. \A d \in Cards : \E s \in {"none", "open", "locked", "abandoned"} :
          cards'[d] = [cards[d] EXCEPT !.status = s]
    BY <1>2, <2>2
  <2>4. \A d \in Cards \ {c} : cards'[d].status # "open"
    BY <1>2, <2>1, <2>2 DEF OpenCards
  <2>5. OneOpen'
    BY <2>4 DEF OneOpen, OpenCards
  <2> QED BY <1>1, <2>2, <2>3, <2>5, CardsMoved, WatchedOnly
<1> QED BY <1>3, <1>4 DEF LockCart, UnlockCart, AbandonCart

-----------------------------------------------------------------------------
(* The steps of prices, orders and promotions. *)

LEMMA TagKeeps ==
  ASSUME SalesInv, WatchesCarts, NEW ware \in Wares, NEW t \in Tags, ChangeTag(ware, t),
         retagged' = retagged \cup {ware}, UNCHANGED mixed
  PROVE  SalesInv'
<1>1. /\ UNCHANGED << cards, lastLine, promotions, orders >> /\ tag' \in [Wares -> Tags]
      /\ \A w \in Wares \ {ware} : tag'[w] = tag[w]
  BY DEF ChangeTag, SalesInv
<1>2. ASSUME NEW l \in Lines, LineFits(l) PROVE LineFits(l)'
  <2>1. l.ware \in Wares
    BY DEF Lines
  <2> QED BY <1>1, <1>2, <2>1 DEF LineFits
<1>3. ASSUME NEW c \in Cards PROVE CardFits(cards[c])'
  <2>1. CardFits(cards[c]) /\ cards[c].lines \subseteq Lines
    BY DEF SalesInv, CardsFit, CardFits, Carts
  <2> QED BY <1>1, <1>2, <2>1 DEF CardFits, Keeps
<1>4. CardsFit' /\ OneOpen' /\ unlocked' \in BOOLEAN
  BY <1>1, <1>3, WatchedOnly DEF SalesInv, CardsFit, OneOpen, OpenCards
<1>5. PromotionsTypeOK' /\ OrdersFit' /\ PromotionsDeserved' /\ lastLine' \in 0 .. MaxLines
  BY <1>1 DEF SalesInv, PromotionsTypeOK, OrdersFit, PromotionsDeserved
<1> QED BY <1>1, <1>4, <1>5 DEF SalesInv

\* What orders and promotions leave alone.
LEMMA CardsStay ==
  ASSUME SalesInv, WatchesCarts, UNCHANGED << tag, cards, lastLine, retagged, mixed >>,
         PromotionsTypeOK', OrdersFit', PromotionsDeserved'
  PROVE  SalesInv'
<1>1. ASSUME NEW c \in Cards PROVE CardFits(cards[c])'
  <2>1. CardFits(cards[c])
    BY DEF SalesInv, CardsFit
  <2> QED BY <2>1 DEF CardFits, Keeps, LineFits
<1>2. CardsFit' /\ OneOpen' /\ unlocked' \in BOOLEAN
  BY <1>1, WatchedOnly DEF SalesInv, CardsFit, OneOpen, OpenCards
<1> QED BY <1>2 DEF SalesInv

LEMMA NextOrderNat == ASSUME OrdersFit PROVE NextOrder \in Nat
<1> DEFINE ids == {0} \cup { o.id : o \in orders }
<1>1. \A o \in orders : o.id \in Nat
  BY DEF OrdersFit, Orders
<1>2. \E n \in ids : \A m \in ids : n >= m
  <2>1. CASE orders = {}
    BY <2>1
  <2>2. CASE orders # {}
    <3> DEFINE f == [o \in orders |-> o.id]
    <3>1. \A o \in orders : f[o] = o.id
      OBVIOUS
    <3> HIDE DEF f
    <3>2. PICK a \in orders : \A b \in orders : f[b] <= f[a]
      BY <1>1, <2>2, <3>1, Highest DEF OrdersFit
    <3> QED BY <1>1, <3>1, <3>2
  <2> QED BY <2>1, <2>2
<1>3. Max(ids) \in ids
  BY <1>2 DEF Max
<1>4. Max(ids) \in Nat
  BY <1>1, <1>3
<1> QED BY <1>4 DEF NextOrder

LEMMA OrderKeeps ==
  ASSUME SalesInv, WatchesCarts, UNCHANGED << retagged, mixed >>,
         NEW c \in Cards, NEW code, NEW gift \in {0, 1}, OrderFromCard(c, code, gift)
  PROVE  SalesInv'
<1>1. PICK kept, order :
        /\ kept = orders \ Started
        /\ order = [lines |-> cards[c].lines, subtotal |-> cards[c].subtotal, first |-> kept = {}]
        /\ \E granted \in Granted(order, code) : orders' = kept \cup {NewOrder(c, order, gift, granted)}
  BY DEF OrderFromCard
<1>2. PICK granted \in Granted(order, code) : orders' = kept \cup {NewOrder(c, order, gift, granted)}
  BY <1>1
<1>3. UNCHANGED << tag, cards, lastLine, promotions >>
  BY DEF OrderFromCard
<1>4. PICK card : card = cards[c]
  OBVIOUS
<1>5. /\ CardFits(card) /\ card.subtotal \in Nat /\ card.discount \in Nat /\ card.lines \subseteq Lines
      /\ IsFiniteSet(card.lines) /\ card.subtotal = Subtotal(card.lines)
      /\ card.discount = DiscountTotal(card.lines)
  BY <1>4 DEF SalesInv, CardsFit, CardFits, Keeps, Carts
<1>6. order.lines = card.lines /\ order.subtotal = card.subtotal /\ order.first = (kept = {})
  BY <1>1, <1>4
<1>7. IsFiniteSet(granted) /\ (\A q \in granted : PromotionRow(q)) /\ { q.id : q \in granted } \subseteq Nat
  BY GrantedRows DEF SalesInv
<1>8. PICK given \in Nat : given = Sum([p \in granted |-> DiscountOf(order, p)], granted)
  BY <1>5, <1>6, <1>7, GivenNat
<1>9. PICK new, number, discount, extras, total, ids :
        /\ new = NewOrder(c, order, gift, granted) /\ number = NextOrder /\ ids = { p.id : p \in granted }
        /\ extras = 0 + gift /\ discount = Kept(100 * cards[c].discount + given)
        /\ total = Kept(100 * (order.subtotal + 0 + gift) - (100 * cards[c].discount + given))
  OBVIOUS
<1>10. /\ new = [id |-> number, status |-> "start_order", lines |-> order.lines, first |-> order.first,
                 subtotal |-> order.subtotal, discount |-> discount, granted |-> ids, given |-> given,
                 extras |-> extras, total |-> total]
       /\ orders' = kept \cup {new} /\ number \in Nat
  <2>1. (IF \E p \in granted : ShipsFree(p) THEN 0 ELSE ShippingCost) = 0
    BY DEF ShippingCost
  <2>2. NextOrder \in Nat
    BY NextOrderNat DEF SalesInv
  <2> QED BY <1>2, <1>8, <1>9, <2>1, <2>2 DEF NewOrder
<1>11. extras \in Nat /\ 100 * (order.subtotal + 0 + gift) = 100 * (card.subtotal + extras)
  BY <1>5, <1>6, <1>8, <1>9
<1>12. /\ discount \in Nat /\ total \in Int
       /\ total = Kept(100 * (card.subtotal + extras) - (100 * card.discount + given))
  <2>1. PICK x \in Nat : x = 100 * card.discount + given
    BY <1>5, <1>8
  <2>2. PICK y \in Int : y = 100 * (card.subtotal + extras) - x
    BY <1>5, <1>11, <2>1
  <2>3. total = Kept(y) /\ discount = Kept(x)
    BY <1>4, <1>9, <1>11, <2>1, <2>2
  <2>4. Kept(y) \in Int /\ Kept(x) \in Nat
    BY <2>1, KeptClose
  <2> QED BY <2>1, <2>2, <2>3, <2>4
<1>13. /\ new \in Orders /\ new.lines = card.lines /\ new.status = "start_order" /\ new.given = given
       /\ new.subtotal = card.subtotal /\ new.extras = extras /\ new.total = total /\ new.granted = ids
       /\ new.first = order.first
  BY <1>5, <1>6, <1>7, <1>8, <1>9, <1>10, <1>11, <1>12 DEF Orders
<1>14. TotalFits(new)
  BY <1>5, <1>8, <1>12, <1>13, CardOrderFits
<1>15. OrdersFit'
  <2>1. IsFiniteSet(kept \cup {new})
    BY <1>1, FS_Subset, FS_AddElement DEF SalesInv, OrdersFit
  <2> QED BY <1>1, <1>10, <1>13, <1>14, <2>1 DEF SalesInv, OrdersFit
<1>16. PromotionsDeserved'
  <2>1. ASSUME NEW p \in promotions, p.id \in new.granted PROVE Deserves(new, p)
    BY <1>6, <1>9, <1>13, <2>1, GrantedDeserved DEF SalesInv
  <2> QED BY <1>1, <1>3, <1>10, <2>1 DEF SalesInv, PromotionsDeserved
<1>17. PromotionsTypeOK'
  BY <1>3 DEF SalesInv, PromotionsTypeOK
<1> QED BY <1>3, <1>15, <1>16, <1>17, CardsStay

LEMMA ManualKeeps ==
  ASSUME SalesInv, WatchesCarts, UNCHANGED << retagged, mixed >>,
         NEW ware \in Wares, NEW quantity \in 1 .. MaxQuantity, NEW off \in Nat, NEW percent \in BOOLEAN,
         off <= 100, ManualOrder(ware, quantity, off, percent)
  PROVE  SalesInv'
<1>1. PICK t \in Tags : t = tag[ware]
  BY DEF SalesInv
<1>2. PICK d \in Nat, price \in Nat, subtotal \in Nat, all \in Nat :
        /\ d = CalculateItemDiscount(t) /\ price = t.price /\ subtotal = price * quantity /\ all = d * quantity
  <2>1. CalculateItemDiscount(t) \in Nat /\ t.price \in Nat /\ quantity \in Nat
    BY TagsFit, SalesAssumption
  <2>2. \A x, y \in Nat : x * y \in Nat
    OBVIOUS
  <2> QED BY <2>1, <2>2
<1>3. PICK given : given = IF percent THEN ((100 * subtotal - all) * off) \div 100 ELSE 100 * off
  OBVIOUS
<1>4. PICK l : l = [id |-> 0, ware |-> ware, quantity |-> quantity, unit |-> price, off |-> Kept(d)]
  OBVIOUS
<1>5. PICK number, discount, total :
        /\ number = NextOrder /\ discount = Kept(all + given) /\ total = Kept(100 * subtotal - all - given)
  OBVIOUS
<1>6. PICK new :
        /\ new = [id |-> number, status |-> "manual", lines |-> {l}, first |-> FALSE, subtotal |-> subtotal,
                  discount |-> discount, granted |-> {}, given |-> given, extras |-> 0, total |-> total]
        /\ orders' = orders \cup {new} /\ UNCHANGED << tag, cards, lastLine, promotions >>
  <2>1. NewManual(ware, quantity, off, percent) =
          [id |-> number, status |-> "manual", lines |-> {l}, first |-> FALSE, subtotal |-> subtotal,
           discount |-> discount, granted |-> {}, given |-> given, extras |-> 0, total |-> total]
    BY <1>1, <1>2, <1>3, <1>4, <1>5 DEF NewManual
  <2> QED BY <2>1 DEF ManualOrder
<1>7. given \in Int /\ all + given >= 0
  <2>1. CASE percent
    <3>1. PICK x \in Int : x = (100 * subtotal - all) * off
      OBVIOUS
    <3>2. given = x \div 100
      BY <1>3, <2>1, <3>1
    <3>3. x >= -(100 * all)
      <4>1. (100 * subtotal - all) * off = (100 * subtotal) * off - all * off
        OBVIOUS
      <4>2. (100 * subtotal) * off >= 0 /\ all * off <= 100 * all
        OBVIOUS
      <4> QED BY <3>1, <4>1, <4>2
    <3> QED BY <3>2, <3>3
  <2>2. CASE ~percent
    BY <1>3, <2>2
  <2> QED BY <2>1, <2>2
<1>8. Kept(d) \in Nat /\ discount \in Nat /\ total \in Int
  <2>1. PICK x, y : x = all + given /\ y = 100 * subtotal - all - given /\ x \in Nat /\ y \in Int
    BY <1>7
  <2>2. x \in Int /\ x >= 0 /\ d \in Int /\ d >= 0
    BY <2>1
  <2>3. Kept(x) \in Nat
    BY <2>2, KeptClose
  <2>4. Kept(y) \in Int
    BY <2>1, KeptClose
  <2>5. Kept(d) \in Nat
    BY <2>2, KeptClose
  <2> QED BY <1>5, <2>1, <2>3, <2>4, <2>5
<1>9. /\ l \in Lines /\ l.unit = price /\ l.quantity = quantity /\ l.off = Kept(d)
  BY <1>4, <1>8, SalesAssumption DEF Lines
<1>10. number \in Nat
  BY <1>5, NextOrderNat DEF SalesInv
<1>11. /\ new \in Orders /\ new.lines = {l} /\ new.status = "manual" /\ new.extras = 0 /\ new.total = total
       /\ new.given = given /\ new.granted = {}
  BY <1>6, <1>7, <1>8, <1>9, <1>10 DEF Orders
<1>12. TotalFits(new)
  BY <1>2, <1>5, <1>9, <1>11, ManualOrderFits
<1>13. OrdersFit'
  BY <1>6, <1>11, <1>12, FS_AddElement DEF SalesInv, OrdersFit
<1>14. PromotionsDeserved' /\ PromotionsTypeOK'
  BY <1>6, <1>11 DEF SalesInv, PromotionsDeserved, PromotionsTypeOK
<1> QED BY <1>6, <1>13, <1>14, CardsStay

\* Rows whose numbers and conditions stay.
LEMMA SameRow ==
  ASSUME NEW p, PromotionRow(p), NEW used \in Nat, NEW active \in BOOLEAN
  PROVE  /\ PromotionRow([p EXCEPT !.used = used]) /\ PromotionRow([p EXCEPT !.active = active, !.used = used])
         /\ [p EXCEPT !.used = used].id = p.id /\ [p EXCEPT !.used = used].conditions = p.conditions
         /\ [p EXCEPT !.used = used].type = p.type
         /\ [p EXCEPT !.active = active, !.used = used].id = p.id
         /\ [p EXCEPT !.active = active, !.used = used].conditions = p.conditions
         /\ [p EXCEPT !.active = active, !.used = used].type = p.type
BY DEF PromotionRow

LEMMA DeservesSame ==
  ASSUME NEW o, NEW q, o.lines = q.lines, o.subtotal = q.subtotal, o.first = q.first,
         NEW p, NEW r, p.conditions = r.conditions, p.type = r.type, Deserves(o, p)
  PROVE  Deserves(q, r)
<1>1. \A c \in r.conditions : Meets(o, c) = Meets(q, c)
  BY MeetsSame
<1> QED BY <1>1 DEF Deserves

LEMMA CountKeeps ==
  ASSUME SalesInv, WatchesCarts, UNCHANGED << retagged, mixed >>, NEW o \in orders, CountPromotions(o)
  PROVE  SalesInv'
<1>1. PICK new : new = [o EXCEPT !.status = "paid"]
  OBVIOUS
<1>2. /\ orders' = (orders \ {o}) \cup {new} /\ o.status = "start_order"
      /\ UNCHANGED << tag, cards, lastLine >>
      /\ promotions' = { IF p.id \in o.granted THEN [p EXCEPT !.used = @ + 1] ELSE p : p \in promotions }
  BY <1>1 DEF CountPromotions, Started
<1>3. o \in Orders /\ TotalFits(o)
  BY DEF SalesInv, OrdersFit
<1>4. /\ new \in Orders /\ new.status = "paid" /\ new.lines = o.lines /\ new.first = o.first
      /\ new.subtotal = o.subtotal /\ new.granted = o.granted /\ new.given = o.given
      /\ new.extras = o.extras /\ new.total = o.total
  BY <1>1, <1>3 DEF Orders
<1>5. TotalFits(new)
  BY <1>2, <1>3, <1>4 DEF TotalFits, Tolerance, Due
<1>6. OrdersFit'
  <2>1. IsFiniteSet((orders \ {o}) \cup {new})
    BY FS_Subset, FS_AddElement DEF SalesInv, OrdersFit
  <2> QED BY <1>2, <1>4, <1>5, <2>1 DEF SalesInv, OrdersFit
<1> DEFINE f == [p \in promotions |-> IF p.id \in o.granted THEN [p EXCEPT !.used = @ + 1] ELSE p]
<1>7. ASSUME NEW p \in promotions
      PROVE  PromotionRow(f[p]) /\ f[p].id = p.id /\ f[p].conditions = p.conditions /\ f[p].type = p.type
  <2>1. PICK used \in Nat : used = p.used + 1
    BY DEF SalesInv, PromotionsTypeOK, PromotionRow
  <2>2. PromotionRow(p)
    BY DEF SalesInv, PromotionsTypeOK
  <2> QED BY <2>1, <2>2, SameRow
<1>8. promotions' = { f[p] : p \in promotions }
  BY <1>2
<1>9. f \in Surjection(promotions, promotions')
  BY <1>8 DEF Surjection
<1> HIDE DEF f
<1>10. PromotionsTypeOK'
  <2>1. IsFiniteSet(promotions')
    BY <1>9, FS_Surjection DEF SalesInv, PromotionsTypeOK
  <2>2. \A p, q \in promotions : p.id = q.id => p = q
    BY DEF SalesInv, PromotionsTypeOK
  <2> QED BY <1>7, <1>8, <2>1, <2>2 DEF PromotionsTypeOK
<1>11. PromotionsDeserved'
  <2>1. ASSUME NEW x \in orders', NEW r \in promotions', r.id \in x.granted PROVE Deserves(x, r)
    <3>1. PICK p \in promotions : r = f[p]
      BY <1>8
    <3>2. PICK y \in orders : /\ x.lines = y.lines /\ x.subtotal = y.subtotal /\ x.first = y.first
                              /\ x.granted = y.granted
      BY <1>2, <1>4
    <3>3. Deserves(y, p)
      BY <1>7, <2>1, <3>1, <3>2 DEF SalesInv, PromotionsDeserved
    <3> QED BY <1>7, <3>1, <3>2, <3>3, DeservesSame
  <2> QED BY <2>1 DEF PromotionsDeserved
<1> QED BY <1>2, <1>6, <1>10, <1>11, CardsStay

LEMMA PromotionsKeep ==
  ASSUME SalesInv, WatchesCarts, UNCHANGED << retagged, mixed >>, PromotionRequests(NewOffers)
  PROVE  SalesInv'
<1>1. UNCHANGED << tag, cards, lastLine, orders >>
  BY DEF PromotionRequests, CreatePromotion, RemovePromotion, UpdatePromotion
<1>2. OrdersFit'
  BY <1>1 DEF SalesInv, OrdersFit
<1>3. ASSUME NEW p \in NewOffers, CreatePromotion(p) PROVE PromotionsTypeOK' /\ PromotionsDeserved'
  <2>1. PICK n : n = [p EXCEPT !.used = 0]
    OBVIOUS
  <2>2. PromotionRow(n) /\ n.id = p.id /\ p.id \in Nat
    <3>1. PromotionRow(p)
      BY OffersAssumption
    <3> QED BY <2>1, <3>1, SameRow DEF PromotionRow
  <2>3. /\ promotions' = promotions \cup {n} /\ (\A q \in promotions : q.id < p.id)
        /\ \A o \in orders : p.id \notin o.granted
    BY <1>3, <2>1 DEF CreatePromotion
  <2>4. \A q \in promotions : q.id # n.id
    BY <2>2, <2>3 DEF SalesInv, PromotionsTypeOK, PromotionRow
  <2>5. IsFiniteSet(promotions')
    BY <2>3, FS_AddElement DEF SalesInv, PromotionsTypeOK
  <2> QED BY <1>1, <2>2, <2>3, <2>4, <2>5 DEF SalesInv, PromotionsTypeOK, PromotionsDeserved
<1>4. ASSUME NEW p \in promotions, RemovePromotion(p) PROVE PromotionsTypeOK' /\ PromotionsDeserved'
  <2>1. promotions' = promotions \ {p}
    BY <1>4 DEF RemovePromotion
  <2>2. IsFiniteSet(promotions')
    BY <2>1, FS_Subset DEF SalesInv, PromotionsTypeOK
  <2> QED BY <1>1, <2>1, <2>2 DEF SalesInv, PromotionsTypeOK, PromotionsDeserved
<1>5. ASSUME NEW p \in promotions, NEW active \in BOOLEAN, UpdatePromotion(p, active)
      PROVE  PromotionsTypeOK' /\ PromotionsDeserved'
  <2>1. PICK n : n = [p EXCEPT !.active = active, !.used = 0]
    OBVIOUS
  <2>2. PromotionRow(n) /\ n.id = p.id /\ n.conditions = p.conditions /\ n.type = p.type
    <3>1. PromotionRow(p)
      BY DEF SalesInv, PromotionsTypeOK
    <3> QED BY <2>1, <3>1, SameRow
  <2>3. promotions' = (promotions \ {p}) \cup {n}
    BY <1>5, <2>1 DEF UpdatePromotion
  <2>4. IsFiniteSet(promotions')
    BY <2>3, FS_Subset, FS_AddElement DEF SalesInv, PromotionsTypeOK
  <2>5. PromotionsTypeOK'
    BY <2>2, <2>3, <2>4 DEF SalesInv, PromotionsTypeOK
  <2>6. ASSUME NEW o \in orders, n.id \in o.granted PROVE Deserves(o, n)
    <3>1. Deserves(o, p)
      BY <2>2, <2>6 DEF SalesInv, PromotionsDeserved
    <3> QED BY <2>2, <3>1, DeservesSame
  <2>7. PromotionsDeserved'
    BY <1>1, <2>3, <2>6 DEF SalesInv, PromotionsDeserved
  <2> QED BY <2>5, <2>7
<1> QED BY <1>1, <1>2, <1>3, <1>4, <1>5, CardsStay DEF PromotionRequests

-----------------------------------------------------------------------------
(* The theorems. *)

LEMMA SalesStart ==
  ASSUME tag \in [Wares -> Tags], PromotionsTypeOK, WatchedSalesInit(tag, promotions)
  PROVE  SalesInv
<1>1. /\ cards = [c \in Cards |-> NoCard] /\ lastLine = 0 /\ orders = {} /\ unlocked = FALSE
  BY DEF WatchedSalesInit, SalesInit
<1>2. CardFits(NoCard) /\ NoCard \in Carts
  BY NothingKeeps DEF CardFits, NoCard
<1>3. CardsFit
  BY <1>1, <1>2 DEF CardsFit
<1>4. OneOpen
  BY <1>1 DEF OneOpen, OpenCards, NoCard
<1>5. OrdersFit /\ PromotionsDeserved
  BY <1>1, FS_EmptySet DEF OrdersFit, PromotionsDeserved
<1>6. lastLine \in 0 .. MaxLines
  BY <1>1, SalesAssumption
<1>7. unlocked \in BOOLEAN
  BY <1>1, Zenon
<1> QED BY <1>3, <1>4, <1>5, <1>6, <1>7 DEF SalesInv

LEMMA SalesStep ==
  ASSUME SalesInv, [WatchedSalesNext]_<< salesVars, salesWatch >>
  PROVE  SalesInv'
<1>1. CASE UNCHANGED << salesVars, salesWatch >>
  <2>1. ASSUME NEW c \in Cards PROVE CardFits(cards[c])'
    <3>1. CardFits(cards[c])
      BY DEF SalesInv, CardsFit
    <3> QED BY <1>1, <3>1 DEF CardFits, Keeps, LineFits, salesVars, salesWatch
  <2>2. CardsFit' /\ OneOpen'
    BY <1>1, <2>1 DEF SalesInv, CardsFit, OneOpen, OpenCards, salesVars, salesWatch
  <2> QED BY <1>1, <2>2 DEF SalesInv, PromotionsTypeOK, OrdersFit, PromotionsDeserved, salesVars, salesWatch
<1>2. CASE WatchedSalesNext
  <2>1. WatchesCarts
    BY <1>2 DEF WatchedSalesNext
  <2>2. ASSUME NEW ware \in Wares, Adds(ware), UNCHANGED retagged,
               mixed' = mixed \cup (IF ware[2] = Plain THEN Mixes(ware) ELSE {})
        PROVE  SalesInv'
    <3>1. PICK c \in Cards, quantity \in 1 .. MaxQuantity : AddToCard(c, ware, quantity)
      BY <2>2 DEF Adds
    <3> QED BY <2>1, <2>2, <3>1, AddKeeps
  <2>3. ASSUME NEW ware \in Wares, NEW t \in Tags, ChangeTag(ware, t), retagged' = retagged \cup {ware},
               UNCHANGED mixed
        PROVE  SalesInv'
    BY <2>1, <2>3, TagKeeps
  <2>4. ASSUME UNCHANGED << retagged, mixed >>, OrderRequests(Codes) PROVE SalesInv'
    <3>1. 1 \in Nat /\ 1 <= 100 /\ 20 \in Nat /\ 20 <= 100
      OBVIOUS
    <3> QED BY <2>1, <2>4, <3>1, OrderKeeps, ManualKeeps DEF OrderRequests
  <2>5. ASSUME UNCHANGED << retagged, mixed >>, PromotionRequests(NewOffers) PROVE SalesInv'
    BY <2>1, <2>5, PromotionsKeep
  <2>6. ASSUME UNCHANGED << retagged, mixed >>, NEW o \in orders, CountPromotions(o) PROVE SalesInv'
    BY <2>1, <2>6, CountKeeps
  <2>7. ASSUME UNCHANGED << retagged, mixed >>, NEW c \in Cards, CardRequests(c) PROVE SalesInv'
    BY <2>1, <2>7, CardRequestsKeep
  <2>8. ASSUME UNCHANGED << retagged, mixed >>, LockCart \/ UnlockCart \/ AbandonCart PROVE SalesInv'
    BY <2>1, <2>8, CartsKeep
  <2> QED BY <1>2, <2>2, <2>3, <2>4, <2>5, <2>6, <2>7, <2>8 DEF WatchedSalesNext
<1> QED BY <1>1, <1>2

LEMMA SalesInvHolds == WatchedSalesSpec => []SalesInv
<1>1. tag \in [Wares -> Tags] /\ PromotionsTypeOK /\ WatchedSalesInit(tag, promotions) => SalesInv
  BY SalesStart
<1> QED BY <1>1, SalesStep, PTL DEF WatchedSalesSpec

\* Lines, carts, promotions and orders have the columns' values, with ids of
\* lines and promotions single and no figure below zero, whatever the prices
\* and the promotions (card.service.ts, order.service.ts, promotion/).
THEOREM SalesTyping == WatchedSalesSpec => []SalesTypeOK
<1>1. SalesInv => SalesTypeOK
  BY DEF SalesInv, CardsFit, CardFits, OrdersFit, SalesTypeOK
<1> QED BY <1>1, SalesInvHolds, PTL

\* A customer has one open cart until a locked one is unlocked beside it; the
\* figures of a cart are the sums of its lines, lines have the price of their
\* ware, the total of an order is what it comes to but for the rounding, and
\* one kind of discount is the same everywhere (card.service.ts, order.service.ts).
THEOREM SalesAddUp == WatchedSalesSpec => []SalesSound
<1>1. SalesInv => SalesSound
  <2> SUFFICES ASSUME SalesInv PROVE SalesSound
    OBVIOUS
  <2>1. unlocked \/ Cardinality(OpenCards) <= 1
    <3>1. CASE OpenCards = {}
      BY <3>1, FS_EmptySet
    <3>2. CASE ~unlocked /\ OpenCards # {}
      <4>1. PICK c \in OpenCards : OpenCards = {c}
        BY <3>2 DEF SalesInv, OneOpen
      <4> QED BY <4>1, FS_Singleton
    <3> QED BY <3>1, <3>2 DEF SalesInv
  <2>2. \A c \in Cards : cards[c] = ComputeSnapshot(cards[c])
    BY SnapshotStays DEF SalesInv, CardsFit, CardFits
  <2>3. \A c \in Cards : \A l \in cards[c].lines : l.id \notin mixed /\ l.ware \notin retagged =>
          l.unit = tag[l.ware].price /\ l.off = ResolveUnitDiscount(tag[l.ware])
    BY DEF SalesInv, CardsFit, CardFits, LineFits
  <2>4. (\A o \in orders : TotalFits(o)) /\ \A t \in Tags : TagFits(t)
    BY TagsFit DEF SalesInv, OrdersFit
  <2> QED BY <2>1, <2>2, <2>3, <2>4 DEF SalesSound, FiguresAddUp
<1> QED BY <1>1, SalesInvHolds, PTL

\* Whatever promotions are made, changed, removed and counted: one that an order
\* was granted has its conditions met by that order, except the customers of a
\* promotion that needs no code and was found by another of its conditions
\* (check-promotion.usecase.ts, promotion-repository.ts, promotion-validator.service.ts).
THEOREM GrantsDeserved == WatchedSalesSpec => []PromotionsDeserved
<1>1. SalesInv => PromotionsDeserved
  BY DEF SalesInv
<1> QED BY <1>1, SalesInvHolds, PTL

-----------------------------------------------------------------------------
\* The tree of the categories.

\* A set of numbers has a least one.
LEMMA Least == ASSUME NEW T, T \subseteq Nat, T # {} PROVE \E n \in T : \A m \in T : n <= m
<1>1. PICK x \in T : \A y \in T : ~ (<<y, x>> \in OpToRel(<, Nat))
  BY NatLessThanWellFounded, WFMin
<1>2. OpToRel(<, Nat) = { ss \in Nat \X Nat : ss[1] < ss[2] }
  BY Zenon DEF OpToRel
<1>3. ASSUME NEW y \in T, y < x PROVE FALSE
  <2>1. << y, x >> \in { ss \in Nat \X Nat : ss[1] < ss[2] }
    BY <1>3
  <2> QED BY <2>1, <1>1, <1>2
<1> QED BY <1>3

-----------------------------------------------------------------------------
(* Following the parents. *)

Names == Cats \cup {Root}
Most == Cardinality(Cats)
Parents == [Cats -> Names]
Climb(par, below) == [x \in Names |-> IF below[x] = Root THEN Root ELSE par[below[x]]]
Climbs(par, f) ==
  f = [n \in 0 .. Most |-> IF n = 0 THEN [x \in Names |-> x] ELSE Climb(par, f[n - 1])]

LEMMA MostIsNat == Most \in Nat
BY CategoriesAssumption, FS_CardinalityType DEF Most

\* One step after the other, as often as one likes.
Iterates(first, step, M, g) == g = [n \in 0 .. M |-> IF n = 0 THEN first ELSE step[g[n - 1]]]

\* From the least number that is too far.
LEMMA IterationExists ==
  ASSUME NEW first, NEW step, NEW M \in Nat
  PROVE  \E g : Iterates(first, step, M, g)
<1> DEFINE Far == { m \in Nat : ~\E g : Iterates(first, step, m, g) }
<1>1. ASSUME Far # {} PROVE FALSE
  <2>1. PICK m \in Far : \A k \in Far : m <= k
    <3> HIDE DEF Far
    <3>1. Far \subseteq Nat
      BY DEF Far
    <3> QED BY <1>1, <3>1, Least
  <2>2. CASE m = 0
    <3> DEFINE g == [n \in 0 .. 0 |-> first]
    <3>1. Iterates(first, step, 0, g)
      BY DEF Iterates
    <3> QED BY <2>1, <2>2, <3>1
  <2>3. CASE m # 0
    <3>1. m \in Nat /\ m - 1 \in Nat /\ m - 1 \notin Far
      BY <2>1, <2>3
    <3>2. PICK g : Iterates(first, step, m - 1, g)
      BY <3>1
    <3> DEFINE top == step[g[m - 1]]
               h == [n \in 0 .. m |-> IF n = m THEN top ELSE g[n]]
    <3> HIDE DEF top
    <3>3. \A n \in 0 .. m - 1 : h[n] = g[n] /\ n \in 0 .. m
      BY <3>1
    <3>4. h[m] = top
      BY <3>1
    <3>5. \A n \in 0 .. m - 1 : g[n] = IF n = 0 THEN first ELSE step[g[n - 1]]
      BY <3>2 DEF Iterates
    <3>6. h = [n \in 0 .. m |-> h[n]]
      OBVIOUS
    <3> HIDE DEF h
    <3>7. ASSUME NEW n \in 0 .. m PROVE h[n] = IF n = 0 THEN first ELSE step[h[n - 1]]
      <4>1. CASE n = m
        <5>1. h[m - 1] = g[m - 1]
          BY <3>1, <3>3
        <5> QED BY <2>3, <3>4, <4>1, <5>1 DEF top
      <4>2. CASE n # m
        <5>1. n \in 0 .. m - 1 /\ (n # 0 => n - 1 \in 0 .. m - 1)
          BY <3>1, <4>2
        <5> QED BY <3>3, <3>5, <5>1
      <4> QED BY <4>1, <4>2
    <3>8. h = [n \in 0 .. m |-> IF n = 0 THEN first ELSE step[h[n - 1]]]
      BY <3>6, <3>7
    <3> QED BY <2>1, <3>8 DEF Iterates
  <2> QED BY <2>2, <2>3
<1> QED BY <1>1

LEMMA IterationStays ==
  ASSUME NEW first, NEW step, NEW M \in Nat, NEW g, Iterates(first, step, M, g), NEW V, first \in V, step \in [V -> V]
  PROVE  \A n \in 0 .. M : g[n] \in V
<1> DEFINE Bad == { n \in 0 .. M : g[n] \notin V }
<1>1. ASSUME Bad # {} PROVE FALSE
  <2>1. PICK n \in Bad : \A m \in Bad : n <= m
    <3>1. Bad \subseteq Nat
      OBVIOUS
    <3> HIDE DEF Bad
    <3> QED BY <1>1, <3>1, Least
  <2>2. g[n] = IF n = 0 THEN first ELSE step[g[n - 1]]
    BY <2>1 DEF Iterates
  <2>3. n # 0 => n - 1 \in 0 .. M /\ n - 1 \notin Bad
    BY <2>1
  <2> QED BY <2>1, <2>2, <2>3
<1> QED BY <1>1

LEMMA UpIs ==
  ASSUME NEW par
  PROVE  Up(par) = (CHOOSE f : f = [n \in 0 .. Most |-> IF n = 0 THEN [x \in Names |-> x]
                       ELSE [x \in Names |-> IF f[n - 1][x] = Root THEN Root ELSE par[f[n - 1][x]]]])
BY Zenon DEF Up, Most, Names

LEMMA UpClimbs ==
  ASSUME NEW par, NEW g, Climbs(par, g)
  PROVE  Climbs(par, Up(par))
<1>1. g = [n \in 0 .. Most |-> IF n = 0 THEN [x \in Names |-> x]
                       ELSE [x \in Names |-> IF g[n - 1][x] = Root THEN Root ELSE par[g[n - 1][x]]]]
  BY Zenon DEF Climbs, Climb
<1>2. Up(par) = [n \in 0 .. Most |-> IF n = 0 THEN [x \in Names |-> x]
                  ELSE [x \in Names |-> IF Up(par)[n - 1][x] = Root THEN Root ELSE par[Up(par)[n - 1][x]]]]
  BY <1>1, UpIs, Zenon
<1> QED BY <1>2, Zenon DEF Climbs, Climb

LEMMA UpRule ==
  ASSUME NEW par \in Parents
  PROVE  /\ \A n \in 0 .. Most, x \in Names : Up(par)[n][x] \in Names
         /\ \A x \in Names : Up(par)[0][x] = x
         /\ \A n \in Nat, x \in Names : n + 1 <= Most =>
              Up(par)[n + 1][x] = IF Up(par)[n][x] = Root THEN Root ELSE par[Up(par)[n][x]]
<1> DEFINE id == [x \in Names |-> x]
           step == [below \in [Names -> Names] |-> Climb(par, below)]
<1>1. id \in [Names -> Names]
  OBVIOUS
<1>2. ASSUME NEW below \in [Names -> Names] PROVE Climb(par, below) \in [Names -> Names]
  BY DEF Climb, Parents, Names
<1>3. step \in [[Names -> Names] -> [Names -> Names]]
  BY <1>2
<1> HIDE DEF id
<1>4. PICK g : Iterates(id, step, Most, g)
  BY MostIsNat, IterationExists
<1>5. \A n \in 0 .. Most : g[n] \in [Names -> Names]
  <2> HIDE DEF step
  <2> QED BY <1>1, <1>3, <1>4, MostIsNat, IterationStays
<1>6. \A n \in 0 .. Most : n # 0 => step[g[n - 1]] = Climb(par, g[n - 1])
  <2> SUFFICES ASSUME NEW n \in 0 .. Most, n # 0 PROVE step[g[n - 1]] = Climb(par, g[n - 1])
    OBVIOUS
  <2>1. n - 1 \in 0 .. Most
    BY MostIsNat
  <2> QED BY <1>5, <2>1
<1> HIDE DEF step
<1>7. Climbs(par, g)
  BY <1>4, <1>6 DEF Iterates, Climbs, id
<1>8. Climbs(par, Up(par))
  BY <1>7, UpClimbs
<1> DEFINE f == Up(par)
<1> HIDE DEF f
<1>9. Climbs(par, f)
  BY <1>8 DEF f
<1>10. f[0] = id
  BY <1>9, MostIsNat DEF Climbs, id
<1>11. ASSUME NEW n \in Nat, n + 1 <= Most PROVE f[n + 1] = Climb(par, f[n])
  <2>1. n + 1 \in 0 .. Most /\ n + 1 # 0 /\ (n + 1) - 1 = n
    BY <1>11, MostIsNat
  <2> QED BY <1>9, <2>1 DEF Climbs
<1>12. \A x \in Names : f[0][x] = x
  BY <1>10 DEF id
<1>13. ASSUME NEW n \in Nat, NEW x \in Names, n + 1 <= Most
       PROVE  f[n + 1][x] = IF f[n][x] = Root THEN Root ELSE par[f[n][x]]
  BY <1>11, <1>13 DEF Climb
<1>14. Iterates(id, step, Most, f)
  <2> DEFINE Bad == { n \in 0 .. Most : f[n] # g[n] }
  <2>1. ASSUME Bad # {} PROVE FALSE
    <3>1. PICK n \in Bad : \A m \in Bad : n <= m
      <4>1. Bad \subseteq Nat
        OBVIOUS
      <4> HIDE DEF Bad
      <4> QED BY <2>1, <4>1, Least
    <3>2. n # 0 => n - 1 \in 0 .. Most /\ f[n - 1] = g[n - 1]
      BY <3>1, MostIsNat
    <3> QED BY <1>7, <1>9, <3>1, <3>2 DEF Climbs
  <2>2. \A n \in 0 .. Most : f[n] = g[n]
    BY <2>1
  <2>3. f = g
    BY <1>7, <1>9, <2>2 DEF Climbs
  <2> QED BY <1>4, <2>3
<1>15. \A n \in 0 .. Most : f[n] \in [Names -> Names]
  BY <1>1, <1>3, <1>14, MostIsNat, IterationStays
<1> QED BY <1>12, <1>13, <1>15 DEF f

\* The parent's way is the way but for the first step.
LEMMA UpFromParent ==
  ASSUME NEW par \in Parents, NEW x \in Cats
  PROVE  \A n \in Nat : n + 1 <= Most => Up(par)[n + 1][x] = Up(par)[n][par[x]]
<1>0. x \in Names /\ par[x] \in Names /\ x # Root
  BY CategoriesAssumption DEF Names, Parents
<1> DEFINE Bad == { n \in Nat : n + 1 <= Most /\ Up(par)[n + 1][x] # Up(par)[n][par[x]] }
<1>1. ASSUME Bad # {} PROVE FALSE
  <2>1. PICK n \in Bad : \A m \in Bad : n <= m
    <3>1. Bad \subseteq Nat
      OBVIOUS
    <3> HIDE DEF Bad
    <3> QED BY <1>1, <3>1, Least
  <2>2. CASE n = 0
    <3>1. Up(par)[0][x] = x /\ Up(par)[0][par[x]] = par[x]
      BY <1>0, UpRule
    <3>2. Up(par)[0 + 1][x] = par[x]
      BY <1>0, <2>1, <2>2, <3>1, UpRule
    <3> QED BY <2>1, <2>2, <3>1, <3>2
  <2>3. CASE n # 0
    <3>1. n - 1 \in Nat /\ (n - 1) + 1 = n /\ n + 1 <= Most /\ n <= Most /\ n - 1 \notin Bad
      BY <2>1, <2>3, MostIsNat
    <3>2. Up(par)[n][x] = Up(par)[n - 1][par[x]]
      BY <3>1, MostIsNat
    <3>3. Up(par)[n + 1][x] = IF Up(par)[n][x] = Root THEN Root ELSE par[Up(par)[n][x]]
      BY <1>0, <3>1, UpRule
    <3>4. Up(par)[n][par[x]] = IF Up(par)[n - 1][par[x]] = Root THEN Root ELSE par[Up(par)[n - 1][par[x]]]
      BY <1>0, <3>1, UpRule
    <3> QED BY <2>1, <3>2, <3>3, <3>4
  <2> QED BY <2>2, <2>3
<1> QED BY <1>1

-----------------------------------------------------------------------------
(* Forests: who hangs how deep, and who is above whom. *)

\* Every category hangs one deeper than its parent, in the same set.
Hangs(cats, par, deep) ==
  /\ cats \subseteq Cats /\ par \in Parents /\ deep \in [Cats -> Nat]
  /\ \A x \in cats : /\ par[x] \in cats \cup {Root}
                     /\ deep[x] = IF par[x] = Root THEN 1 ELSE deep[par[x]] + 1

LEMMA HangsDown ==
  ASSUME NEW cats, NEW par, NEW deep, Hangs(cats, par, deep), NEW x \in cats
  PROVE  /\ x \in Cats /\ x \in Names /\ x # Root /\ deep[x] \in Nat /\ deep[x] >= 1
         /\ par[x] # Root => par[x] \in cats /\ deep[x] = deep[par[x]] + 1
         /\ par[x] = Root => deep[x] = 1
<1>1. x \in Cats /\ deep[x] \in Nat /\ x # Root /\ par[x] \in cats \cup {Root}
  BY CategoriesAssumption DEF Hangs
<1>2. par[x] # Root => par[x] \in cats /\ deep[par[x]] \in Nat
  BY <1>1 DEF Hangs
<1> QED BY <1>1, <1>2 DEF Hangs, Names

\* Up to its depth one meets categories, each higher by one; then the root.
LEMMA WayUp ==
  ASSUME NEW cats, NEW par, NEW deep, Hangs(cats, par, deep), NEW x \in cats
  PROVE  \A n \in 0 .. Most :
           /\ n < deep[x] => Up(par)[n][x] \in cats /\ deep[Up(par)[n][x]] = deep[x] - n
           /\ n >= deep[x] => Up(par)[n][x] = Root
<1> DEFINE Fits(n) == /\ n < deep[x] => Up(par)[n][x] \in cats /\ deep[Up(par)[n][x]] = deep[x] - n
                      /\ n >= deep[x] => Up(par)[n][x] = Root
           Bad == { n \in 0 .. Most : ~Fits(n) }
<1>0. x \in Names /\ deep[x] \in Nat /\ deep[x] >= 1 /\ par \in Parents
  BY HangsDown DEF Hangs
<1>1. ASSUME Bad # {} PROVE FALSE
  <2>1. PICK n \in Bad : \A m \in Bad : n <= m
    <3>1. Bad \subseteq Nat
      OBVIOUS
    <3> HIDE DEF Bad
    <3> QED BY <1>1, <3>1, Least
  <2>2. CASE n = 0
    <3>1. Up(par)[0][x] = x
      BY <1>0, UpRule
    <3>2. Fits(0)
      BY <1>0, <3>1
    <3> QED BY <2>1, <2>2, <3>2
  <2>3. CASE n # 0
    <3> DEFINE m == n - 1
    <3>1. m \in Nat /\ m + 1 = n /\ m \in 0 .. Most /\ n <= Most /\ m \notin Bad
      BY <2>1, <2>3, MostIsNat
    <3>2. Fits(m)
      BY <3>1
    <3>3. Up(par)[n][x] = IF Up(par)[m][x] = Root THEN Root ELSE par[Up(par)[m][x]]
      BY <1>0, <3>1, UpRule
    <3> DEFINE y == Up(par)[m][x]
               z == Up(par)[n][x]
    <3> HIDE DEF m, y, z
    <3>4. CASE m < deep[x]
      <4>1. y \in cats /\ deep[y] = deep[x] - m /\ y # Root
        BY <3>2, <3>4, HangsDown DEF y
      <4>2. z = par[y]
        BY <3>3, <4>1 DEF y, z
      <4>3. /\ par[y] # Root => par[y] \in cats /\ deep[par[y]] \in Nat /\ deep[y] = deep[par[y]] + 1
            /\ par[y] = Root => deep[y] = 1
        BY <4>1, HangsDown
      <4>4. CASE par[y] = Root
        <5>1. n >= deep[x]
          BY <1>0, <3>1, <4>1, <4>3, <4>4
        <5>2. ~(n < deep[x])
          BY <1>0, <3>1, <5>1
        <5> QED BY <2>1, <4>2, <4>4, <5>1, <5>2 DEF z
      <4>5. CASE par[y] # Root
        <5>1. deep[z] = deep[x] - n /\ z \in cats /\ deep[z] >= 1
          BY <1>0, <3>1, <4>1, <4>2, <4>3, <4>5, HangsDown
        <5>2. ~(n >= deep[x])
          BY <1>0, <3>1, <5>1
        <5> QED BY <2>1, <5>1, <5>2 DEF z
      <4> QED BY <4>4, <4>5
    <3>5. CASE ~(m < deep[x])
      <4>1. m >= deep[x] /\ n >= deep[x] /\ ~(n < deep[x])
        BY <1>0, <3>1, <3>5
      <4>2. Up(par)[n][x] = Root
        BY <3>2, <3>3, <4>1
      <4> QED BY <2>1, <4>1, <4>2
    <3> QED BY <3>4, <3>5
  <2> QED BY <2>2, <2>3
<1> QED BY <1>1

\* Nobody hangs deeper than there are categories.
LEMMA NotTooDeep ==
  ASSUME NEW cats, NEW par, NEW deep, Hangs(cats, par, deep), NEW x \in cats
  PROVE  deep[x] <= Most
<1>0. deep[x] \in Nat /\ cats \subseteq Cats
  BY HangsDown DEF Hangs
<1>1. ASSUME deep[x] > Most PROVE FALSE
  <2> DEFINE way == [n \in 0 .. Most |-> Up(par)[n][x]]
  <2>1. \A n \in 0 .. Most : way[n] \in Cats /\ deep[way[n]] = deep[x] - n
    BY <1>0, <1>1, WayUp, MostIsNat
  <2>2. \A n, m \in 0 .. Most : way[n] = way[m] => n = m
    BY <1>0, <2>1, MostIsNat
  <2>3. way \in Injection(0 .. Most, Cats)
    <3>1. way \in [0 .. Most -> Cats]
      BY <2>1
    <3> HIDE DEF way
    <3> QED BY <2>2, <3>1 DEF Injection, IsInjective
  <2>4. Cardinality(0 .. Most) <= Cardinality(Cats)
    BY <2>3, CategoriesAssumption, FS_Injection
  <2>5. Cardinality(0 .. Most) = Most + 1
    BY MostIsNat, FS_Interval
  <2> QED BY <2>4, <2>5, MostIsNat DEF Most
<1> QED BY <1>0, <1>1, MostIsNat

\* a is on the way up from x.
OnWay(par, deep, x, a) == \E n \in 0 .. Most : n < deep[x] /\ Up(par)[n][x] = a

LEMMA AscendsOnWay ==
  ASSUME NEW cats, NEW par, NEW deep, Hangs(cats, par, deep), NEW x \in cats, NEW a \in cats
  PROVE  Ascends(par, x, a) <=> OnWay(par, deep, x, a)
<1>1. \A n \in 0 .. Most : Up(par)[n][x] = a => n < deep[x]
  BY WayUp, HangsDown, MostIsNat
<1> QED BY <1>1 DEF Ascends, OnWay, Most

\* The way of x is x and the way of its parent.
LEMMA WayRecurs ==
  ASSUME NEW cats, NEW par, NEW deep, Hangs(cats, par, deep), NEW x \in cats, NEW a \in cats
  PROVE  OnWay(par, deep, x, a) <=> a = x \/ (par[x] # Root /\ OnWay(par, deep, par[x], a))
<1>0. x \in Cats /\ x \in Names /\ par \in Parents /\ deep[x] \in Nat /\ deep[x] >= 1 /\ deep[x] <= Most
  BY HangsDown, NotTooDeep DEF Hangs
<1>1. ASSUME NEW n \in 0 .. Most, n < deep[x], Up(par)[n][x] = a, a # x
      PROVE  par[x] # Root /\ OnWay(par, deep, par[x], a)
  <2>1. n # 0
    BY <1>0, <1>1, UpRule
  <2>2. n - 1 \in Nat /\ (n - 1) + 1 <= Most /\ (n - 1) + 1 = n /\ n - 1 \in 0 .. Most /\ deep[x] # 1
    BY <1>0, <1>1, <2>1, MostIsNat
  <2>3. Up(par)[n - 1][par[x]] = a
    BY <1>0, <1>1, <2>2, UpFromParent
  <2>4. par[x] # Root /\ deep[par[x]] \in Nat /\ deep[x] = deep[par[x]] + 1
    BY <2>2, HangsDown
  <2>5. n - 1 < deep[par[x]]
    BY <1>0, <1>1, <2>2, <2>4
  <2> QED BY <2>2, <2>3, <2>4, <2>5 DEF OnWay
<1>2. a = x => OnWay(par, deep, x, a)
  BY <1>0, UpRule, MostIsNat DEF OnWay
<1>3. ASSUME par[x] # Root, NEW n \in 0 .. Most, n < deep[par[x]], Up(par)[n][par[x]] = a
      PROVE  OnWay(par, deep, x, a)
  <2>1. deep[par[x]] \in Nat /\ deep[x] = deep[par[x]] + 1
    BY <1>3, HangsDown
  <2>2. n \in Nat /\ n + 1 <= Most /\ n + 1 \in 0 .. Most /\ n + 1 < deep[x]
    BY <1>0, <1>3, <2>1, MostIsNat
  <2>3. Up(par)[n + 1][x] = a
    BY <1>0, <1>3, <2>2, UpFromParent
  <2> QED BY <2>2, <2>3 DEF OnWay
<1> QED BY <1>1, <1>2, <1>3 DEF OnWay

\* A relation that follows the parents.
Follows(rel, cats, par) ==
  /\ rel \subseteq cats \X cats
  /\ \A x, a \in cats : << a, x >> \in rel <=> a = x \/ (par[x] # Root /\ << a, par[x] >> \in rel)

LEMMA FollowsIsWay ==
  ASSUME NEW cats, NEW par, NEW deep, Hangs(cats, par, deep), NEW rel, Follows(rel, cats, par)
  PROVE  \A x, a \in cats : << a, x >> \in rel <=> OnWay(par, deep, x, a)
<1> DEFINE Fits(x) == \A a \in cats : << a, x >> \in rel <=> OnWay(par, deep, x, a)
           Bad == { deep[x] : x \in { y \in cats : ~Fits(y) } }
<1>1. ASSUME Bad # {} PROVE FALSE
  <2>1. Bad \subseteq Nat
    BY HangsDown
  <2>2. PICK n \in Bad : \A m \in Bad : n <= m
    <3> HIDE DEF Bad
    <3> QED BY <1>1, <2>1, Least
  <2>3. PICK x \in cats : ~Fits(x) /\ n = deep[x]
    BY <2>2
  <2>4. par[x] # Root => par[x] \in cats /\ Fits(par[x])
    <3> SUFFICES ASSUME par[x] # Root, ~Fits(par[x]) PROVE FALSE
      BY HangsDown
    <3> HIDE DEF Fits
    <3>1. par[x] \in cats /\ deep[x] = deep[par[x]] + 1 /\ deep[par[x]] \in Nat
      BY HangsDown
    <3>2. deep[par[x]] \in Bad
      BY <3>1
    <3> HIDE DEF Bad
    <3>3. n <= deep[par[x]]
      BY <2>2, <3>2
    <3> QED BY <2>3, <3>1, <3>3
  <2>5. ASSUME NEW a \in cats PROVE << a, x >> \in rel <=> OnWay(par, deep, x, a)
    <3>1. << a, x >> \in rel <=> a = x \/ (par[x] # Root /\ << a, par[x] >> \in rel)
      BY DEF Follows
    <3>2. OnWay(par, deep, x, a) <=> a = x \/ (par[x] # Root /\ OnWay(par, deep, par[x], a))
      BY WayRecurs
    <3> QED BY <2>4, <3>1, <3>2
  <2> QED BY <2>3, <2>5
<1> QED BY <1>1

LEMMA FollowsIsExact ==
  ASSUME NEW cats, NEW par, NEW deep, Hangs(cats, par, deep), NEW rel, Follows(rel, cats, par)
  PROVE  rel = { pr \in cats \X cats : Ascends(par, pr[2], pr[1]) }
<1>1. ASSUME NEW x \in cats, NEW a \in cats PROVE << a, x >> \in rel <=> Ascends(par, x, a)
  <2>1. << a, x >> \in rel <=> OnWay(par, deep, x, a)
    BY FollowsIsWay
  <2>2. Ascends(par, x, a) <=> OnWay(par, deep, x, a)
    BY AscendsOnWay
  <2> QED BY <2>1, <2>2
<1>2. rel \subseteq cats \X cats
  BY DEF Follows
<1> QED BY <1>1, <1>2

LEMMA AscentFollows ==
  ASSUME NEW cats, NEW par, NEW deep, Hangs(cats, par, deep)
  PROVE  Follows({ pr \in cats \X cats : Ascends(par, pr[2], pr[1]) }, cats, par)
<1>1. ASSUME NEW x \in cats, NEW a \in cats
      PROVE  Ascends(par, x, a) <=> a = x \/ (par[x] # Root /\ Ascends(par, par[x], a))
  BY AscendsOnWay, WayRecurs, HangsDown
<1>2. \A x \in cats : par[x] # Root => par[x] \in cats
  BY HangsDown
<1> QED BY <1>1, <1>2 DEF Follows

-----------------------------------------------------------------------------
(* The importer's closure. *)

Selves(cats) == { << x, x >> : x \in cats }
Linked(cats, par, pairs) ==
  pairs \cup { pr \in Cats \X Cats : \E c \in cats : par[c] = pr[1] /\ << c, pr[2] >> \in pairs }
Builds(cats, par, f) ==
  f = [n \in 0 .. Most |-> IF n = 0 THEN Selves(cats) ELSE Linked(cats, par, f[n - 1])]

LEMMA RebuildIs ==
  ASSUME NEW cats, NEW par
  PROVE  RebuildCategoryClosure(cats, par) =
    (CHOOSE f : f = [n \in 0 .. Most |-> IF n = 0 THEN { << x, x >> : x \in cats }
       ELSE f[n - 1] \cup { pr \in Cats \X Cats :
              \E c \in cats : par[c] = pr[1] /\ << c, pr[2] >> \in f[n - 1] }])[Most]
BY Zenon DEF RebuildCategoryClosure, Most

LEMMA RebuildBuilds ==
  ASSUME NEW cats, NEW par, NEW g, Builds(cats, par, g)
  PROVE  \E f : Builds(cats, par, f) /\ RebuildCategoryClosure(cats, par) = f[Most]
<1> DEFINE Fits(f) == f = [n \in 0 .. Most |-> IF n = 0 THEN { << x, x >> : x \in cats }
       ELSE f[n - 1] \cup { pr \in Cats \X Cats :
              \E c \in cats : par[c] = pr[1] /\ << c, pr[2] >> \in f[n - 1] }]
           h == CHOOSE f : Fits(f)
<1>1. Fits(g)
  BY Zenon DEF Builds, Linked, Selves
<1>2. RebuildCategoryClosure(cats, par) = h[Most]
  BY RebuildIs, Zenon
<1> HIDE DEF Fits
<1>3. Fits(h)
  BY <1>1, Zenon
<1> HIDE DEF h
<1>4. Builds(cats, par, h)
  BY <1>3, Zenon DEF Builds, Linked, Selves, Fits
<1> QED BY <1>2, <1>4

\* After n rounds there are the pairs that are n steps apart, or less.
LEMMA RebuildIsExact ==
  ASSUME NEW cats, NEW par, NEW deep, Hangs(cats, par, deep)
  PROVE  RebuildCategoryClosure(cats, par) = { pr \in cats \X cats : Ascends(par, pr[2], pr[1]) }
<1>0. cats \subseteq Cats /\ par \in Parents
  BY DEF Hangs
<1> DEFINE AllPairs == SUBSET (Cats \X Cats)
           step == [pairs \in AllPairs |-> Linked(cats, par, pairs)]
<1>1. step \in [AllPairs -> AllPairs] /\ Selves(cats) \in AllPairs
  <2>1. ASSUME NEW pairs \in AllPairs PROVE Linked(cats, par, pairs) \in AllPairs
    BY DEF Linked
  <2>2. Selves(cats) \in AllPairs
    BY <1>0 DEF Selves
  <2> QED BY <2>1, <2>2
<1>2. PICK g : Iterates(Selves(cats), step, Most, g)
  BY MostIsNat, IterationExists
<1>3. \A n \in 0 .. Most : g[n] \in AllPairs
  <2> HIDE DEF step, AllPairs
  <2> QED BY <1>1, <1>2, MostIsNat, IterationStays
<1>4. \A n \in 0 .. Most : n # 0 => step[g[n - 1]] = Linked(cats, par, g[n - 1])
  <2> SUFFICES ASSUME NEW n \in 0 .. Most, n # 0 PROVE step[g[n - 1]] = Linked(cats, par, g[n - 1])
    OBVIOUS
  <2>1. n - 1 \in 0 .. Most
    BY MostIsNat
  <2> QED BY <1>3, <2>1
<1> HIDE DEF step
<1>5. Builds(cats, par, g)
  BY <1>2, <1>4 DEF Iterates, Builds
<1>6. PICK f : Builds(cats, par, f) /\ RebuildCategoryClosure(cats, par) = f[Most]
  BY <1>5, RebuildBuilds
<1> DEFINE Near(n) == { pr \in cats \X cats : \E m \in 0 .. n : Up(par)[m][pr[2]] = pr[1] }
           Bad == { n \in 0 .. Most : f[n] # Near(n) }
<1>7. ASSUME Bad # {} PROVE FALSE
  <2>1. PICK n \in Bad : \A m \in Bad : n <= m
    <3>1. Bad \subseteq Nat
      OBVIOUS
    <3> HIDE DEF Bad
    <3> QED BY <1>7, <3>1, Least
  <2>2. CASE n = 0
    <3>1. f[0] = Selves(cats)
      BY <1>6, MostIsNat DEF Builds
    <3>2. \A x \in cats : Up(par)[0][x] = x
      BY <1>0, UpRule DEF Names
    <3>3. Selves(cats) = Near(0)
      BY <3>2 DEF Selves
    <3> QED BY <2>1, <2>2, <3>1, <3>3
  <2>3. CASE n # 0
    <3>1. n \in Nat /\ n <= Most /\ n - 1 \in Nat /\ n - 1 \in 0 .. Most /\ (n - 1) + 1 = n
      BY <2>1, <2>3, MostIsNat
    <3>2. f[n - 1] = Near(n - 1)
      BY <2>1, <3>1
    <3>3. f[n] = Linked(cats, par, Near(n - 1))
      BY <1>6, <2>1, <2>3, <3>2 DEF Builds
    <3>4. ASSUME NEW x \in cats, NEW m \in 0 .. n - 1, NEW c \in cats, Up(par)[m][x] = c
          PROVE  Up(par)[m + 1][x] = par[c]
      <4>1. m \in Nat /\ m + 1 <= Most /\ x \in Names /\ c # Root
        BY <1>0, <3>1, MostIsNat, HangsDown
      <4> QED BY <1>0, <3>4, <4>1, UpRule
    <3>5. ASSUME NEW x \in cats, NEW a \in cats, << a, x >> \in Linked(cats, par, Near(n - 1))
          PROVE  << a, x >> \in Near(n)
      <4>1. CASE << a, x >> \in Near(n - 1)
        <5>1. 0 .. n - 1 \subseteq 0 .. n
          BY <3>1
        <5> QED BY <4>1, <5>1
      <4>2. CASE \E c \in cats : par[c] = a /\ << c, x >> \in Near(n - 1)
        <5>1. PICK c \in cats : par[c] = a /\ << c, x >> \in Near(n - 1)
          BY <4>2
        <5>2. PICK m \in 0 .. n - 1 : Up(par)[m][x] = c
          BY <5>1
        <5>3. Up(par)[m + 1][x] = a /\ m + 1 \in 0 .. n
          BY <3>1, <3>4, <5>1, <5>2
        <5> QED BY <5>3
      <4> QED BY <3>5, <4>1, <4>2 DEF Linked
    <3>6. ASSUME NEW x \in cats, NEW a \in cats, << a, x >> \in Near(n)
          PROVE  << a, x >> \in Linked(cats, par, Near(n - 1))
      <4>1. PICK m \in 0 .. n : Up(par)[m][x] = a
        BY <3>6
      <4>2. CASE m # n
        <5>1. m \in 0 .. n - 1
          BY <3>1, <4>2
        <5> QED BY <4>1, <5>1 DEF Linked
      <4>3. CASE m = n
        <5>1. n < deep[x] /\ deep[x] \in Nat
          BY <2>1, <4>1, <4>3, WayUp, HangsDown, MostIsNat
        <5>2. n - 1 < deep[x]
          BY <3>1, <5>1
        <5>3. Up(par)[n - 1][x] \in cats
          BY <3>1, <5>2, WayUp
        <5> DEFINE c == Up(par)[n - 1][x]
        <5>4. c \in cats /\ << c, x >> \in Near(n - 1)
          BY <3>1, <5>3
        <5>5. par[c] = a
          BY <3>1, <3>4, <4>1, <4>3, <5>3
        <5> HIDE DEF c
        <5>6. << a, x >> \in Cats \X Cats
          BY <1>0
        <5> QED BY <5>4, <5>5, <5>6 DEF Linked
      <4> QED BY <4>2, <4>3
    <3>7. Linked(cats, par, Near(n - 1)) \subseteq cats \X cats
      <4>1. \A c \in cats : par[c] \in Cats => par[c] \in cats
        BY CategoriesAssumption DEF Hangs
      <4> QED BY <4>1 DEF Linked
    <3>8. Linked(cats, par, Near(n - 1)) = Near(n)
      <4> DEFINE left == Linked(cats, par, Near(n - 1))
                 right == Near(n)
      <4>1. right \subseteq cats \X cats /\ left \subseteq cats \X cats
        BY <3>7
      <4>2. \A x, a \in cats : << a, x >> \in left <=> << a, x >> \in right
        BY <3>5, <3>6
      <4> HIDE DEF left, right
      <4>3. left = right
        BY <4>1, <4>2
      <4> QED BY <4>3 DEF left, right
    <3> QED BY <2>1, <3>3, <3>8
  <2> QED BY <2>2, <2>3
<1>8. f[Most] = Near(Most)
  BY <1>7, MostIsNat
<1>9. Near(Most) = { pr \in cats \X cats : Ascends(par, pr[2], pr[1]) }
  BY DEF Ascends, Most
<1> QED BY <1>6, <1>8, <1>9

-----------------------------------------------------------------------------
(* How far it is, and what a move does. *)

LEMMA FollowsUpward ==
  ASSUME NEW cats, NEW par, NEW deep, Hangs(cats, par, deep), NEW rel, Follows(rel, cats, par)
  PROVE  /\ \A y \in cats : << y, y >> \in rel
         /\ \A a, y \in cats : << a, y >> \in rel => a = y \/ deep[a] < deep[y]
<1>1. ASSUME NEW a \in cats, NEW y \in cats, << a, y >> \in rel PROVE a = y \/ deep[a] < deep[y]
  <2>1. OnWay(par, deep, y, a)
    BY <1>1, FollowsIsWay
  <2>2. PICK n \in 0 .. Most : n < deep[y] /\ Up(par)[n][y] = a
    BY <2>1 DEF OnWay
  <2>3. deep[a] = deep[y] - n /\ deep[a] \in Nat /\ deep[y] \in Nat
    BY <2>2, WayUp, HangsDown
  <2>4. n = 0 => a = y
    BY <2>2, UpRule, HangsDown DEF Hangs
  <2> QED BY <2>3, <2>4
<1> QED BY <1>1 DEF Follows

\* The way up from d to x has as many steps as d hangs deeper.
LEMMA DepthIsDifference ==
  ASSUME NEW cats, NEW par, NEW deep, Hangs(cats, par, deep), NEW d \in cats, NEW x \in cats,
         Ascends(par, d, x)
  PROVE  Depth(par, d, x) = deep[d] - deep[x] /\ deep[d] >= deep[x]
<1>1. deep[d] \in Nat /\ deep[x] \in Nat
  BY HangsDown
<1>2. \A n \in 0 .. Most : Up(par)[n][d] = x => n = deep[d] - deep[x]
  <2> SUFFICES ASSUME NEW n \in 0 .. Most, Up(par)[n][d] = x PROVE n = deep[d] - deep[x]
    OBVIOUS
  <2>1. n \in Nat /\ x # Root
    BY MostIsNat, HangsDown
  <2>2. n < deep[d]
    BY <1>1, <2>1, WayUp
  <2>3. deep[x] = deep[d] - n
    BY <2>2, WayUp
  <2> QED BY <1>1, <2>1, <2>3
<1>3. PICK n \in 0 .. Most : Up(par)[n][d] = x
  BY DEF Ascends, Most
<1>4. n = deep[d] - deep[x] /\ n \in Nat
  BY <1>2, <1>3, MostIsNat
<1>5. \A m \in 0 .. n - 1 : Up(par)[m][d] # x
  <2> SUFFICES ASSUME NEW m \in 0 .. n - 1, Up(par)[m][d] = x PROVE FALSE
    OBVIOUS
  <2>1. m \in 0 .. Most /\ m # n
    BY <1>3, <1>4, MostIsNat
  <2> QED BY <1>2, <1>4, <2>1
<1> DEFINE Fits(k) == Up(par)[k][d] = x /\ \A m \in 0 .. k - 1 : Up(par)[m][d] # x
<1>6. Fits(n) /\ \A k \in 0 .. Most : Fits(k) => k = n
  BY <1>2, <1>3, <1>4, <1>5
<1>7. Depth(par, d, x) = CHOOSE k \in 0 .. Most : Fits(k)
  BY DEF Depth, Most
<1> HIDE DEF Fits
<1>8. Depth(par, d, x) = n
  BY <1>3, <1>6, <1>7
<1> QED BY <1>1, <1>4, <1>8

LEMMA DepthIsLeast ==
  ASSUME NEW par \in Parents, NEW d, NEW x, Ascends(par, d, x)
  PROVE  /\ Depth(par, d, x) \in 0 .. Most
         /\ Up(par)[Depth(par, d, x)][d] = x
         /\ \A m \in 0 .. Depth(par, d, x) - 1 : Up(par)[m][d] # x
<1> DEFINE Fits(k) == Up(par)[k][d] = x /\ \A m \in 0 .. k - 1 : Up(par)[m][d] # x
           There == { k \in 0 .. Most : Up(par)[k][d] = x }
<1>1. There \subseteq Nat /\ There # {}
  BY DEF Ascends, Most
<1>2. PICK n \in There : \A k \in There : n <= k
  <2> HIDE DEF There
  <2> QED BY <1>1, Least
<1>3. Fits(n)
  <2> SUFFICES ASSUME NEW m \in 0 .. n - 1, Up(par)[m][d] = x PROVE FALSE
    BY <1>2
  <2>1. m \in 0 .. Most /\ m < n
    BY <1>2, MostIsNat
  <2> QED BY <1>2, <2>1
<1>4. n \in 0 .. Most
  BY <1>2
<1>5. Depth(par, d, x) = CHOOSE k \in 0 .. Most : Fits(k)
  BY DEF Depth, Most
<1> HIDE DEF Fits, There
<1>6. Depth(par, d, x) \in 0 .. Most /\ Fits(Depth(par, d, x))
  BY <1>3, <1>4, <1>5, Zenon
<1> QED BY <1>6 DEF Fits

\* Where everything ascends to the root, the steps to it are the depth.
LEMMA RootedHangs ==
  ASSUME NEW cats, cats \subseteq Cats, NEW par \in [Cats -> cats \cup {Root}],
         \A x \in Cats : Ascends(par, x, Root),
         NEW lev \in [Cats -> Nat], \A x \in cats : lev[x] = Depth(par, x, Root)
  PROVE  Hangs(cats, par, lev)
<1>0. par \in Parents
  BY DEF Parents, Names
<1>1. ASSUME NEW x \in cats PROVE lev[x] = IF par[x] = Root THEN 1 ELSE lev[par[x]] + 1
  <2> DEFINE n == lev[x]
  <2>1. /\ n \in 0 .. Most /\ n \in Nat /\ Up(par)[n][x] = Root
        /\ \A m \in 0 .. n - 1 : Up(par)[m][x] # Root
    BY <1>0, <1>1, DepthIsLeast
  <2>2. x \in Cats /\ x \in Names /\ x # Root /\ par[x] \in cats \cup {Root}
    BY CategoriesAssumption DEF Names
  <2> HIDE DEF n
  <2>3. n # 0
    BY <1>0, <2>1, <2>2, UpRule
  <2>4. n - 1 \in Nat /\ (n - 1) + 1 = n /\ n <= Most /\ n - 1 \in 0 .. Most /\ Most \in Nat
    BY <2>1, <2>3, MostIsNat
  <2>5. Up(par)[n - 1][par[x]] = Root
    BY <1>0, <2>1, <2>2, <2>4, UpFromParent
  <2>6. Up(par)[0][par[x]] = par[x] /\ par[x] \in Names
    BY <1>0, <2>2, UpRule DEF Names
  <2>7. CASE par[x] = Root
    <3>1. ASSUME n # 1 PROVE FALSE
      <4>1. 1 \in 0 .. n - 1 /\ 0 + 1 <= Most
        BY <2>4, <3>1, <2>3
      <4>2. Up(par)[0 + 1][x] = Up(par)[0][par[x]]
        BY <1>0, <2>2, <4>1, UpFromParent
      <4> QED BY <2>1, <2>6, <2>7, <4>1, <4>2
    <3> QED BY <2>7, <3>1 DEF n
  <2>8. CASE par[x] # Root
    <3> DEFINE k == lev[par[x]]
    <3>1. par[x] \in cats /\ par[x] \in Cats
      BY <2>2, <2>8
    <3>2. /\ k \in 0 .. Most /\ k \in Nat /\ Up(par)[k][par[x]] = Root
          /\ \A m \in 0 .. k - 1 : Up(par)[m][par[x]] # Root
      BY <1>0, <3>1, DepthIsLeast
    <3> HIDE DEF k
    <3>3. k <= n - 1
      <4> SUFFICES ASSUME n - 1 < k PROVE FALSE
        BY <2>4, <3>2
      <4>1. n - 1 \in 0 .. k - 1
        BY <2>4, <3>2
      <4> QED BY <2>5, <3>2, <4>1
    <3>4. ASSUME k < n - 1 PROVE FALSE
      <4>1. k + 1 \in 0 .. n - 1 /\ k + 1 <= Most
        BY <2>4, <3>2, <3>4
      <4>2. Up(par)[k + 1][x] = Root
        BY <1>0, <2>2, <3>2, <4>1, UpFromParent
      <4> QED BY <2>1, <4>1, <4>2
    <3>5. n = k + 1
      BY <2>4, <3>2, <3>3, <3>4
    <3> QED BY <2>8, <3>5 DEF n, k
  <2> QED BY <2>7, <2>8
<1> QED BY <1>0, <1>1 DEF Hangs

\* A branch is hung elsewhere.
Over(rel, x) == { a \in Cats : << a, x >> \in rel }
Under(rel, x) == { d \in Cats : << x, d >> \in rel }
OverTo(rel, p) == IF p = Root THEN {} ELSE Over(rel, p)
DeepTo(deep, p) == IF p = Root THEN 0 ELSE deep[p]
Rehung(rel, x, p) == (rel \ ((Over(rel, x) \ {x}) \X Under(rel, x))) \cup (OverTo(rel, p) \X Under(rel, x))
Deepened(deep, rel, x, p) ==
  [y \in Cats |-> IF << x, y >> \in rel THEN (deep[y] - deep[x]) + DeepTo(deep, p) + 1 ELSE deep[y]]

LEMMA MoveHangs ==
  ASSUME NEW cats, NEW par, NEW deep, Hangs(cats, par, deep), NEW rel, Follows(rel, cats, par),
         NEW x \in cats, NEW p \in cats \cup {Root}, p # x, << x, p >> \notin rel,
         NEW to, to = [par EXCEPT ![x] = p]
  PROVE  Hangs(cats, to, Deepened(deep, rel, x, p)) /\ Follows(Rehung(rel, x, p), cats, to)
<1>1. /\ cats \subseteq Cats /\ par \in Parents /\ deep \in [Cats -> Nat] /\ x \in Cats
      /\ rel \subseteq cats \X cats /\ to \in Parents /\ p \in Names
  BY DEF Hangs, Follows, Parents, Names
<1>2. to[x] = p /\ \A y \in cats : y # x => to[y] = par[y]
  BY <1>1 DEF Parents
<1>3. \A y \in cats : << x, y >> \in rel => y = x \/ deep[x] < deep[y]
  BY FollowsUpward
<1>4. << x, x >> \in rel
  BY FollowsUpward
<1>5. \A y \in cats : << x, y >> \in rel /\ y # x => par[y] # Root /\ << x, par[y] >> \in rel
  BY DEF Follows
<1>6. \A y \in cats : << x, y >> \notin rel /\ par[y] # Root => << x, par[y] >> \notin rel
  BY DEF Follows
<1>7. \A y \in cats : par[y] # Root => par[y] \in cats
  BY HangsDown
<1>8. Hangs(cats, to, Deepened(deep, rel, x, p))
  <2> DEFINE new == Deepened(deep, rel, x, p)
  <2>0. DeepTo(deep, p) \in Nat
    BY <1>1 DEF DeepTo
  <2>1. ASSUME NEW y \in Cats PROVE new[y] \in Nat
    <3>1. CASE << x, y >> \in rel
      <4>1. y \in cats /\ deep[y] >= deep[x] /\ deep[y] \in Nat /\ deep[x] \in Nat
        BY <1>1, <1>3, <3>1
      <4> QED BY <2>0, <3>1, <4>1 DEF Deepened
    <3>2. CASE << x, y >> \notin rel
      BY <1>1, <3>2 DEF Deepened
    <3> QED BY <3>1, <3>2
  <2>2. new \in [Cats -> Nat]
    BY <2>1 DEF Deepened
  <2>3. ASSUME NEW y \in cats
        PROVE  to[y] \in cats \cup {Root} /\ new[y] = IF to[y] = Root THEN 1 ELSE new[to[y]] + 1
    <3>1. y \in Cats /\ deep[y] \in Nat /\ deep[x] \in Nat
      BY <1>1
    <3>2. CASE y = x
      <4>1. new[x] = DeepTo(deep, p) + 1
        BY <1>4, <2>0, <3>1, <3>2 DEF Deepened
      <4>2. p # Root => new[p] = deep[p] /\ p \in cats
        BY <1>1 DEF Deepened
      <4> QED BY <1>2, <3>2, <4>1, <4>2 DEF DeepTo
    <3>3. CASE y # x /\ << x, y >> \in rel
      <4>1. par[y] # Root /\ << x, par[y] >> \in rel /\ par[y] \in cats /\ par[y] \in Cats
        BY <1>1, <1>5, <1>7, <3>3
      <4>2. deep[y] = deep[par[y]] + 1 /\ deep[par[y]] \in Nat
        BY <1>1, <4>1, HangsDown
      <4>3. /\ new[y] = (deep[y] - deep[x]) + DeepTo(deep, p) + 1
            /\ new[par[y]] = (deep[par[y]] - deep[x]) + DeepTo(deep, p) + 1
        BY <3>1, <3>3, <4>1 DEF Deepened
      <4>4. new[y] = new[par[y]] + 1
        <5> HIDE DEF new
        <5> QED BY <2>0, <3>1, <4>2, <4>3
      <4> QED BY <1>2, <3>3, <4>1, <4>4
    <3>4. CASE y # x /\ << x, y >> \notin rel
      <4>1. new[y] = deep[y] /\ to[y] = par[y]
        BY <1>2, <3>1, <3>4 DEF Deepened
      <4>2. par[y] # Root => par[y] \in cats /\ new[par[y]] = deep[par[y]]
        BY <1>1, <1>6, <1>7, <3>4 DEF Deepened
      <4> QED BY <4>1, <4>2, HangsDown
    <3> QED BY <3>2, <3>3, <3>4
  <2> HIDE DEF new
  <2>4. Hangs(cats, to, new)
    BY <1>1, <2>2, <2>3 DEF Hangs
  <2> QED BY <2>4 DEF new
<1>9. Follows(Rehung(rel, x, p), cats, to)
  <2> DEFINE new == Rehung(rel, x, p)
  <2>1. new \subseteq cats \X cats
    BY <1>1 DEF Rehung, OverTo, Over, Under
  <2>2. \A y, a \in cats : << x, y >> \notin rel => (<< a, y >> \in new <=> << a, y >> \in rel)
    BY <1>1 DEF Rehung, Under
  <2>3. \A y, a \in cats : << x, y >> \in rel =>
          (<< a, y >> \in new <=> (<< a, y >> \in rel /\ a \notin Over(rel, x) \ {x}) \/ a \in OverTo(rel, p))
    BY <1>1 DEF Rehung, Under
  <2> HIDE DEF new
  <2>4. ASSUME NEW y \in cats, NEW a \in cats
        PROVE  << a, y >> \in new <=> a = y \/ (to[y] # Root /\ << a, to[y] >> \in new)
    <3>0. << a, y >> \in rel <=> a = y \/ (par[y] # Root /\ << a, par[y] >> \in rel)
      BY DEF Follows
    <3>1. CASE y = x
      <4>1. << a, x >> \in new <=> a = x \/ a \in OverTo(rel, p)
        <5>1. << a, x >> \in rel /\ a \notin Over(rel, x) \ {x} <=> a = x
          BY <1>1, <1>4 DEF Over
        <5> QED BY <1>4, <2>3, <5>1
      <4>2. p # Root => (<< a, p >> \in new <=> a \in OverTo(rel, p))
        BY <1>1, <2>2 DEF OverTo, Over
      <4>3. p = Root => a \notin OverTo(rel, p)
        BY DEF OverTo
      <4> QED BY <1>2, <3>1, <4>1, <4>2, <4>3
    <3>2. CASE y # x /\ << x, y >> \in rel
      <4>1. par[y] # Root /\ << x, par[y] >> \in rel /\ par[y] \in cats /\ to[y] = par[y]
        BY <1>2, <1>5, <1>7, <3>2
      <4>2. y \notin Over(rel, x)
        <5>1. deep[x] < deep[y] /\ deep[x] \in Nat /\ deep[y] \in Nat
          BY <1>1, <1>3, <3>2
        <5>2. << y, x >> \notin rel
          BY <3>2, <5>1, FollowsUpward
        <5> QED BY <5>2 DEF Over
      <4>3. << a, y >> \in new <=> (<< a, y >> \in rel /\ a \notin Over(rel, x) \ {x}) \/ a \in OverTo(rel, p)
        BY <2>3, <3>2
      <4>4. << a, par[y] >> \in new <=>
              (<< a, par[y] >> \in rel /\ a \notin Over(rel, x) \ {x}) \/ a \in OverTo(rel, p)
        BY <2>3, <4>1
      <4> QED BY <3>0, <4>1, <4>2, <4>3, <4>4
    <3>3. CASE y # x /\ << x, y >> \notin rel
      <4>1. to[y] = par[y] /\ (par[y] # Root => par[y] \in cats /\ << x, par[y] >> \notin rel)
        BY <1>2, <1>6, <1>7, <3>3
      <4> QED BY <2>2, <3>0, <3>3, <4>1
    <3> QED BY <3>1, <3>2, <3>3
  <2> QED BY <2>1, <2>4 DEF Follows, new
<1> QED BY <1>8, <1>9

\* A new leaf.
LEMMA InsertHangs ==
  ASSUME NEW cats, NEW par, NEW deep, Hangs(cats, par, deep), NEW rel, Follows(rel, cats, par),
         NEW x \in Cats \ cats, NEW p \in cats \cup {Root},
         NEW to, to = [par EXCEPT ![x] = p],
         NEW lev \in [Cats -> Nat], \A y \in cats : lev[y] = deep[y], lev[x] = DeepTo(deep, p) + 1
  PROVE  /\ Hangs(cats \cup {x}, to, lev)
         /\ Follows(rel \cup { << a, x >> : a \in OverTo(rel, p) \cup {x} }, cats \cup {x}, to)
<1>1. /\ cats \subseteq Cats /\ par \in Parents /\ rel \subseteq cats \X cats /\ to \in Parents
      /\ x # Root /\ p # x
  BY CategoriesAssumption DEF Hangs, Follows, Parents, Names
<1>2. to[x] = p /\ \A y \in cats : to[y] = par[y] /\ y # x
  BY <1>1 DEF Parents
<1>3. Hangs(cats \cup {x}, to, lev)
  <2>1. ASSUME NEW y \in cats
        PROVE  to[y] \in cats \cup {Root} /\ lev[y] = IF to[y] = Root THEN 1 ELSE lev[to[y]] + 1
    BY <1>2, HangsDown
  <2>2. p \in cats \cup {Root} /\ lev[x] = IF p = Root THEN 1 ELSE lev[p] + 1
    BY DEF DeepTo
  <2> QED BY <1>1, <1>2, <2>1, <2>2 DEF Hangs
<1>4. Follows(rel \cup { << a, x >> : a \in OverTo(rel, p) \cup {x} }, cats \cup {x}, to)
  <2> DEFINE new == rel \cup { << a, x >> : a \in OverTo(rel, p) \cup {x} }
  <2>1. OverTo(rel, p) \subseteq cats
    BY <1>1 DEF OverTo, Over
  <2>2. new \subseteq (cats \cup {x}) \X (cats \cup {x})
    BY <1>1, <2>1
  <2>3. \A y \in cats : \A a : << a, y >> \in new <=> << a, y >> \in rel
    BY <1>2
  <2>4. \A a : << a, x >> \in new <=> a = x \/ a \in OverTo(rel, p)
    BY <1>1
  <2> HIDE DEF new
  <2>5. ASSUME NEW y \in cats, NEW a \in cats \cup {x}
        PROVE  << a, y >> \in new <=> a = y \/ (to[y] # Root /\ << a, to[y] >> \in new)
    <3>1. par[y] # Root => par[y] \in cats
      BY HangsDown
    <3>2. a \in cats => (<< a, y >> \in rel <=> a = y \/ (par[y] # Root /\ << a, par[y] >> \in rel))
      BY DEF Follows
    <3>3. a = x => << a, y >> \notin rel /\ (par[y] # Root => << a, par[y] >> \notin rel) /\ a # y
      BY <1>1
    <3> QED BY <1>2, <2>3, <3>1, <3>2, <3>3
  <2>6. ASSUME NEW a \in cats \cup {x}
        PROVE  << a, x >> \in new <=> a = x \/ (p # Root /\ << a, p >> \in new)
    <3>1. p # Root => (<< a, p >> \in new <=> a \in OverTo(rel, p))
      BY <1>1, <2>3 DEF OverTo, Over
    <3>2. p = Root => a \notin OverTo(rel, p)
      BY DEF OverTo
    <3> QED BY <2>4, <3>1, <3>2
  <2> QED BY <1>2, <2>2, <2>5, <2>6 DEF Follows, new
<1> QED BY <1>3, <1>4

\* A branch is cut off.
LEMMA DeleteHangs ==
  ASSUME NEW cats, NEW par, NEW deep, Hangs(cats, par, deep), NEW rel, Follows(rel, cats, par),
         NEW x \in cats, NEW lost, lost = { d \in cats : Ascends(par, d, x) }
  PROVE  /\ Hangs(cats \ lost, par, deep)
         /\ Follows({ pr \in rel : pr[1] \notin lost /\ pr[2] \notin lost }, cats \ lost, par)
<1>1. \A d \in cats : d \in lost <=> << x, d >> \in rel
  BY FollowsIsExact
<1>2. ASSUME NEW y \in cats \ lost, par[y] # Root PROVE par[y] \in cats \ lost
  <2>1. par[y] \in cats /\ << x, y >> \notin rel
    BY <1>1, <1>2, HangsDown
  <2>2. << x, par[y] >> \notin rel
    BY <1>2, <2>1 DEF Follows
  <2> QED BY <1>1, <2>1, <2>2
<1>3. Hangs(cats \ lost, par, deep)
  BY <1>2 DEF Hangs
<1>4. Follows({ pr \in rel : pr[1] \notin lost /\ pr[2] \notin lost }, cats \ lost, par)
  <2> DEFINE new == { pr \in rel : pr[1] \notin lost /\ pr[2] \notin lost }
  <2>1. new \subseteq (cats \ lost) \X (cats \ lost)
    BY DEF Follows
  <2>2. \A a, y \in cats \ lost : << a, y >> \in new <=> << a, y >> \in rel
    OBVIOUS
  <2> HIDE DEF new
  <2>3. ASSUME NEW y \in cats \ lost, NEW a \in cats \ lost
        PROVE  << a, y >> \in new <=> a = y \/ (par[y] # Root /\ << a, par[y] >> \in new)
    <3>1. << a, y >> \in rel <=> a = y \/ (par[y] # Root /\ << a, par[y] >> \in rel)
      BY DEF Follows
    <3> QED BY <1>2, <2>2, <3>1
  <2> QED BY <2>1, <2>3 DEF Follows, new
<1> QED BY <1>3, <1>4

-----------------------------------------------------------------------------
(* The breadcrumb. *)

\* Increasing numbers that leave no room are the numbers themselves.
LEMMA NoRoom ==
  ASSUME NEW k \in Nat, NEW g \in [1 .. k -> 1 .. k], \A i, j \in 1 .. k : i < j => g[i] < g[j]
  PROVE  \A i \in 1 .. k : g[i] = i
<1>1. ASSUME NEW i \in 1 .. k, g[i] < i PROVE FALSE
  <2> DEFINE Low == { j \in 1 .. k : g[j] < j }
  <2>1. Low \subseteq Nat /\ Low # {}
    BY <1>1
  <2>2. PICK j \in Low : \A m \in Low : j <= m
    <3> HIDE DEF Low
    <3> QED BY <2>1, Least
  <2>3. j \in 1 .. k /\ j # 1 /\ g[j] \in 1 .. k
    BY <2>2
  <2>4. j - 1 \in 1 .. k /\ j - 1 \notin Low /\ j - 1 < j
    BY <2>2, <2>3
  <2>5. g[j - 1] >= j - 1 /\ g[j - 1] < g[j] /\ g[j - 1] \in 1 .. k
    BY <2>3, <2>4
  <2> QED BY <2>2, <2>3, <2>5
<1>2. ASSUME NEW i \in 1 .. k, g[i] > i PROVE FALSE
  <2> DEFINE High == { k - j : j \in { n \in 1 .. k : g[n] > n } }
  <2>1. High \subseteq Nat /\ High # {}
    BY <1>2
  <2>2. PICK h \in High : \A m \in High : h <= m
    <3> HIDE DEF High
    <3> QED BY <2>1, Least
  <2>3. PICK j \in 1 .. k : g[j] > j /\ h = k - j
    BY <2>2
  <2>4. j # k /\ g[j] \in 1 .. k
    BY <2>3
  <2>5. j + 1 \in 1 .. k /\ j < j + 1
    BY <2>4
  <2>6. ~(g[j + 1] > j + 1)
    <3>1. ASSUME g[j + 1] > j + 1 PROVE FALSE
      <4>1. k - (j + 1) \in High
        BY <2>5, <3>1
      <4> HIDE DEF High
      <4>2. h <= k - (j + 1)
        BY <2>2, <4>1
      <4> QED BY <2>3, <4>2
    <3> QED BY <3>1
  <2>7. g[j] < g[j + 1] /\ g[j + 1] \in 1 .. k
    BY <2>5
  <2> QED BY <2>3, <2>4, <2>6, <2>7
<1> QED BY <1>1, <1>2

\* Where levels are depths, the ancestors by their level are the way up.
LEMMA CrumbsLead ==
  ASSUME Hangs(alive, parent, level), Follows(closure, alive, parent), NEW x \in alive
  PROVE  LET b == Breadcrumb(x) IN
           /\ parent[b[1]] = Root
           /\ \A i \in 1 .. Len(b) - 1 : parent[b[i + 1]] = b[i]
<1> DEFINE k == level[x] - 1
           S == Ancestors(closure, x) \ {x}
           up == [n \in 1 .. k |-> Up(parent)[level[x] - n][x]]
<1>1. /\ level[x] \in Nat /\ level[x] >= 1 /\ level[x] <= Most /\ x \in Cats /\ x \in Names /\ x # Root
      /\ parent \in Parents /\ alive \subseteq Cats /\ k \in Nat /\ level \in [Cats -> Nat]
  BY HangsDown, NotTooDeep DEF Hangs
<1>2. \A a \in alive : << a, x >> \in closure <=>
        \E n \in 0 .. Most : n < level[x] /\ Up(parent)[n][x] = a
  BY FollowsIsWay DEF OnWay
<1>3. ASSUME NEW n \in 1 .. k
      PROVE  /\ Up(parent)[level[x] - n][x] \in S /\ level[Up(parent)[level[x] - n][x]] = n
             /\ Up(parent)[level[x] - n][x] \in alive
  <2>1. level[x] - n \in 0 .. Most /\ level[x] - n < level[x] /\ level[x] - n # 0
    BY <1>1, MostIsNat
  <2>2. Up(parent)[level[x] - n][x] \in alive /\ level[Up(parent)[level[x] - n][x]] = level[x] - (level[x] - n)
    BY <2>1, WayUp
  <2>3. level[Up(parent)[level[x] - n][x]] = n /\ n # level[x]
    BY <1>1, <2>2
  <2> QED BY <1>1, <1>2, <2>1, <2>2, <2>3 DEF Ancestors
<1>4. ASSUME NEW a \in S PROVE a \in alive /\ level[a] \in 1 .. k /\ a = Up(parent)[level[x] - level[a]][x]
  <2>1. a \in alive /\ << a, x >> \in closure /\ a # x
    BY DEF Ancestors, Follows
  <2>2. PICK n \in 0 .. Most : n < level[x] /\ Up(parent)[n][x] = a
    BY <1>2, <2>1
  <2>3. level[a] = level[x] - n /\ level[a] \in Nat /\ level[a] >= 1
    BY <2>1, <2>2, WayUp, HangsDown
  <2>4. n # 0
    BY <1>1, <2>1, <2>2, UpRule
  <2>5. level[a] \in 1 .. k /\ n = level[x] - level[a]
    BY <1>1, <2>2, <2>3, <2>4
  <2> QED BY <2>1, <2>2, <2>5
<1>5. Cardinality(S) = k
  <2>1. up \in [1 .. k -> S]
    BY <1>3
  <2>2. \A n, m \in 1 .. k : up[n] = up[m] => n = m
    BY <1>3
  <2>3. \A a \in S : \E n \in 1 .. k : up[n] = a
    BY <1>4
  <2> HIDE DEF up, S
  <2>4. up \in Bijection(1 .. k, S)
    BY <2>1, <2>2, <2>3 DEF Bijection, Injection, Surjection, IsInjective
  <2>5. IsFiniteSet(1 .. k) /\ Cardinality(1 .. k) = k
    BY <1>1, FS_Interval
  <2>6. ExistsBijection(1 .. k, S)
    BY <2>4 DEF ExistsBijection
  <2> QED BY <2>5, <2>6, FS_Bijection
<1> DEFINE Sorted(s) == \A i, j \in DOMAIN s : i < j => s[i] # s[j] /\ level[s[i]] <= level[s[j]]
           s == ByLevel(S)
<1>6. Sorted(up) /\ up \in [1 .. k -> S]
  <2>1. \A n \in 1 .. k : up[n] \in S /\ level[up[n]] = n
    BY <1>3
  <2>2. up \in [1 .. k -> S]
    BY <2>1
  <2> HIDE DEF up, S
  <2> QED BY <2>1, <2>2
<1>7. s = CHOOSE f \in [1 .. k -> S] : Sorted(f)
  <2>1. s = CHOOSE f \in [1 .. Cardinality(S) -> S] : Sorted(f)
    BY DEF ByLevel
  <2> HIDE DEF S, s, Sorted
  <2> QED BY <1>5, <2>1
<1>8. s \in [1 .. k -> S] /\ Sorted(s)
  <2> HIDE DEF S, s, Sorted, up
  <2> QED BY <1>6, <1>7, Zenon
<1> HIDE DEF s
<1> DEFINE g == [i \in 1 .. k |-> level[s[i]]]
<1>9. \A i \in 1 .. k : s[i] \in alive /\ g[i] \in 1 .. k /\ g[i] = level[s[i]]
                        /\ s[i] = Up(parent)[level[x] - g[i]][x]
  BY <1>4, <1>8
<1>10. \A i, j \in 1 .. k : i < j => g[i] < g[j]
  <2> SUFFICES ASSUME NEW i \in 1 .. k, NEW j \in 1 .. k, i < j PROVE g[i] < g[j]
    OBVIOUS
  <2>1. s[i] # s[j] /\ level[s[i]] <= level[s[j]]
    BY <1>8
  <2> HIDE DEF g
  <2>2. g[i] # g[j]
    BY <1>9, <2>1
  <2> QED BY <1>9, <2>1, <2>2
<1>11. \A i \in 1 .. k : g[i] = i
  <2>1. g \in [1 .. k -> 1 .. k]
    BY <1>9
  <2> HIDE DEF g
  <2> QED BY <1>1, <1>10, <2>1, NoRoom
<1>12. \A i \in 1 .. k : s[i] = Up(parent)[level[x] - i][x] /\ level[s[i]] = i /\ s[i] \in alive
  BY <1>9, <1>11
<1> DEFINE b == Breadcrumb(x)
<1>13. /\ Len(b) = k + 1 /\ b[k + 1] = x /\ \A i \in 1 .. k : b[i] = s[i]
  <2>1. b = s \o << x >>
    BY DEF Breadcrumb, s
  <2>2. s \in Seq(alive) /\ Len(s) = k
    <3>1. s \in [1 .. k -> alive]
      BY <1>8, <1>12
    <3> QED BY <1>1, <3>1
  <2>3. << x >> \in Seq(alive) /\ Len(<< x >>) = 1 /\ << x >>[1] = x
    OBVIOUS
  <2> HIDE DEF b
  <2> QED BY <1>1, <2>1, <2>2, <2>3
<1> HIDE DEF b
<1>14. \A i \in 1 .. k + 1 : b[i] \in alive /\ level[b[i]] = i /\ b[i] = Up(parent)[level[x] - i][x]
  <2>1. Up(parent)[0][x] = x /\ level[x] - (k + 1) = 0 /\ level[x] = k + 1
    BY <1>1, UpRule
  <2> SUFFICES ASSUME NEW i \in 1 .. k + 1
               PROVE  b[i] \in alive /\ level[b[i]] = i /\ b[i] = Up(parent)[level[x] - i][x]
    OBVIOUS
  <2>2. CASE i = k + 1
    BY <1>13, <2>1, <2>2
  <2>3. CASE i # k + 1
    <3>1. i \in 1 .. k
      BY <1>1, <2>3
    <3> QED BY <1>12, <1>13, <3>1
  <2> QED BY <2>2, <2>3
<1>15. parent[b[1]] = Root
  <2>1. b[1] \in alive /\ level[b[1]] = 1
    BY <1>1, <1>14
  <2>2. parent[b[1]] # Root => level[parent[b[1]]] >= 1 /\ level[parent[b[1]]] \in Nat
                               /\ level[b[1]] = level[parent[b[1]]] + 1
    BY <2>1, HangsDown
  <2> QED BY <2>1, <2>2
<1>16. ASSUME NEW i \in 1 .. k PROVE parent[b[i + 1]] = b[i]
  <2> DEFINE n == level[x] - (i + 1)
  <2>1. n \in Nat /\ n + 1 = level[x] - i /\ n + 1 <= Most /\ i + 1 \in 1 .. k + 1 /\ i \in 1 .. k + 1
    <3>1. i \in Nat /\ 1 <= i /\ i <= k /\ level[x] = k + 1
      BY <1>1
    <3> HIDE DEF k
    <3> QED BY <1>1, <3>1, MostIsNat
  <2>2. b[i + 1] = Up(parent)[n][x] /\ b[i] = Up(parent)[n + 1][x] /\ b[i + 1] \in alive /\ b[i + 1] # Root
    BY <1>14, <2>1, HangsDown
  <2> HIDE DEF n
  <2>3. Up(parent)[n + 1][x] = parent[Up(parent)[n][x]]
    BY <1>1, <2>1, <2>2, UpRule
  <2> QED BY <2>2, <2>3
<1>17. Len(b) - 1 = k
  BY <1>1, <1>13
<1>18. parent[b[1]] = Root /\ \A i \in 1 .. Len(b) - 1 : parent[b[i + 1]] = b[i]
  BY <1>15, <1>16, <1>17
<1> QED BY <1>18 DEF b

-----------------------------------------------------------------------------
(* The inductive invariant of the tree and its requests. *)

Plans == [op : {"create", "move", "remove"}, cat : Cats, to : Names, parent : Parents, level : [Cats -> Nat]]
AtPlan(c) == plan[c] # NoPlan
Creating(c) == plan[c].op = "create"
Moving(c) == plan[c].op = "move"
MovedAlone == ~ \E pair \in raced : "move" \in pair

TreeTyped ==
  /\ alive \subseteq Cats /\ stocked \subseteq alive /\ closure \subseteq alive \X alive
  /\ parent \in Parents /\ level \in [Cats -> Nat]
  /\ plan \in [Planners -> {NoPlan} \cup Plans]

\* Requests that are in progress together have been seen together.
PairsKnown == \A c, d \in Planners : c # d /\ AtPlan(c) /\ AtPlan(d) => {plan[c].op, plan[d].op} \in raced

\* An id that was never used has level 0 and no parent, in every snapshot too;
\* only one request uses it.
BirthsFit ==
  /\ \A x \in alive : level[x] >= 1
  /\ \A x \in Cats : level[x] = 0 => /\ parent[x] = Root
                                     /\ \A c \in Planners : AtPlan(c) => plan[c].parent[x] = Root
  /\ \A c \in Planners : AtPlan(c) =>
       /\ Creating(c) <=> level[plan[c].cat] = 0
       /\ plan[c].to = Root \/ level[plan[c].to] >= 1
       /\ Creating(c) => \A d \in Planners \ {c} : AtPlan(d) => plan[d].cat # plan[c].cat

\* Unless two moves overlapped: the parents are a forest, the closure table
\* follows them, and a move in progress goes nowhere below its own category.
Grown ==
  /\ \E deep \in [Cats -> Nat] : Hangs(alive, parent, deep)
  /\ Follows(closure, alive, parent)
  /\ \A c \in Planners : Moving(c) => plan[c].to # plan[c].cat /\ << plan[c].cat, plan[c].to >> \notin closure

\* Unless a move overlapped anything: the levels are the depths, and what a
\* request needs of its snapshot has not changed.
Levelled ==
  /\ Hangs(alive, parent, level)
  /\ \A c \in Planners : Creating(c) /\ plan[c].to # Root => plan[c].level[plan[c].to] = level[plan[c].to]
  /\ \A c \in Planners : Moving(c) => plan[c].parent = parent /\ plan[c].level = level

TreeInv ==
  /\ TreeTyped /\ PairsKnown /\ BirthsFit
  /\ {"move"} \notin raced => Grown
  /\ MovedAlone => Levelled

\* Where no move overlapped anything, no two moves overlapped.
LEMMA AloneIs == MovedAlone => {"move"} \notin raced
BY DEF MovedAlone

LEMMA AtPlanIs ==
  ASSUME TreeTyped, NEW c \in Planners
  PROVE  /\ AtPlan(c) => plan[c] \in Plans
         /\ Creating(c) \/ Moving(c) \/ plan[c].op = "remove" => AtPlan(c)
BY DEF TreeTyped, AtPlan, NoPlan, Creating, Moving

LEMMA PlanFields ==
  ASSUME TreeTyped, NEW c \in Planners, AtPlan(c)
  PROVE  /\ plan[c].cat \in Cats /\ plan[c].to \in Names /\ plan[c].parent \in Parents
         /\ plan[c].level \in [Cats -> Nat]
BY AtPlanIs DEF Plans

\* What every step does to the pairs.
LEMMA PairsStay ==
  ASSUME raced' = raced \cup AtWork'
  PROVE  PairsKnown' /\ ({"move"} \notin raced' => {"move"} \notin raced) /\ (MovedAlone' => MovedAlone)
<1>1. ASSUME NEW c \in Planners, NEW d \in Planners, c # d, AtPlan(c)', AtPlan(d)'
      PROVE  {plan'[c].op, plan'[d].op} \in raced'
  <2>1. c \in { x \in Planners : plan'[x] # NoPlan } /\ d \in { x \in Planners \ {c} : plan'[x] # NoPlan }
    BY <1>1 DEF AtPlan
  <2>2. {plan'[c].op, plan'[d].op} \in
           { {plan'[c].op, plan'[e].op} : e \in { x \in Planners \ {c} : plan'[x] # NoPlan } }
    BY <2>1
  <2>3. {plan'[c].op, plan'[d].op} \in AtWork'
    BY <2>1, <2>2 DEF AtWork
  <2> QED BY <2>3
<1>2. PairsKnown'
  BY <1>1 DEF PairsKnown
<1> QED BY <1>2 DEF MovedAlone

\* Beside a move nothing is in progress, or no other move, as long as it is said.
LEMMA MovesAlone ==
  ASSUME PairsKnown, NEW c \in Planners, NEW d \in Planners \ {c}, AtPlan(c), Moving(c), AtPlan(d)
  PROVE  ~MovedAlone /\ (Moving(d) => {"move"} \in raced)
<1>1. {plan[c].op, plan[d].op} \in raced
  BY DEF PairsKnown
<1> QED BY <1>1 DEF MovedAlone, Moving

-----------------------------------------------------------------------------
(* The steps. *)

LEMMA TreeStart == WatchedTreeInit => TreeInv
<1> SUFFICES ASSUME WatchedTreeInit PROVE TreeInv
  OBVIOUS
<1>1. PICK cats \in SUBSET Cats : \E p \in [Cats -> cats \cup {Root}] :
        /\ \A x \in Cats : Ascends(p, x, Root) /\ (x \notin cats => p[x] = Root)
        /\ alive = cats
        /\ parent = p
        /\ level = [x \in Cats |-> IF x \in cats THEN Depth(p, x, Root) ELSE 0]
        /\ closure = { pr \in cats \X cats : Ascends(p, pr[2], pr[1]) }
  BY DEF WatchedTreeInit, TreeInit
<1>2. PICK p \in [Cats -> cats \cup {Root}] :
        /\ \A x \in Cats : Ascends(p, x, Root) /\ (x \notin cats => p[x] = Root)
        /\ alive = cats
        /\ parent = p
        /\ level = [x \in Cats |-> IF x \in cats THEN Depth(p, x, Root) ELSE 0]
        /\ closure = { pr \in cats \X cats : Ascends(p, pr[2], pr[1]) }
  BY <1>1
<1>3. stocked = {} /\ plan = [c \in Planners |-> NoPlan] /\ raced = {}
  BY DEF WatchedTreeInit, TreeInit
<1>4. p \in Parents /\ cats \subseteq Cats
  BY DEF Parents, Names
<1>5. level \in [Cats -> Nat]
  <2>1. ASSUME NEW x \in Cats PROVE Depth(p, x, Root) \in Nat
    BY <1>2, <1>4, DepthIsLeast, MostIsNat
  <2> QED BY <1>2, <2>1
<1>6. Hangs(alive, parent, level)
  <2>1. \A x \in cats : level[x] = Depth(p, x, Root)
    BY <1>2, <1>4
  <2> QED BY <1>2, <1>4, <1>5, <2>1, RootedHangs
<1>7. Follows(closure, alive, parent)
  BY <1>2, <1>6, AscentFollows
<1>8. \A c \in Planners : ~AtPlan(c) /\ ~Moving(c) /\ ~Creating(c)
  BY <1>3 DEF AtPlan, Moving, Creating, NoPlan
<1>9. TreeTyped
  BY <1>2, <1>3, <1>4, <1>5 DEF TreeTyped
<1>10. BirthsFit
  <2>1. \A x \in alive : level[x] >= 1
    BY <1>6, HangsDown
  <2>2. \A x \in Cats : level[x] = 0 => parent[x] = Root
    <3> SUFFICES ASSUME NEW x \in Cats, level[x] = 0 PROVE parent[x] = Root
      OBVIOUS
    <3>1. x \notin alive
      BY <2>1
    <3> QED BY <1>2, <3>1
  <2> QED BY <1>8, <2>1, <2>2 DEF BirthsFit
<1>11. PairsKnown
  BY <1>8 DEF PairsKnown
<1>12. Grown /\ Levelled
  BY <1>5, <1>6, <1>7, <1>8 DEF Grown, Levelled
<1> QED BY <1>9, <1>10, <1>11, <1>12 DEF TreeInv

LEMMA BeginKeeps ==
  ASSUME TreeInv, raced' = raced \cup AtWork', NEW c \in Planners, NEW op \in {"create", "move", "remove"},
         NEW x \in Cats, NEW p \in Names, Begins(c, op, x, p),
         op = "create" <=> level[x] = 0,
         p = Root \/ p \in alive,
         op = "create" => \A d \in Planners : AtPlan(d) => plan[d].cat # x,
         op = "move" => p # x /\ << x, p >> \notin closure
  PROVE  TreeInv'
<1> DEFINE new == [op |-> op, cat |-> x, to |-> p, parent |-> parent, level |-> level]
<1>1. /\ plan' = [plan EXCEPT ![c] = new] /\ plan[c] = NoPlan
      /\ alive' = alive /\ parent' = parent /\ level' = level /\ closure' = closure /\ stocked' = stocked
  BY DEF Begins
<1>2. TreeTyped /\ BirthsFit
  BY DEF TreeInv
<1>3. new \in Plans /\ new # NoPlan /\ new.op = op /\ new.cat = x /\ new.to = p /\ new.parent = parent /\ new.level = level
  <2>1. new \in Plans
    BY <1>2 DEF TreeTyped, Plans
  <2> QED BY <2>1 DEF NoPlan
<1> HIDE DEF new
<1>4. plan'[c] = new /\ \A d \in Planners \ {c} : plan'[d] = plan[d]
  BY <1>1, <1>2 DEF TreeTyped
<1>5. TreeTyped'
  BY <1>1, <1>2, <1>3 DEF TreeTyped
<1>6. BirthsFit'
  <2>1. \A y \in alive' : level'[y] >= 1
    BY <1>1, <1>2 DEF BirthsFit
  <2>2. ASSUME NEW y \in Cats, level'[y] = 0
        PROVE  parent'[y] = Root /\ \A d \in Planners : AtPlan(d)' => plan'[d].parent[y] = Root
    <3>1. parent[y] = Root /\ \A d \in Planners : AtPlan(d) => plan[d].parent[y] = Root
      BY <1>1, <1>2, <2>2 DEF BirthsFit
    <3> QED BY <1>1, <1>3, <1>4, <3>1 DEF AtPlan
  <2>3. ASSUME NEW d \in Planners, AtPlan(d)'
        PROVE  /\ Creating(d)' <=> level'[plan'[d].cat] = 0
               /\ plan'[d].to = Root \/ level'[plan'[d].to] >= 1
               /\ Creating(d)' => \A e \in Planners \ {d} : AtPlan(e)' => plan'[e].cat # plan'[d].cat
    <3>1. CASE d = c
      <4>1. Creating(d)' <=> level'[plan'[d].cat] = 0
        BY <1>1, <1>3, <1>4, <3>1 DEF Creating
      <4>2. plan'[d].to = Root \/ level'[plan'[d].to] >= 1
        BY <1>1, <1>2, <1>3, <1>4, <3>1 DEF BirthsFit
      <4>3. ASSUME Creating(d)', NEW e \in Planners \ {d}, AtPlan(e)' PROVE plan'[e].cat # plan'[d].cat
        BY <1>3, <1>4, <3>1, <4>3 DEF Creating, AtPlan
      <4> QED BY <4>1, <4>2, <4>3
    <3>2. CASE d # c
      <4>1. plan'[d] = plan[d] /\ AtPlan(d)
        BY <1>4, <2>3, <3>2 DEF AtPlan
      <4>2. /\ Creating(d) <=> level[plan[d].cat] = 0
            /\ plan[d].to = Root \/ level[plan[d].to] >= 1
            /\ Creating(d) => \A e \in Planners \ {d} : AtPlan(e) => plan[e].cat # plan[d].cat
        BY <1>2, <4>1 DEF BirthsFit
      <4>3. ASSUME Creating(d)', NEW e \in Planners \ {d}, AtPlan(e)' PROVE plan'[e].cat # plan'[d].cat
        <5>1. Creating(d) /\ level[plan[d].cat] = 0
          BY <4>1, <4>2, <4>3 DEF Creating
        <5>2. CASE e = c
          BY <1>3, <1>4, <4>1, <5>1, <5>2
        <5>3. CASE e # c
          BY <1>4, <4>1, <4>2, <4>3, <5>1, <5>3 DEF AtPlan
        <5> QED BY <5>2, <5>3
      <4> QED BY <1>1, <4>1, <4>2, <4>3 DEF Creating
    <3> QED BY <3>1, <3>2
  <2> QED BY <2>1, <2>2, <2>3 DEF BirthsFit
<1>7. ASSUME Grown PROVE Grown'
  <2>1. \A d \in Planners : Moving(d)' => plan'[d].to # plan'[d].cat /\ << plan'[d].cat, plan'[d].to >> \notin closure
    BY <1>3, <1>4, <1>7 DEF Grown, Moving
  <2>2. (\E deep \in [Cats -> Nat] : Hangs(alive', parent', deep)) /\ Follows(closure', alive', parent')
    BY <1>1, <1>7 DEF Grown
  <2> QED BY <1>1, <2>1, <2>2 DEF Grown
<1>8. ASSUME Levelled PROVE Levelled'
  <2>1. \A d \in Planners : Creating(d)' /\ plan'[d].to # Root => plan'[d].level[plan'[d].to] = level[plan'[d].to]
    BY <1>3, <1>4, <1>8 DEF Levelled, Creating
  <2>2. \A d \in Planners : Moving(d)' => plan'[d].parent = parent /\ plan'[d].level = level
    BY <1>3, <1>4, <1>8 DEF Levelled, Moving
  <2>3. Hangs(alive', parent', level')
    BY <1>1, <1>8 DEF Levelled
  <2> QED BY <1>1, <2>1, <2>2, <2>3 DEF Levelled
<1> QED BY <1>5, <1>6, <1>7, <1>8, PairsStay DEF TreeInv

\* A request ends that writes only categories and levels which are not someone
\* else's to create, and keeps what others read of their snapshot.
LEMMA EndKeepsBirths ==
  ASSUME TreeInv, NEW c \in Planners, AtPlan(c), plan' = [plan EXCEPT ![c] = NoPlan],
         alive' \subseteq Cats, \A y \in alive' : level'[y] >= 1,
         level' \in [Cats -> Nat],
         \A y \in Cats : level'[y] = 0 => level[y] = 0 /\ parent'[y] = parent[y],
         \A y \in Cats : level[y] = 0 /\ y # plan[c].cat => level'[y] = 0,
         Creating(c) \/ (\A y \in Cats : level[y] = 0 => level'[y] = 0)
  PROVE  BirthsFit'
<1>0. TreeTyped /\ BirthsFit
  BY DEF TreeInv
<1>1. plan'[c] = NoPlan /\ \A d \in Planners \ {c} : plan'[d] = plan[d]
  BY <1>0 DEF TreeTyped
<1>2. \A d \in Planners : AtPlan(d)' => d # c /\ AtPlan(d) /\ plan'[d] = plan[d]
  BY <1>1 DEF AtPlan
<1>3. ASSUME NEW y \in Cats, level'[y] = 0
      PROVE  parent'[y] = Root /\ \A d \in Planners : AtPlan(d)' => plan'[d].parent[y] = Root
  BY <1>0, <1>2, <1>3 DEF BirthsFit
<1>4. ASSUME NEW d \in Planners, AtPlan(d)'
      PROVE  /\ Creating(d)' <=> level'[plan'[d].cat] = 0
             /\ plan'[d].to = Root \/ level'[plan'[d].to] >= 1
             /\ Creating(d)' => \A e \in Planners \ {d} : AtPlan(e)' => plan'[e].cat # plan'[d].cat
  <2>1. d # c /\ AtPlan(d) /\ plan'[d] = plan[d] /\ plan[d].cat \in Cats /\ plan[d].to \in Names
    BY <1>0, <1>2, <1>4, PlanFields
  <2>2. /\ Creating(d) <=> level[plan[d].cat] = 0
        /\ plan[d].to = Root \/ level[plan[d].to] >= 1
        /\ Creating(d) => \A e \in Planners \ {d} : AtPlan(e) => plan[e].cat # plan[d].cat
    BY <1>0, <2>1 DEF BirthsFit
  <2>3. level[plan[d].cat] = 0 <=> level'[plan[d].cat] = 0
    <3>1. CASE level[plan[d].cat] = 0 /\ Creating(c)
      <4>1. Creating(d) /\ plan[c].cat # plan[d].cat
        BY <2>1, <2>2, <3>1
      <4> QED BY <2>1, <3>1, <4>1
    <3>2. CASE level[plan[d].cat] = 0 /\ ~Creating(c)
      BY <2>1, <3>2
    <3>3. CASE level[plan[d].cat] # 0
      BY <2>1, <3>3
    <3> QED BY <3>1, <3>2, <3>3
  <2>4. plan[d].to = Root \/ level'[plan[d].to] >= 1
    <3> SUFFICES ASSUME plan[d].to # Root PROVE level'[plan[d].to] >= 1
      OBVIOUS
    <3>1. plan[d].to \in Cats
      BY <2>1 DEF Names
    <3>2. level[plan[d].to] # 0
      BY <2>2
    <3>3. level'[plan[d].to] # 0 /\ level'[plan[d].to] \in Nat
      BY <3>1, <3>2
    <3> QED BY <3>3
  <2>5. Creating(d)' => \A e \in Planners \ {d} : AtPlan(e)' => plan'[e].cat # plan'[d].cat
    BY <1>2, <2>1, <2>2 DEF Creating
  <2> QED BY <2>1, <2>2, <2>3, <2>4, <2>5 DEF Creating
<1> QED BY <1>3, <1>4 DEF BirthsFit

LEMMA EndKeepsPlans ==
  ASSUME TreeTyped, NEW c \in Planners, plan' = [plan EXCEPT ![c] = NoPlan]
  PROVE  /\ plan' \in [Planners -> {NoPlan} \cup Plans]
         /\ \A d \in Planners : AtPlan(d)' \/ Moving(d)' \/ Creating(d)' =>
              d # c /\ AtPlan(d) /\ plan'[d] = plan[d] /\ (Moving(d)' <=> Moving(d)) /\ (Creating(d)' <=> Creating(d))
BY AtPlanIs DEF TreeTyped, AtPlan, Moving, Creating, NoPlan

LEMMA InsertKeeps ==
  ASSUME TreeInv, raced' = raced \cup AtWork', NEW c \in Planners, InsertsCategory(c)
  PROVE  TreeInv'
<1> DEFINE x == plan[c].cat
           p == plan[c].to
<1>1. /\ Creating(c) /\ p \in alive \cup {Root}
      /\ alive' = alive \cup {x}
      /\ parent' = [parent EXCEPT ![x] = p]
      /\ level' = [level EXCEPT ![x] = LevelOf(plan[c].level, p) + 1]
      /\ closure' = closure \cup { << a, x >> : a \in OverTo(closure, p) \cup {x} }
      /\ plan' = [plan EXCEPT ![c] = NoPlan]
      /\ stocked' = stocked
  BY DEF InsertsCategory, Creating, Above, OverTo, Over, Ancestors
<1>2. TreeTyped /\ BirthsFit /\ AtPlan(c)
  BY <1>1, AtPlanIs DEF TreeInv
<1>3. x \in Cats /\ p \in Names /\ plan[c].level \in [Cats -> Nat] /\ level[x] = 0 /\ x \notin alive /\ p # x
  <2>1. x \in Cats /\ p \in Names /\ plan[c].level \in [Cats -> Nat]
    BY <1>2, PlanFields
  <2>2. level[x] = 0
    BY <1>1, <1>2 DEF BirthsFit
  <2>3. x \notin alive
    BY <1>2, <2>2 DEF BirthsFit
  <2> QED BY <1>1, <2>1, <2>2, <2>3, CategoriesAssumption
<1>4. LevelOf(plan[c].level, p) \in Nat
  BY <1>3 DEF LevelOf, Names
<1> HIDE DEF x, p
<1> DEFINE h == LevelOf(plan[c].level, p) + 1
<1>5. h \in Nat /\ h >= 1 /\ level' = [level EXCEPT ![x] = h]
  BY <1>1, <1>4
<1> HIDE DEF h
<1>6. level' \in [Cats -> Nat] /\ level'[x] = h /\ \A y \in Cats \ {x} : level'[y] = level[y]
  BY <1>2, <1>3, <1>5 DEF TreeTyped
<1>7. TreeTyped'
  <2>1. OverTo(closure, p) \subseteq alive
    BY <1>2 DEF OverTo, Over, TreeTyped
  <2>2. closure' \subseteq alive' \X alive'
    BY <1>1, <1>2, <2>1 DEF TreeTyped
  <2>3. parent' \in Parents
    BY <1>1, <1>2, <1>3 DEF TreeTyped, Parents
  <2> QED BY <1>1, <1>2, <1>3, <1>6, <2>2, <2>3, EndKeepsPlans DEF TreeTyped
<1>8. BirthsFit'
  <2>1. \A y \in alive' : level'[y] >= 1
    BY <1>1, <1>2, <1>5, <1>6 DEF BirthsFit, TreeTyped
  <2>2. \A y \in Cats : level'[y] = 0 => level[y] = 0 /\ parent'[y] = parent[y]
    BY <1>1, <1>2, <1>5, <1>6 DEF TreeTyped, Parents
  <2>3. \A y \in Cats : level[y] = 0 /\ y # x => level'[y] = 0
    BY <1>6
  <2> QED BY <1>1, <1>2, <1>6, <1>7, <2>1, <2>2, <2>3, EndKeepsBirths DEF x, TreeTyped
<1>9. ASSUME NEW d \in Planners, d # c, AtPlan(d) PROVE plan[d].to # x
  BY <1>2, <1>3, <1>9, CategoriesAssumption DEF BirthsFit
<1>10. ASSUME Grown PROVE Grown'
  <2>1. PICK deep \in [Cats -> Nat] : Hangs(alive, parent, deep)
    BY <1>10 DEF Grown
  <2> DEFINE lev == [deep EXCEPT ![x] = DeepTo(deep, p) + 1]
  <2>2. DeepTo(deep, p) \in Nat
    BY <1>3 DEF DeepTo, Names
  <2>3. lev \in [Cats -> Nat] /\ lev[x] = DeepTo(deep, p) + 1 /\ \A y \in alive : lev[y] = deep[y]
    BY <1>2, <1>3, <2>2 DEF TreeTyped
  <2> HIDE DEF lev
  <2>4. Follows(closure, alive, parent) /\ x \in Cats \ alive
    BY <1>3, <1>10 DEF Grown
  <2>5. Hangs(alive', parent', lev) /\ Follows(closure', alive', parent')
    BY <1>1, <2>1, <2>3, <2>4, InsertHangs
  <2>6. ASSUME NEW d \in Planners, Moving(d)'
        PROVE  plan'[d].to # plan'[d].cat /\ << plan'[d].cat, plan'[d].to >> \notin closure'
    <3>1. d # c /\ AtPlan(d) /\ plan'[d] = plan[d] /\ Moving(d)
      BY <1>1, <1>2, <2>6, EndKeepsPlans
    <3>2. plan[d].to # plan[d].cat /\ << plan[d].cat, plan[d].to >> \notin closure /\ plan[d].to # x
      BY <1>9, <1>10, <3>1 DEF Grown
    <3> QED BY <1>1, <3>1, <3>2
  <2> QED BY <2>3, <2>5, <2>6 DEF Grown
<1>11. ASSUME MovedAlone, Levelled, Grown PROVE Levelled'
  <2>1. h = DeepTo(level, p) + 1
    BY <1>1, <1>11 DEF Levelled, LevelOf, DeepTo, p, h
  <2>2. level'[x] = DeepTo(level, p) + 1 /\ \A y \in alive : level'[y] = level[y]
    BY <1>2, <1>3, <1>6, <2>1 DEF TreeTyped
  <2>3. Follows(closure, alive, parent) /\ x \in Cats \ alive /\ Hangs(alive, parent, level)
    BY <1>3, <1>11 DEF Grown, Levelled
  <2>4. Hangs(alive', parent', level')
    <3>1. p \in alive \cup {Root} /\ parent' = [parent EXCEPT ![x] = p] /\ level' \in [Cats -> Nat]
      BY <1>1, <1>6
    <3>2. Hangs(alive \cup {x}, parent', level')
      BY <2>2, <2>3, <3>1, InsertHangs
    <3> QED BY <1>1, <3>2
  <2>5. ASSUME NEW d \in Planners, Creating(d)', plan'[d].to # Root
        PROVE  plan'[d].level[plan'[d].to] = level'[plan'[d].to]
    <3>1. d # c /\ AtPlan(d) /\ plan'[d] = plan[d] /\ Creating(d)
      BY <1>1, <1>2, <2>5, EndKeepsPlans
    <3>2. plan[d].level[plan[d].to] = level[plan[d].to] /\ plan[d].to # x /\ plan[d].to \in Cats
      BY <1>2, <1>9, <1>11, <2>5, <3>1, PlanFields DEF Levelled, Names
    <3> QED BY <1>6, <3>1, <3>2
  <2>6. ASSUME NEW d \in Planners, Moving(d)' PROVE FALSE
    <3>1. d # c /\ AtPlan(d) /\ Moving(d)
      BY <1>1, <1>2, <2>6, EndKeepsPlans
    <3>2. PairsKnown
      BY DEF TreeInv
    <3> QED BY <1>2, <1>11, <3>1, <3>2, MovesAlone
  <2> QED BY <2>4, <2>5, <2>6 DEF Levelled
<1> QED BY <1>7, <1>8, <1>10, <1>11, PairsStay, AloneIs DEF TreeInv

\* Who has no parent is under nobody else.
LEMMA OrphanStays ==
  ASSUME NEW par \in Parents, NEW d \in Cats, par[d] = Root, NEW x \in Cats, d # x
  PROVE  ~Ascends(par, d, x)
<1> DEFINE one == [y \in Cats |-> 1]
<1>1. Hangs({d}, par, one)
  BY DEF Hangs
<1>2. one[d] = 1 /\ d \in Names /\ x # Root
  BY CategoriesAssumption DEF Names
<1> HIDE DEF one
<1> SUFFICES ASSUME NEW n \in 0 .. Most, Up(par)[n][d] = x PROVE FALSE
  BY DEF Ascends, Most
<1>3. CASE n = 0
  BY <1>2, <1>3, UpRule
<1>4. CASE n # 0
  <2>1. n >= one[d]
    BY <1>2, <1>4, MostIsNat
  <2> QED BY <1>1, <1>2, <2>1, WayUp
<1> QED BY <1>3, <1>4

\* The levels that a move writes: at least 1 where there was one, 0 where not.
LEMMA MovedLevels ==
  ASSUME TreeInv, NEW c \in Planners, AtPlan(c), NEW top \in Nat, top >= 1,
         NEW x \in Cats, level[x] # 0,
         NEW lev, lev = UpdateDescendantsLevel(c, x, top)
  PROVE  lev \in [Cats -> Nat] /\ \A d \in Cats : lev[d] = 0 <=> level[d] = 0
<1>0. TreeTyped /\ BirthsFit
  BY DEF TreeInv
<1>1. plan[c].parent \in Parents /\ level \in [Cats -> Nat]
  BY <1>0, PlanFields DEF TreeTyped
<1> DEFINE old == plan[c]
           was == old.parent
<1> HIDE DEF was
<1>2. lev = [d \in Cats |->
                IF ~Ascends(was, d, x) THEN level[d]
                ELSE IF top + Depth(was, d, x) = old.level[d] THEN level[d]
                     ELSE top + Depth(was, d, x)]
  BY DEF UpdateDescendantsLevel, was
<1>3. ASSUME NEW d \in Cats, Ascends(was, d, x)
      PROVE  top + Depth(was, d, x) \in Nat /\ top + Depth(was, d, x) >= 1 /\ level[d] # 0
  <2>1. Depth(was, d, x) \in Nat
    BY <1>1, <1>3, DepthIsLeast, MostIsNat DEF was
  <2>2. ASSUME level[d] = 0 PROVE FALSE
    <3>1. was[d] = Root /\ d # x
      BY <1>0, <2>2 DEF BirthsFit, was
    <3> QED BY <1>1, <1>3, <3>1, OrphanStays DEF was
  <2> QED BY <2>1, <2>2
<1> HIDE DEF old
<1>4. ASSUME NEW d \in Cats PROVE lev[d] \in Nat /\ (lev[d] = 0 <=> level[d] = 0)
  BY <1>1, <1>2, <1>3
<1>5. lev = [d \in Cats |-> lev[d]]
  BY <1>2
<1> QED BY <1>4, <1>5

\* Depths may be exchanged for others that are the same where it matters.
LEMMA SameDepths ==
  ASSUME NEW cats, NEW par, NEW deep, Hangs(cats, par, deep),
         NEW other \in [Cats -> Nat], \A y \in cats : other[y] = deep[y]
  PROVE  Hangs(cats, par, other)
BY DEF Hangs

\* Where the snapshot is current, the levels that a move writes are the depths.
LEMMA MovedDepths ==
  ASSUME TreeInv, NEW c \in Planners, AtPlan(c), plan[c].parent = parent, plan[c].level = level,
         Hangs(alive, parent, level), Follows(closure, alive, parent),
         NEW x \in alive, NEW p \in alive \cup {Root},
         NEW lev, lev = UpdateDescendantsLevel(c, x, LevelOf(level, p) + 1)
  PROVE  \A d \in alive : lev[d] = Deepened(level, closure, x, p)[d]
<1>1. alive \subseteq Cats /\ level \in [Cats -> Nat] /\ x \in Cats
  BY DEF Hangs
<1>2. LevelOf(level, p) = DeepTo(level, p) /\ DeepTo(level, p) \in Nat
  BY <1>1 DEF LevelOf, DeepTo
<1> SUFFICES ASSUME NEW d \in alive PROVE lev[d] = Deepened(level, closure, x, p)[d]
  OBVIOUS
<1> DEFINE top == LevelOf(level, p) + 1
           new == top + Depth(parent, d, x)
<1>3. lev[d] = IF ~Ascends(parent, d, x) THEN level[d] ELSE IF new = level[d] THEN level[d] ELSE new
  BY <1>1 DEF UpdateDescendantsLevel
<1>4. Ascends(parent, d, x) <=> << x, d >> \in closure
  BY FollowsIsExact
<1>5. Deepened(level, closure, x, p)[d] =
        IF << x, d >> \in closure THEN (level[d] - level[x]) + DeepTo(level, p) + 1 ELSE level[d]
  BY <1>1 DEF Deepened
<1>6. CASE Ascends(parent, d, x)
  <2>1. Depth(parent, d, x) = level[d] - level[x] /\ level[d] \in Nat /\ level[x] \in Nat
    BY <1>1, <1>6, DepthIsDifference
  <2>2. new = (level[d] - level[x]) + DeepTo(level, p) + 1
    BY <1>2, <2>1
  <2> QED BY <1>3, <1>4, <1>5, <1>6, <2>2
<1>7. CASE ~Ascends(parent, d, x)
  BY <1>3, <1>4, <1>5, <1>7
<1> QED BY <1>6, <1>7

LEMMA MoveKeeps ==
  ASSUME TreeInv, raced' = raced \cup AtWork', NEW c \in Planners, WritesMove(c)
  PROVE  TreeInv'
<1> DEFINE x == plan[c].cat
           p == plan[c].to
           top == LevelOf(plan[c].level, p) + 1
<1>1. /\ Moving(c) /\ x \in alive /\ p \in alive \cup {Root}
      /\ parent' = [parent EXCEPT ![x] = p]
      /\ level' = UpdateDescendantsLevel(c, x, top)
      /\ closure' = Rehung(closure, x, p)
      /\ plan' = [plan EXCEPT ![c] = NoPlan]
      /\ alive' = alive /\ stocked' = stocked
  BY DEF WritesMove, Moving, Above, Rehung, OverTo, Over, Under, Ancestors, Descendants
<1>2. TreeTyped /\ BirthsFit /\ PairsKnown /\ AtPlan(c)
  BY <1>1, AtPlanIs DEF TreeInv
<1>3. x \in Cats /\ p \in Names /\ plan[c].level \in [Cats -> Nat] /\ level[x] # 0 /\ alive \subseteq Cats
  BY <1>1, <1>2, PlanFields DEF TreeTyped, BirthsFit
<1>4. top \in Nat /\ top >= 1
  BY <1>3 DEF LevelOf, Names
<1>5. level' \in [Cats -> Nat] /\ \A d \in Cats : level'[d] = 0 <=> level[d] = 0
  <2> HIDE DEF x, top
  <2> QED BY <1>1, <1>2, <1>3, <1>4, MovedLevels
<1> HIDE DEF x, p
<1>6. TreeTyped'
  <2>1. OverTo(closure, p) \subseteq alive /\ Under(closure, x) \subseteq alive
    BY <1>2 DEF OverTo, Over, Under, TreeTyped
  <2>2. closure' \subseteq alive' \X alive'
    BY <1>1, <1>2, <2>1 DEF TreeTyped, Rehung
  <2>3. parent' \in Parents
    BY <1>1, <1>2, <1>3 DEF TreeTyped, Parents
  <2> HIDE DEF top
  <2> QED BY <1>1, <1>2, <1>5, <2>2, <2>3, EndKeepsPlans DEF TreeTyped
<1>7. BirthsFit'
  <2> HIDE DEF top
  <2>1. \A y \in alive' : level'[y] >= 1
    <3> SUFFICES ASSUME NEW y \in alive PROVE level'[y] >= 1
      BY <1>1
    <3>1. y \in Cats /\ level[y] >= 1 /\ level'[y] \in Nat
      BY <1>2, <1>3, <1>5 DEF BirthsFit
    <3>2. level'[y] # 0
      BY <1>5, <3>1
    <3> QED BY <3>1, <3>2
  <2>2. \A y \in Cats : level'[y] = 0 => level[y] = 0 /\ parent'[y] = parent[y]
    BY <1>1, <1>2, <1>3, <1>5 DEF TreeTyped, Parents
  <2> QED BY <1>1, <1>2, <1>3, <1>5, <2>1, <2>2, EndKeepsBirths DEF x
<1>8. ASSUME {"move"} \notin raced, Grown PROVE Grown'
  <2> HIDE DEF top
  <2>1. PICK deep \in [Cats -> Nat] : Hangs(alive, parent, deep)
    BY <1>8 DEF Grown
  <2>2. p # x /\ << x, p >> \notin closure /\ Follows(closure, alive, parent)
    BY <1>1, <1>8 DEF Grown, x, p
  <2>3. Hangs(alive, parent', Deepened(deep, closure, x, p)) /\ Follows(closure', alive, parent')
    BY <1>1, <2>1, <2>2, MoveHangs
  <2>4. Deepened(deep, closure, x, p) \in [Cats -> Nat]
    BY <2>3 DEF Hangs
  <2>5. ASSUME NEW d \in Planners, Moving(d)' PROVE FALSE
    <3>1. d # c /\ AtPlan(d) /\ Moving(d)
      BY <1>1, <1>2, <2>5, EndKeepsPlans
    <3> QED BY <1>1, <1>2, <1>8, <3>1, MovesAlone
  <2> QED BY <1>1, <2>3, <2>4, <2>5 DEF Grown
<1>9. ASSUME MovedAlone, Levelled, Grown PROVE Levelled'
  <2>1. plan[c].parent = parent /\ plan[c].level = level /\ Hangs(alive, parent, level)
    BY <1>1, <1>9 DEF Levelled
  <2>2. p # x /\ << x, p >> \notin closure /\ Follows(closure, alive, parent)
    BY <1>1, <1>9 DEF Grown, x, p
  <2>3. level' = UpdateDescendantsLevel(c, x, LevelOf(level, p) + 1)
    BY <1>1, <2>1
  <2> HIDE DEF top
  <2>4. \A d \in alive : level'[d] = Deepened(level, closure, x, p)[d]
    BY <1>1, <1>2, <2>1, <2>2, <2>3, MovedDepths
  <2>5. Hangs(alive, parent', Deepened(level, closure, x, p))
    BY <1>1, <2>1, <2>2, MoveHangs
  <2>6. Hangs(alive', parent', level')
    BY <1>1, <1>5, <2>4, <2>5, SameDepths
  <2>7. ASSUME NEW d \in Planners, Moving(d)' \/ Creating(d)' PROVE FALSE
    <3>1. d # c /\ AtPlan(d)
      BY <1>1, <1>2, <2>7, EndKeepsPlans
    <3> QED BY <1>1, <1>2, <1>9, <3>1, MovesAlone
  <2> QED BY <2>6, <2>7 DEF Levelled
<1> QED BY <1>6, <1>7, <1>8, <1>9, PairsStay, AloneIs DEF TreeInv

\* A branch goes; the other rows keep their parents and levels.
LEMMA DeleteKeeps ==
  ASSUME TreeInv, raced' = raced \cup AtWork', NEW c \in Planners, DeletesCategory(c)
  PROVE  TreeInv'
<1> DEFINE x == plan[c].cat
           lost == { d \in alive : Ascends(parent, d, x) }
<1>1. /\ plan[c].op = "remove" /\ x \in alive
      /\ alive' = alive \ lost
      /\ closure' = { pr \in closure : pr[1] \notin lost /\ pr[2] \notin lost }
      /\ stocked' = stocked \ lost
      /\ plan' = [plan EXCEPT ![c] = NoPlan]
      /\ parent' = parent /\ level' = level
  BY DEF DeletesCategory
<1>2. TreeTyped /\ BirthsFit /\ AtPlan(c) /\ lost \subseteq alive
  BY <1>1, AtPlanIs DEF TreeInv
<1>3. TreeTyped'
  <2> HIDE DEF lost
  <2>1. closure' \subseteq alive' \X alive'
    BY <1>1, <1>2 DEF TreeTyped
  <2> QED BY <1>1, <1>2, <2>1, EndKeepsPlans DEF TreeTyped
<1>4. BirthsFit'
  <2> HIDE DEF lost
  <2>1. \A y \in alive' : level'[y] >= 1
    BY <1>1, <1>2 DEF BirthsFit
  <2> QED BY <1>1, <1>2, <2>1, EndKeepsBirths DEF TreeTyped
<1>5. ASSUME Grown PROVE Grown'
  <2>1. PICK deep \in [Cats -> Nat] : Hangs(alive, parent, deep)
    BY <1>5 DEF Grown
  <2>2. Follows(closure, alive, parent)
    BY <1>5 DEF Grown
  <2>3. Hangs(alive', parent', deep) /\ Follows(closure', alive', parent')
    <3> HIDE DEF x
    <3>1. Hangs(alive \ lost, parent, deep)
          /\ Follows({ pr \in closure : pr[1] \notin lost /\ pr[2] \notin lost }, alive \ lost, parent)
      BY <1>1, <2>1, <2>2, DeleteHangs
    <3> HIDE DEF lost
    <3> QED BY <1>1, <3>1
  <2> HIDE DEF lost
  <2>4. ASSUME NEW d \in Planners, Moving(d)'
        PROVE  plan'[d].to # plan'[d].cat /\ << plan'[d].cat, plan'[d].to >> \notin closure'
    BY <1>1, <1>2, <1>5, <2>4, EndKeepsPlans DEF Grown
  <2> QED BY <2>3, <2>4 DEF Grown
<1>6. ASSUME Levelled, Grown PROVE Levelled'
  <2>1. Hangs(alive, parent, level) /\ Follows(closure, alive, parent)
    BY <1>6 DEF Levelled, Grown
  <2>2. Hangs(alive', parent', level')
    <3> HIDE DEF x
    <3>1. Hangs(alive \ lost, parent, level)
      BY <1>1, <2>1, DeleteHangs
    <3> HIDE DEF lost
    <3> QED BY <1>1, <3>1
  <2> HIDE DEF lost
  <2>3. \A d \in Planners : Creating(d)' /\ plan'[d].to # Root => plan'[d].level[plan'[d].to] = level'[plan'[d].to]
    BY <1>1, <1>2, <1>6, EndKeepsPlans DEF Levelled
  <2>4. \A d \in Planners : Moving(d)' => plan'[d].parent = parent' /\ plan'[d].level = level'
    BY <1>1, <1>2, <1>6, EndKeepsPlans DEF Levelled
  <2> QED BY <2>2, <2>3, <2>4 DEF Levelled
<1> QED BY <1>3, <1>4, <1>5, <1>6, PairsStay, AloneIs DEF TreeInv

LEMMA RollBackKeeps ==
  ASSUME TreeInv, raced' = raced \cup AtWork', NEW c \in Planners, RollsBack(c)
  PROVE  TreeInv'
<1>1. /\ AtPlan(c) /\ plan' = [plan EXCEPT ![c] = NoPlan]
      /\ alive' = alive /\ parent' = parent /\ level' = level /\ closure' = closure /\ stocked' = stocked
  BY DEF RollsBack, AtPlan
<1>2. TreeTyped /\ BirthsFit
  BY DEF TreeInv
<1>3. TreeTyped'
  BY <1>1, <1>2, EndKeepsPlans DEF TreeTyped
<1>4. BirthsFit'
  <2>1. \A y \in alive' : level'[y] >= 1
    BY <1>1, <1>2 DEF BirthsFit
  <2> QED BY <1>1, <1>2, <2>1, EndKeepsBirths DEF TreeTyped
<1>5. ASSUME Grown PROVE Grown'
  <2>1. (\E deep \in [Cats -> Nat] : Hangs(alive', parent', deep)) /\ Follows(closure', alive', parent')
    BY <1>1, <1>5 DEF Grown
  <2>2. ASSUME NEW d \in Planners, Moving(d)'
        PROVE  plan'[d].to # plan'[d].cat /\ << plan'[d].cat, plan'[d].to >> \notin closure'
    BY <1>1, <1>2, <1>5, <2>2, EndKeepsPlans DEF Grown
  <2> QED BY <2>1, <2>2 DEF Grown
<1>6. ASSUME Levelled PROVE Levelled'
  <2>1. Hangs(alive', parent', level')
    BY <1>1, <1>6 DEF Levelled
  <2>2. \A d \in Planners : Creating(d)' /\ plan'[d].to # Root => plan'[d].level[plan'[d].to] = level'[plan'[d].to]
    BY <1>1, <1>2, <1>6, EndKeepsPlans DEF Levelled
  <2>3. \A d \in Planners : Moving(d)' => plan'[d].parent = parent' /\ plan'[d].level = level'
    BY <1>1, <1>2, <1>6, EndKeepsPlans DEF Levelled
  <2> QED BY <2>1, <2>2, <2>3 DEF Levelled
<1> QED BY <1>3, <1>4, <1>5, <1>6, PairsStay DEF TreeInv

\* Neither a product that is filed nor a stuttering step touches the tree.
LEMMA TreeStays ==
  ASSUME TreeInv, UNCHANGED << alive, parent, level, closure, plan >>,
         stocked' \subseteq alive, PairsKnown', {"move"} \notin raced' => {"move"} \notin raced, MovedAlone' => MovedAlone
  PROVE  TreeInv'
<1>1. TreeTyped'
  BY DEF TreeInv, TreeTyped
<1>2. BirthsFit'
  BY DEF TreeInv, BirthsFit, AtPlan, Creating
<1>3. ASSUME Grown PROVE Grown'
  BY <1>3 DEF Grown, Moving
<1>4. ASSUME Levelled PROVE Levelled'
  BY <1>4 DEF Levelled, Creating, Moving
<1> QED BY <1>1, <1>2, <1>3, <1>4 DEF TreeInv

LEMMA PlanningKeeps ==
  ASSUME TreeInv, raced' = raced \cup AtWork', NEW c \in Planners, PlansTree(c)
  PROVE  TreeInv'
<1>0. TreeTyped /\ BirthsFit
  BY DEF TreeInv
<1>1. ASSUME NEW x \in Cats, NEW p \in Cats \cup {Root}, CreateCategoryIn(c, x, p) PROVE TreeInv'
  <2>1. /\ Begins(c, "create", x, p) /\ level[x] = 0 /\ (p = Root \/ p \in alive) /\ p \in Names
        /\ \A d \in Planners : AtPlan(d) => plan[d].cat # x
    BY <1>1 DEF CreateCategoryIn, AtPlan, Names
  <2> QED BY <2>1, BeginKeeps
<1>2. ASSUME NEW x \in Cats, NEW p \in Cats \cup {Root}, MoveCategory(c, x, p) PROVE TreeInv'
  <2>1. Begins(c, "move", x, p) /\ x \in alive /\ (p = Root \/ p \in alive) /\ p \in Names /\ p # x
    BY <1>2 DEF MoveCategory, Names
  <2>2. << x, p >> \notin closure
    BY <1>0, <1>2 DEF MoveCategory, Descendants, TreeTyped
  <2>3. level[x] # 0
    BY <1>0, <2>1 DEF BirthsFit
  <2> QED BY <2>1, <2>2, <2>3, BeginKeeps
<1>3. ASSUME NEW x \in Cats, RemoveCategoryRow(c, x) PROVE TreeInv'
  <2>1. Begins(c, "remove", x, Root) /\ x \in alive /\ Root \in Names
    BY <1>3 DEF RemoveCategoryRow, Names
  <2>2. level[x] # 0
    BY <1>0, <2>1 DEF BirthsFit
  <2> QED BY <2>1, <2>2, BeginKeeps
<1> QED BY <1>1, <1>2, <1>3 DEF PlansTree

LEMMA TreeStep == TreeInv /\ [WatchedTreeNext]_<< treeVars, treeWatch >> => TreeInv'
<1> SUFFICES ASSUME TreeInv, [WatchedTreeNext]_<< treeVars, treeWatch >> PROVE TreeInv'
  OBVIOUS
<1>1. CASE UNCHANGED << treeVars, treeWatch >>
  <2>1. UNCHANGED << alive, parent, level, closure, plan, stocked, raced >>
    BY <1>1 DEF treeVars, treeWatch
  <2>2. PairsKnown' /\ stocked' \subseteq alive
    BY <2>1 DEF TreeInv, TreeTyped, PairsKnown, AtPlan
  <2>3. MovedAlone' => MovedAlone
    BY <2>1 DEF MovedAlone
  <2> QED BY <2>1, <2>2, <2>3, TreeStays
<1>2. CASE WatchedTreeNext
  <2>1. raced' = raced \cup AtWork'
    BY <1>2 DEF WatchedTreeNext
  <2>2. ASSUME NEW c \in Planners, PlansTree(c) PROVE TreeInv'
    BY <2>1, <2>2, PlanningKeeps
  <2>3. ASSUME NEW c \in Planners, WritesTree(c) PROVE TreeInv'
    BY <2>1, <2>3, InsertKeeps, MoveKeeps, DeleteKeeps, RollBackKeeps DEF WritesTree
  <2>4. ASSUME NEW x \in Cats, FileProduct(x) PROVE TreeInv'
    <3>1. UNCHANGED << alive, parent, level, closure, plan >> /\ stocked' \subseteq alive
      BY <2>4 DEF FileProduct, TreeInv, TreeTyped
    <3> QED BY <2>1, <3>1, PairsStay, TreeStays
  <2> QED BY <1>2, <2>2, <2>3, <2>4 DEF WatchedTreeNext
<1> QED BY <1>1, <1>2

LEMMA TreeInvHolds == WatchedTreeSpec => []TreeInv
BY TreeStart, TreeStep, PTL DEF WatchedTreeSpec

\* Rows, pairs and plans of the categories have their kinds, whatever requests
\* overlap: the closure table only ever pairs categories that exist, and products
\* are only in such (category.service.ts).
THEOREM TreeTyping == WatchedTreeSpec => []TreeTypeOK
<1>1. TreeInv => TreeTypeOK
  BY DEF TreeInv, TreeTyped, TreeTypeOK, Parents, Names
<1> QED BY <1>1, TreeInvHolds, PTL

\* For any set of categories and any number of requests in progress: until two
\* moves have overlapped, the closure table that creations, moves and removals
\* maintain is the closure of the parents, the one the importer builds too; until
\* a move has overlapped anything, levels are depths and the breadcrumb is the way
\* down from the root (category.service.ts, catalog-import.service.ts).
THEOREM TreeKept == WatchedTreeSpec => []TreeSound
<1>1. TreeInv => TreeSound
  <2> SUFFICES ASSUME TreeInv PROVE TreeSound
    OBVIOUS
  <2>1. ASSUME {"move"} \notin raced PROVE ClosureExact
    <3>1. Grown
      BY <2>1 DEF TreeInv
    <3>2. PICK deep \in [Cats -> Nat] : Hangs(alive, parent, deep)
      BY <3>1 DEF Grown
    <3>3. Follows(closure, alive, parent)
      BY <3>1 DEF Grown
    <3> QED BY <3>2, <3>3, FollowsIsExact, RebuildIsExact DEF ClosureExact
  <2>2. ASSUME MovedAlone PROVE LevelsExact /\ BreadcrumbIsPath
    <3>1. Hangs(alive, parent, level) /\ Follows(closure, alive, parent)
      BY <2>2, AloneIs DEF TreeInv, Grown, Levelled
    <3>2. LevelsExact
      <4> SUFFICES ASSUME NEW x \in alive
                   PROVE  parent[x] \in alive \cup {Root} /\ level[x] = LevelOf(level, parent[x]) + 1
        BY DEF LevelsExact
      <4> QED BY <3>1 DEF Hangs, LevelOf
    <3>3. BreadcrumbIsPath
      BY <3>1, CrumbsLead DEF BreadcrumbIsPath
    <3> QED BY <3>2, <3>3
  <2> QED BY <2>1, <2>2 DEF TreeSound, MovedAlone
<1> QED BY <1>1, TreeInvHolds, PTL

-----------------------------------------------------------------------------
\* The home page, the collections and their Redis keys.

Fields == {"op", "todo", "key", "held", "rest", "slug", "edit"}
Rows == [edits : SUBSET (1 .. MaxEdits), slug : Slugs \cup {NoSlug}]
IsCopy(f) == DOMAIN f \subseteq Elements /\ \A e \in DOMAIN f : f[e] \in Rows
Engaged(c) == desk[c] # Free
Steps(todo) == { todo[i] : i \in DOMAIN todo }

\* What a request may still have to do.
Reads == { << "get", "select", "set" >>, << "select", "set" >>, << "set" >>,
           << "get", "select" >>, << "select" >> }
Creations == { << "save", "clear_lists" >>, << "clear_lists" >> }
Updating == { << "get", "select", "set", "save", "clear" >>, << "select", "set", "save", "clear" >>,
             << "set", "save", "clear" >>, << "save", "clear" >>, << "clear" >>,
             << "select", "save", "clear" >> }
Sorting(clearing) == { << "select", "save", clearing >>, << "save", clearing >>, << clearing >> }
Removals == { << "get", "select", "set", "delete", "clear" >>, << "select", "set", "delete", "clear" >>,
              << "set", "delete", "clear" >>, << "delete", "clear" >>, << "clear" >> }
Movings == { << "get", "select", "set", "delete", "find_rest", "move_rest", "clear" >>,
             << "select", "set", "delete", "find_rest", "move_rest", "clear" >>,
             << "set", "delete", "find_rest", "move_rest", "clear" >>,
             << "delete", "find_rest", "move_rest", "clear" >>,
             << "find_rest", "move_rest", "clear" >>, << "move_rest", "clear" >>, << "clear" >> }
Unsettings == { << "select", "delete" >>, << "delete" >> }

Lasts(op, e, todo) ==
  \/ op = "read" /\ todo \in Reads
  \/ op = "create" /\ e # Setting /\ todo \in Creations
  \/ op = "update" /\ todo \in Updating
  \/ op = "sort" /\ e[1] = "promo" /\ todo \in Sorting("clear")
  \/ op = "sort" /\ e[1] \in {"hero", "section"} /\ todo \in Sorting("clear_lists")
  \/ op = "remove" /\ e[1] \in {"section", "collection"} /\ todo \in Removals
  \/ op = "remove" /\ e[1] \in {"hero", "side", "promo"} /\ todo \in Movings
  \/ op = "remove" /\ e = Setting /\ todo \in Unsettings

RequestTyped(request) ==
  /\ DOMAIN request = Fields
  /\ request.key \in Shelf /\ request.slug \in Slugs \cup {NoSlug}
  /\ request.op # "read" => request.edit \in 1 .. MaxEdits
  /\ request.held = Bare \/ IsCopy(request.held)
  /\ IsCopy(request.rest)

ShowTyped ==
  /\ DOMAIN rows = Elements /\ \A e \in Elements : rows[e] \in {Unborn, Gone} \cup Rows
  /\ DOMAIN shelf = Shelf /\ \A k \in Shelf : shelf[k] = Bare \/ IsCopy(shelf[k])
  /\ DOMAIN desk = Editors /\ edits \in 0 .. MaxEdits /\ on \in Kinds
  /\ \A c \in Editors : Engaged(c) => RequestTyped(desk[c])

\* The copy of a row has that row, the answer to an address some row.
FitsKey(k, copy) == /\ k[1] = "detail" => DOMAIN copy = {k[2]}
                    /\ k[1] = "slug" => DOMAIN copy # {}
Writing(c) == "save" \in Tasks(c) \/ "delete" \in Tasks(c)
Current(e, row) == \/ Exists(e) /\ row = rows[e]
                   \/ e = Setting /\ ~Exists(e) /\ row = Blank

\* What is so of a request on its way.
OnItsWay(c) ==
  /\ Lasts(desk[c].op, Element(c), desk[c].todo)
  /\ desk[c].op # "read" => desk[c].key = Detail(Element(c)) /\ Element(c) \in Of(on)
  /\ desk[c].held = Bare \/ FitsKey(desk[c].key, desk[c].held)
  /\ desk[c].op # "create" /\ "select" \notin Tasks(c) => desk[c].held # Bare
  /\ desk[c].op = "create" => desk[c].held = Bare
  /\ desk[c].op = "create" /\ "save" \in Tasks(c) => rows[Element(c)] = Unborn
  /\ DOMAIN desk[c].rest \subseteq Of(on) \ {Element(c)}
  /\ "move_rest" \notin Tasks(c) => DOMAIN desk[c].rest = {}

\* What it holds is so, unless it was overtaken.
HoldsFresh(c) == \A k \in Shelf \ unswept :
  desk[c].key = k /\ "set" \in Tasks(c) /\ desk[c].held # Bare => desk[c].held = Query(k)
HoldsCurrent(c) == c \notin late =>
  /\ Writing(c) /\ desk[c].held # Bare => Current(Element(c), desk[c].held[Element(c)])
  /\ \A e \in DOMAIN desk[c].rest : Exists(e) /\ desk[c].rest[e] = rows[e]

RequestsFit == \A c \in Editors : Engaged(c) => OnItsWay(c) /\ HoldsFresh(c) /\ HoldsCurrent(c)

CreatesApart == \A c, d \in Editors : c # d /\ Engaged(c) /\ Engaged(d) =>
  (desk[c].op = "create" /\ desk[d].op = "create" => desk[c].key # desk[d].key)

ShelfFits == \A k \in Shelf : shelf[k] = Bare \/ FitsKey(k, shelf[k])

\* Nobody has seen what was never there.
UnbornUnseen == \A e \in Elements : rows[e] = Unborn /\ e # Setting =>
  /\ \A k \in Shelf : shelf[k] = Bare \/ e \notin DOMAIN shelf[k]
  /\ \A c \in Editors : Engaged(c) =>
       (desk[c].held = Bare \/ e \notin DOMAIN desk[c].held) /\ e \notin DOMAIN desk[c].rest

\* Who will clear a key that is not up to date has written already.
WillClear(c, k) == k \in ToClear(c) /\ ~Writing(c)
FreshOrCleared == \A k \in Shelf \ unswept :
  shelf[k] = Bare \/ shelf[k] = Query(k) \/ \E c \in Editors : WillClear(c, k)

HistoryFits ==
  /\ \A x \in done : x[2] \in Of(on) /\ Exists(x[2]) /\ (x[2] \in blamed \/ x[1] \in rows[x[2]].edits)
  /\ \A e \in removed : e \in Of(on) /\ e # Setting /\ (e \in blamed \/ rows[e] = Gone)

ShowInv == /\ ShowTyped /\ RequestsFit /\ CreatesApart /\ ShelfFits /\ UnbornUnseen
           /\ FreshOrCleared /\ HistoryFits

-----------------------------------------------------------------------------
(* Lists of steps. *)

\* What is left after the first step, and after three.
Left(todo) == SubSeq(todo, 2, Len(todo))
LeftOfThree(todo) == SubSeq(todo, 4, Len(todo))

LEMMA Cut1 ==
  ASSUME NEW a
  PROVE  /\ Len(<< a >>) = 1
         /\ Head(<< a >>) = a
         /\ Steps(<< a >>) = {a}
<1>1. << a >> \in Seq({a}) /\ Len(<< a >>) = 1 /\ Head(<< a >>) = a /\ Steps(<< a >>) = {a}
  BY DEF Steps
<1> QED BY <1>1

LEMMA Cut2 ==
  ASSUME NEW a, NEW b
  PROVE  /\ Len(<< a, b >>) = 2
         /\ Head(<< a, b >>) = a
         /\ Steps(<< a, b >>) = {a, b}
         /\ Left(<< a, b >>) = << b >>
         /\ Steps(Left(<< a, b >>)) = {b}
<1>1. << a, b >> \in Seq({a, b}) /\ Len(<< a, b >>) = 2 /\ Head(<< a, b >>) = a /\ Steps(<< a, b >>) = {a, b}
  BY DEF Steps
<1>2. Left(<< a, b >>) = << b >> /\ Steps(Left(<< a, b >>)) = {b}
  <2> DEFINE s == SubSeq(<< a, b >>, 2, 2)
  <2>1. s \in Seq({a, b}) /\ Len(s) = 1 /\ \A i \in 1 .. 1 : s[i] = << a, b >>[i + 1]
    BY <1>1, SubSeqProperties
  <2>2. s[1] = b
    BY <2>1
  <2> HIDE DEF s
  <2>3. s = << b >>
    BY <2>1, <2>2
  <2>4. Left(<< a, b >>) = s
    BY <1>1 DEF Left, s
  <2>5. Steps(<< b >>) = {b}
    BY DEF Steps
  <2> QED BY <2>3, <2>4, <2>5
<1> QED BY <1>1, <1>2

LEMMA Cut3 ==
  ASSUME NEW a, NEW b, NEW c
  PROVE  /\ Len(<< a, b, c >>) = 3
         /\ Head(<< a, b, c >>) = a
         /\ Steps(<< a, b, c >>) = {a, b, c}
         /\ Left(<< a, b, c >>) = << b, c >>
         /\ Steps(Left(<< a, b, c >>)) = {b, c}
<1>1. << a, b, c >> \in Seq({a, b, c}) /\ Len(<< a, b, c >>) = 3 /\ Head(<< a, b, c >>) = a /\ Steps(<< a, b, c >>) = {a, b, c}
  BY DEF Steps
<1>2. Left(<< a, b, c >>) = << b, c >> /\ Steps(Left(<< a, b, c >>)) = {b, c}
  <2> DEFINE s == SubSeq(<< a, b, c >>, 2, 3)
  <2>1. s \in Seq({a, b, c}) /\ Len(s) = 2 /\ \A i \in 1 .. 2 : s[i] = << a, b, c >>[i + 1]
    BY <1>1, SubSeqProperties
  <2>2. s[1] = b /\ s[2] = c
    BY <2>1
  <2> HIDE DEF s
  <2>3. s = << b, c >>
    BY <2>1, <2>2
  <2>4. Left(<< a, b, c >>) = s
    BY <1>1 DEF Left, s
  <2>5. Steps(<< b, c >>) = {b, c}
    BY DEF Steps
  <2> QED BY <2>3, <2>4, <2>5
<1> QED BY <1>1, <1>2

LEMMA Cut4 ==
  ASSUME NEW a, NEW b, NEW c, NEW d
  PROVE  /\ Len(<< a, b, c, d >>) = 4
         /\ Head(<< a, b, c, d >>) = a
         /\ Steps(<< a, b, c, d >>) = {a, b, c, d}
         /\ Left(<< a, b, c, d >>) = << b, c, d >>
         /\ Steps(Left(<< a, b, c, d >>)) = {b, c, d}
<1>1. << a, b, c, d >> \in Seq({a, b, c, d}) /\ Len(<< a, b, c, d >>) = 4 /\ Head(<< a, b, c, d >>) = a /\ Steps(<< a, b, c, d >>) = {a, b, c, d}
  BY DEF Steps
<1>2. Left(<< a, b, c, d >>) = << b, c, d >> /\ Steps(Left(<< a, b, c, d >>)) = {b, c, d}
  <2> DEFINE s == SubSeq(<< a, b, c, d >>, 2, 4)
  <2>1. s \in Seq({a, b, c, d}) /\ Len(s) = 3 /\ \A i \in 1 .. 3 : s[i] = << a, b, c, d >>[i + 1]
    BY <1>1, SubSeqProperties
  <2>2. s[1] = b /\ s[2] = c /\ s[3] = d
    BY <2>1
  <2> HIDE DEF s
  <2>3. s = << b, c, d >>
    BY <2>1, <2>2
  <2>4. Left(<< a, b, c, d >>) = s
    BY <1>1 DEF Left, s
  <2>5. Steps(<< b, c, d >>) = {b, c, d}
    BY DEF Steps
  <2> QED BY <2>3, <2>4, <2>5
<1> QED BY <1>1, <1>2

LEMMA Cut5 ==
  ASSUME NEW a, NEW b, NEW c, NEW d, NEW e
  PROVE  /\ Len(<< a, b, c, d, e >>) = 5
         /\ Head(<< a, b, c, d, e >>) = a
         /\ Steps(<< a, b, c, d, e >>) = {a, b, c, d, e}
         /\ Left(<< a, b, c, d, e >>) = << b, c, d, e >>
         /\ Steps(Left(<< a, b, c, d, e >>)) = {b, c, d, e}
         /\ LeftOfThree(<< a, b, c, d, e >>) = << d, e >>
         /\ Steps(LeftOfThree(<< a, b, c, d, e >>)) = {d, e}
<1>1. << a, b, c, d, e >> \in Seq({a, b, c, d, e}) /\ Len(<< a, b, c, d, e >>) = 5 /\ Head(<< a, b, c, d, e >>) = a /\ Steps(<< a, b, c, d, e >>) = {a, b, c, d, e}
  BY DEF Steps
<1>2. Left(<< a, b, c, d, e >>) = << b, c, d, e >> /\ Steps(Left(<< a, b, c, d, e >>)) = {b, c, d, e}
  <2> DEFINE s == SubSeq(<< a, b, c, d, e >>, 2, 5)
  <2>1. s \in Seq({a, b, c, d, e}) /\ Len(s) = 4 /\ \A i \in 1 .. 4 : s[i] = << a, b, c, d, e >>[i + 1]
    BY <1>1, SubSeqProperties
  <2>2. s[1] = b /\ s[2] = c /\ s[3] = d /\ s[4] = e
    BY <2>1
  <2> HIDE DEF s
  <2>3. s = << b, c, d, e >>
    BY <2>1, <2>2
  <2>4. Left(<< a, b, c, d, e >>) = s
    BY <1>1 DEF Left, s
  <2>5. Steps(<< b, c, d, e >>) = {b, c, d, e}
    BY DEF Steps
  <2> QED BY <2>3, <2>4, <2>5
<1>3. LeftOfThree(<< a, b, c, d, e >>) = << d, e >> /\ Steps(LeftOfThree(<< a, b, c, d, e >>)) = {d, e}
  <2> DEFINE s == SubSeq(<< a, b, c, d, e >>, 4, 5)
  <2>1. s \in Seq({a, b, c, d, e}) /\ Len(s) = 2 /\ \A i \in 1 .. 2 : s[i] = << a, b, c, d, e >>[i + 3]
    BY <1>1, SubSeqProperties
  <2>2. s[1] = d /\ s[2] = e
    BY <2>1
  <2> HIDE DEF s
  <2>3. s = << d, e >>
    BY <2>1, <2>2
  <2>4. LeftOfThree(<< a, b, c, d, e >>) = s
    BY <1>1 DEF LeftOfThree, s
  <2>5. Steps(<< d, e >>) = {d, e}
    BY DEF Steps
  <2> QED BY <2>3, <2>4, <2>5
<1> QED BY <1>1, <1>2, <1>3

LEMMA Cut6 ==
  ASSUME NEW a, NEW b, NEW c, NEW d, NEW e, NEW f
  PROVE  /\ Len(<< a, b, c, d, e, f >>) = 6
         /\ Head(<< a, b, c, d, e, f >>) = a
         /\ Steps(<< a, b, c, d, e, f >>) = {a, b, c, d, e, f}
         /\ Left(<< a, b, c, d, e, f >>) = << b, c, d, e, f >>
         /\ Steps(Left(<< a, b, c, d, e, f >>)) = {b, c, d, e, f}
<1>1. << a, b, c, d, e, f >> \in Seq({a, b, c, d, e, f}) /\ Len(<< a, b, c, d, e, f >>) = 6 /\ Head(<< a, b, c, d, e, f >>) = a /\ Steps(<< a, b, c, d, e, f >>) = {a, b, c, d, e, f}
  BY DEF Steps
<1>2. Left(<< a, b, c, d, e, f >>) = << b, c, d, e, f >> /\ Steps(Left(<< a, b, c, d, e, f >>)) = {b, c, d, e, f}
  <2> DEFINE s == SubSeq(<< a, b, c, d, e, f >>, 2, 6)
  <2>1. s \in Seq({a, b, c, d, e, f}) /\ Len(s) = 5 /\ \A i \in 1 .. 5 : s[i] = << a, b, c, d, e, f >>[i + 1]
    BY <1>1, SubSeqProperties
  <2>2. s[1] = b /\ s[2] = c /\ s[3] = d /\ s[4] = e /\ s[5] = f
    BY <2>1
  <2> HIDE DEF s
  <2>3. s = << b, c, d, e, f >>
    BY <2>1, <2>2
  <2>4. Left(<< a, b, c, d, e, f >>) = s
    BY <1>1 DEF Left, s
  <2>5. Steps(<< b, c, d, e, f >>) = {b, c, d, e, f}
    BY DEF Steps
  <2> QED BY <2>3, <2>4, <2>5
<1> QED BY <1>1, <1>2

LEMMA Cut7 ==
  ASSUME NEW a, NEW b, NEW c, NEW d, NEW e, NEW f, NEW g
  PROVE  /\ Len(<< a, b, c, d, e, f, g >>) = 7
         /\ Head(<< a, b, c, d, e, f, g >>) = a
         /\ Steps(<< a, b, c, d, e, f, g >>) = {a, b, c, d, e, f, g}
         /\ Left(<< a, b, c, d, e, f, g >>) = << b, c, d, e, f, g >>
         /\ Steps(Left(<< a, b, c, d, e, f, g >>)) = {b, c, d, e, f, g}
         /\ LeftOfThree(<< a, b, c, d, e, f, g >>) = << d, e, f, g >>
         /\ Steps(LeftOfThree(<< a, b, c, d, e, f, g >>)) = {d, e, f, g}
<1>1. << a, b, c, d, e, f, g >> \in Seq({a, b, c, d, e, f, g}) /\ Len(<< a, b, c, d, e, f, g >>) = 7 /\ Head(<< a, b, c, d, e, f, g >>) = a /\ Steps(<< a, b, c, d, e, f, g >>) = {a, b, c, d, e, f, g}
  BY DEF Steps
<1>2. Left(<< a, b, c, d, e, f, g >>) = << b, c, d, e, f, g >> /\ Steps(Left(<< a, b, c, d, e, f, g >>)) = {b, c, d, e, f, g}
  <2> DEFINE s == SubSeq(<< a, b, c, d, e, f, g >>, 2, 7)
  <2>1. s \in Seq({a, b, c, d, e, f, g}) /\ Len(s) = 6 /\ \A i \in 1 .. 6 : s[i] = << a, b, c, d, e, f, g >>[i + 1]
    BY <1>1, SubSeqProperties
  <2>2. s[1] = b /\ s[2] = c /\ s[3] = d /\ s[4] = e /\ s[5] = f /\ s[6] = g
    BY <2>1
  <2> HIDE DEF s
  <2>3. s = << b, c, d, e, f, g >>
    BY <2>1, <2>2
  <2>4. Left(<< a, b, c, d, e, f, g >>) = s
    BY <1>1 DEF Left, s
  <2>5. Steps(<< b, c, d, e, f, g >>) = {b, c, d, e, f, g}
    BY DEF Steps
  <2> QED BY <2>3, <2>4, <2>5
<1>3. LeftOfThree(<< a, b, c, d, e, f, g >>) = << d, e, f, g >> /\ Steps(LeftOfThree(<< a, b, c, d, e, f, g >>)) = {d, e, f, g}
  <2> DEFINE s == SubSeq(<< a, b, c, d, e, f, g >>, 4, 7)
  <2>1. s \in Seq({a, b, c, d, e, f, g}) /\ Len(s) = 4 /\ \A i \in 1 .. 4 : s[i] = << a, b, c, d, e, f, g >>[i + 3]
    BY <1>1, SubSeqProperties
  <2>2. s[1] = d /\ s[2] = e /\ s[3] = f /\ s[4] = g
    BY <2>1
  <2> HIDE DEF s
  <2>3. s = << d, e, f, g >>
    BY <2>1, <2>2
  <2>4. LeftOfThree(<< a, b, c, d, e, f, g >>) = s
    BY <1>1 DEF LeftOfThree, s
  <2>5. Steps(<< d, e, f, g >>) = {d, e, f, g}
    BY DEF Steps
  <2> QED BY <2>3, <2>4, <2>5
<1> QED BY <1>1, <1>2, <1>3

\* What a list of steps leaves to do.
LeavesOn(op, e, t) ==
  /\ Len(t) \in Nat /\ Len(t) >= 1 /\ t # << >> /\ Head(t) \in Steps(t)
  /\ Len(t) # 1 => Lasts(op, e, Left(t)) /\ Steps(t) = {Head(t)} \cup Steps(Left(t))
  /\ Len(t) = 1 => Steps(t) = {Head(t)}
  /\ Head(t) = "get" => Len(t) # 1 /\ "select" \in Steps(Left(t))
  /\ Head(t) = "select" /\ Len(t) # 1 => "select" \notin Steps(Left(t))
  /\ Head(t) \in {"save", "delete"} =>
       /\ "select" \notin Steps(t) /\ "set" \notin Steps(t)
       /\ Len(t) # 1 => "save" \notin Steps(Left(t)) /\ "delete" \notin Steps(Left(t))
  /\ Head(t) \notin {"save", "delete"} /\ Len(t) # 1 =>
       /\ "save" \in Steps(t) => "save" \in Steps(Left(t))
       /\ "delete" \in Steps(t) => "delete" \in Steps(Left(t))
  /\ Head(t) \in {"clear", "clear_lists"} => Len(t) = 1
  /\ Head(t) = "find_rest" => Len(t) # 1 /\ "move_rest" \in Steps(Left(t))
  /\ Head(t) # "move_rest" /\ "move_rest" \in Steps(t) => "move_rest" \in Steps(Left(t)) /\ Len(t) # 1
  /\ Head(t) = "move_rest" => t = << "move_rest", "clear" >>
  /\ "save" \in Steps(t) => op \in {"create", "update", "sort"}
  /\ "delete" \in Steps(t) => op = "remove"

LEMMA ReadsLeave == ASSUME NEW e, NEW t \in Reads PROVE LeavesOn("read", e, t)
<1>1. ASSUME t = << "get", "select", "set" >> PROVE LeavesOn("read", e, t)
  <2>1. /\ Len(t) = 3 /\ Head(t) = "get" /\ Steps(t) = {"get", "select", "set"}
        /\ Left(t) = << "select", "set" >> /\ Steps(Left(t)) = {"select", "set"}
    BY <1>1, Cut3
  <2>2. Lasts("read", e, Left(t))
    BY <2>1 DEF Lasts, Reads
  <2>3. t # << >>
    BY <1>1
  <2> QED BY <2>1, <2>2, <2>3 DEF LeavesOn
<1>2. ASSUME t = << "select", "set" >> PROVE LeavesOn("read", e, t)
  <2>1. /\ Len(t) = 2 /\ Head(t) = "select" /\ Steps(t) = {"select", "set"}
        /\ Left(t) = << "set" >> /\ Steps(Left(t)) = {"set"}
    BY <1>2, Cut2
  <2>2. Lasts("read", e, Left(t))
    BY <2>1 DEF Lasts, Reads
  <2>3. t # << >>
    BY <1>2
  <2> QED BY <2>1, <2>2, <2>3 DEF LeavesOn
<1>3. ASSUME t = << "set" >> PROVE LeavesOn("read", e, t)
  <2>1. /\ Len(t) = 1 /\ Head(t) = "set" /\ Steps(t) = {"set"}
    BY <1>3, Cut1
  <2> QED BY <1>3, <2>1 DEF LeavesOn
<1>4. ASSUME t = << "get", "select" >> PROVE LeavesOn("read", e, t)
  <2>1. /\ Len(t) = 2 /\ Head(t) = "get" /\ Steps(t) = {"get", "select"}
        /\ Left(t) = << "select" >> /\ Steps(Left(t)) = {"select"}
    BY <1>4, Cut2
  <2>2. Lasts("read", e, Left(t))
    BY <2>1 DEF Lasts, Reads
  <2>3. t # << >>
    BY <1>4
  <2> QED BY <2>1, <2>2, <2>3 DEF LeavesOn
<1>5. ASSUME t = << "select" >> PROVE LeavesOn("read", e, t)
  <2>1. /\ Len(t) = 1 /\ Head(t) = "select" /\ Steps(t) = {"select"}
    BY <1>5, Cut1
  <2> QED BY <1>5, <2>1 DEF LeavesOn
<1> QED BY <1>1, <1>2, <1>3, <1>4, <1>5 DEF Reads

LEMMA CreationsLeave == ASSUME NEW e, e # Setting, NEW t \in Creations PROVE LeavesOn("create", e, t)
<1>1. ASSUME t = << "save", "clear_lists" >> PROVE LeavesOn("create", e, t)
  <2>1. /\ Len(t) = 2 /\ Head(t) = "save" /\ Steps(t) = {"save", "clear_lists"}
        /\ Left(t) = << "clear_lists" >> /\ Steps(Left(t)) = {"clear_lists"}
    BY <1>1, Cut2
  <2>2. Lasts("create", e, Left(t))
    BY <2>1 DEF Lasts, Creations
  <2>3. t # << >>
    BY <1>1
  <2> QED BY <2>1, <2>2, <2>3 DEF LeavesOn
<1>2. ASSUME t = << "clear_lists" >> PROVE LeavesOn("create", e, t)
  <2>1. /\ Len(t) = 1 /\ Head(t) = "clear_lists" /\ Steps(t) = {"clear_lists"}
    BY <1>2, Cut1
  <2> QED BY <1>2, <2>1 DEF LeavesOn
<1> QED BY <1>1, <1>2 DEF Creations

LEMMA UpdatingLeaves == ASSUME NEW e, NEW t \in Updating PROVE LeavesOn("update", e, t)
<1>1. ASSUME t = << "get", "select", "set", "save", "clear" >> PROVE LeavesOn("update", e, t)
  <2>1. /\ Len(t) = 5 /\ Head(t) = "get" /\ Steps(t) = {"get", "select", "set", "save", "clear"}
        /\ Left(t) = << "select", "set", "save", "clear" >> /\ Steps(Left(t)) = {"select", "set", "save", "clear"}
    BY <1>1, Cut5
  <2>2. Lasts("update", e, Left(t))
    BY <2>1 DEF Lasts, Updating
  <2>3. t # << >>
    BY <1>1
  <2> QED BY <2>1, <2>2, <2>3 DEF LeavesOn
<1>2. ASSUME t = << "select", "set", "save", "clear" >> PROVE LeavesOn("update", e, t)
  <2>1. /\ Len(t) = 4 /\ Head(t) = "select" /\ Steps(t) = {"select", "set", "save", "clear"}
        /\ Left(t) = << "set", "save", "clear" >> /\ Steps(Left(t)) = {"set", "save", "clear"}
    BY <1>2, Cut4
  <2>2. Lasts("update", e, Left(t))
    BY <2>1 DEF Lasts, Updating
  <2>3. t # << >>
    BY <1>2
  <2> QED BY <2>1, <2>2, <2>3 DEF LeavesOn
<1>3. ASSUME t = << "set", "save", "clear" >> PROVE LeavesOn("update", e, t)
  <2>1. /\ Len(t) = 3 /\ Head(t) = "set" /\ Steps(t) = {"set", "save", "clear"}
        /\ Left(t) = << "save", "clear" >> /\ Steps(Left(t)) = {"save", "clear"}
    BY <1>3, Cut3
  <2>2. Lasts("update", e, Left(t))
    BY <2>1 DEF Lasts, Updating
  <2>3. t # << >>
    BY <1>3
  <2> QED BY <2>1, <2>2, <2>3 DEF LeavesOn
<1>4. ASSUME t = << "save", "clear" >> PROVE LeavesOn("update", e, t)
  <2>1. /\ Len(t) = 2 /\ Head(t) = "save" /\ Steps(t) = {"save", "clear"}
        /\ Left(t) = << "clear" >> /\ Steps(Left(t)) = {"clear"}
    BY <1>4, Cut2
  <2>2. Lasts("update", e, Left(t))
    BY <2>1 DEF Lasts, Updating
  <2>3. t # << >>
    BY <1>4
  <2> QED BY <2>1, <2>2, <2>3 DEF LeavesOn
<1>5. ASSUME t = << "clear" >> PROVE LeavesOn("update", e, t)
  <2>1. /\ Len(t) = 1 /\ Head(t) = "clear" /\ Steps(t) = {"clear"}
    BY <1>5, Cut1
  <2> QED BY <1>5, <2>1 DEF LeavesOn
<1>6. ASSUME t = << "select", "save", "clear" >> PROVE LeavesOn("update", e, t)
  <2>1. /\ Len(t) = 3 /\ Head(t) = "select" /\ Steps(t) = {"select", "save", "clear"}
        /\ Left(t) = << "save", "clear" >> /\ Steps(Left(t)) = {"save", "clear"}
    BY <1>6, Cut3
  <2>2. Lasts("update", e, Left(t))
    BY <2>1 DEF Lasts, Updating
  <2>3. t # << >>
    BY <1>6
  <2> QED BY <2>1, <2>2, <2>3 DEF LeavesOn
<1> QED BY <1>1, <1>2, <1>3, <1>4, <1>5, <1>6 DEF Updating

LEMMA SortingLeaves ==
  ASSUME NEW e, NEW x \in {"clear", "clear_lists"}, NEW t \in Sorting(x),
         \A s \in Sorting(x) : Lasts("sort", e, s)
  PROVE  LeavesOn("sort", e, t)
<1>0. Lasts("sort", e, << x >>) /\ Lasts("sort", e, << "save", x >>)
  BY DEF Sorting
<1>1. ASSUME t = << "select", "save", x >> PROVE LeavesOn("sort", e, t)
  <2>1. /\ Len(t) = 3 /\ Head(t) = "select" /\ Steps(t) = {"select", "save", x}
        /\ Left(t) = << "save", x >> /\ Steps(Left(t)) = {"save", x}
    BY <1>1, Cut3
  <2>2. Lasts("sort", e, Left(t))
    BY <1>0, <2>1
  <2>3. t # << >>
    BY <1>1
  <2> QED BY <2>1, <2>2, <2>3 DEF LeavesOn
<1>2. ASSUME t = << "save", x >> PROVE LeavesOn("sort", e, t)
  <2>1. /\ Len(t) = 2 /\ Head(t) = "save" /\ Steps(t) = {"save", x}
        /\ Left(t) = << x >> /\ Steps(Left(t)) = {x}
    BY <1>2, Cut2
  <2>2. Lasts("sort", e, Left(t))
    BY <1>0, <2>1
  <2>3. t # << >>
    BY <1>2
  <2> QED BY <2>1, <2>2, <2>3 DEF LeavesOn
<1>3. ASSUME t = << x >> PROVE LeavesOn("sort", e, t)
  <2>1. /\ Len(t) = 1 /\ Head(t) = x /\ Steps(t) = {x}
    BY <1>3, Cut1
  <2> QED BY <1>3, <2>1 DEF LeavesOn
<1> QED BY <1>1, <1>2, <1>3 DEF Sorting

LEMMA RemovalsLeave ==
  ASSUME NEW e, e[1] \in {"section", "collection"}, NEW t \in Removals
  PROVE  LeavesOn("remove", e, t)
<1>1. ASSUME t = << "get", "select", "set", "delete", "clear" >> PROVE LeavesOn("remove", e, t)
  <2>1. /\ Len(t) = 5 /\ Head(t) = "get" /\ Steps(t) = {"get", "select", "set", "delete", "clear"}
        /\ Left(t) = << "select", "set", "delete", "clear" >> /\ Steps(Left(t)) = {"select", "set", "delete", "clear"}
    BY <1>1, Cut5
  <2>2. Lasts("remove", e, Left(t))
    BY <2>1 DEF Lasts, Removals
  <2>3. t # << >>
    BY <1>1
  <2> QED BY <2>1, <2>2, <2>3 DEF LeavesOn
<1>2. ASSUME t = << "select", "set", "delete", "clear" >> PROVE LeavesOn("remove", e, t)
  <2>1. /\ Len(t) = 4 /\ Head(t) = "select" /\ Steps(t) = {"select", "set", "delete", "clear"}
        /\ Left(t) = << "set", "delete", "clear" >> /\ Steps(Left(t)) = {"set", "delete", "clear"}
    BY <1>2, Cut4
  <2>2. Lasts("remove", e, Left(t))
    BY <2>1 DEF Lasts, Removals
  <2>3. t # << >>
    BY <1>2
  <2> QED BY <2>1, <2>2, <2>3 DEF LeavesOn
<1>3. ASSUME t = << "set", "delete", "clear" >> PROVE LeavesOn("remove", e, t)
  <2>1. /\ Len(t) = 3 /\ Head(t) = "set" /\ Steps(t) = {"set", "delete", "clear"}
        /\ Left(t) = << "delete", "clear" >> /\ Steps(Left(t)) = {"delete", "clear"}
    BY <1>3, Cut3
  <2>2. Lasts("remove", e, Left(t))
    BY <2>1 DEF Lasts, Removals
  <2>3. t # << >>
    BY <1>3
  <2> QED BY <2>1, <2>2, <2>3 DEF LeavesOn
<1>4. ASSUME t = << "delete", "clear" >> PROVE LeavesOn("remove", e, t)
  <2>1. /\ Len(t) = 2 /\ Head(t) = "delete" /\ Steps(t) = {"delete", "clear"}
        /\ Left(t) = << "clear" >> /\ Steps(Left(t)) = {"clear"}
    BY <1>4, Cut2
  <2>2. Lasts("remove", e, Left(t))
    BY <2>1 DEF Lasts, Removals
  <2>3. t # << >>
    BY <1>4
  <2> QED BY <2>1, <2>2, <2>3 DEF LeavesOn
<1>5. ASSUME t = << "clear" >> PROVE LeavesOn("remove", e, t)
  <2>1. /\ Len(t) = 1 /\ Head(t) = "clear" /\ Steps(t) = {"clear"}
    BY <1>5, Cut1
  <2> QED BY <1>5, <2>1 DEF LeavesOn
<1> QED BY <1>1, <1>2, <1>3, <1>4, <1>5 DEF Removals

LEMMA MovingsLeave ==
  ASSUME NEW e, e[1] \in {"hero", "side", "promo"}, NEW t \in Movings
  PROVE  LeavesOn("remove", e, t)
<1>1. ASSUME t = << "get", "select", "set", "delete", "find_rest", "move_rest", "clear" >>
      PROVE LeavesOn("remove", e, t)
  <2>1. /\ Len(t) = 7 /\ Head(t) = "get" /\ Steps(t) = {"get", "select", "set", "delete", "find_rest", "move_rest", "clear"}
        /\ Left(t) = << "select", "set", "delete", "find_rest", "move_rest", "clear" >> /\ Steps(Left(t)) = {"select", "set", "delete", "find_rest", "move_rest", "clear"}
    BY <1>1, Cut7
  <2>2. Lasts("remove", e, Left(t))
    BY <2>1 DEF Lasts, Movings
  <2>3. t # << >>
    BY <1>1
  <2> QED BY <2>1, <2>2, <2>3 DEF LeavesOn
<1>2. ASSUME t = << "select", "set", "delete", "find_rest", "move_rest", "clear" >>
      PROVE LeavesOn("remove", e, t)
  <2>1. /\ Len(t) = 6 /\ Head(t) = "select" /\ Steps(t) = {"select", "set", "delete", "find_rest", "move_rest", "clear"}
        /\ Left(t) = << "set", "delete", "find_rest", "move_rest", "clear" >> /\ Steps(Left(t)) = {"set", "delete", "find_rest", "move_rest", "clear"}
    BY <1>2, Cut6
  <2>2. Lasts("remove", e, Left(t))
    BY <2>1 DEF Lasts, Movings
  <2>3. t # << >>
    BY <1>2
  <2> QED BY <2>1, <2>2, <2>3 DEF LeavesOn
<1>3. ASSUME t = << "set", "delete", "find_rest", "move_rest", "clear" >> PROVE LeavesOn("remove", e, t)
  <2>1. /\ Len(t) = 5 /\ Head(t) = "set" /\ Steps(t) = {"set", "delete", "find_rest", "move_rest", "clear"}
        /\ Left(t) = << "delete", "find_rest", "move_rest", "clear" >> /\ Steps(Left(t)) = {"delete", "find_rest", "move_rest", "clear"}
    BY <1>3, Cut5
  <2>2. Lasts("remove", e, Left(t))
    BY <2>1 DEF Lasts, Movings
  <2>3. t # << >>
    BY <1>3
  <2> QED BY <2>1, <2>2, <2>3 DEF LeavesOn
<1>4. ASSUME t = << "delete", "find_rest", "move_rest", "clear" >> PROVE LeavesOn("remove", e, t)
  <2>1. /\ Len(t) = 4 /\ Head(t) = "delete" /\ Steps(t) = {"delete", "find_rest", "move_rest", "clear"}
        /\ Left(t) = << "find_rest", "move_rest", "clear" >> /\ Steps(Left(t)) = {"find_rest", "move_rest", "clear"}
    BY <1>4, Cut4
  <2>2. Lasts("remove", e, Left(t))
    BY <2>1 DEF Lasts, Movings
  <2>3. t # << >>
    BY <1>4
  <2> QED BY <2>1, <2>2, <2>3 DEF LeavesOn
<1>5. ASSUME t = << "find_rest", "move_rest", "clear" >> PROVE LeavesOn("remove", e, t)
  <2>1. /\ Len(t) = 3 /\ Head(t) = "find_rest" /\ Steps(t) = {"find_rest", "move_rest", "clear"}
        /\ Left(t) = << "move_rest", "clear" >> /\ Steps(Left(t)) = {"move_rest", "clear"}
    BY <1>5, Cut3
  <2>2. Lasts("remove", e, Left(t))
    BY <2>1 DEF Lasts, Movings
  <2>3. t # << >>
    BY <1>5
  <2> QED BY <2>1, <2>2, <2>3 DEF LeavesOn
<1>6. ASSUME t = << "move_rest", "clear" >> PROVE LeavesOn("remove", e, t)
  <2>1. /\ Len(t) = 2 /\ Head(t) = "move_rest" /\ Steps(t) = {"move_rest", "clear"}
        /\ Left(t) = << "clear" >> /\ Steps(Left(t)) = {"clear"}
    BY <1>6, Cut2
  <2>2. Lasts("remove", e, Left(t))
    BY <2>1 DEF Lasts, Movings
  <2>3. t # << >>
    BY <1>6
  <2> QED BY <1>6, <2>1, <2>2, <2>3 DEF LeavesOn
<1>7. ASSUME t = << "clear" >> PROVE LeavesOn("remove", e, t)
  <2>1. /\ Len(t) = 1 /\ Head(t) = "clear" /\ Steps(t) = {"clear"}
    BY <1>7, Cut1
  <2> QED BY <1>7, <2>1 DEF LeavesOn
<1> QED BY <1>1, <1>2, <1>3, <1>4, <1>5, <1>6, <1>7 DEF Movings

LEMMA UnsettingsLeave ==
  ASSUME NEW t \in Unsettings
  PROVE  LeavesOn("remove", Setting, t)
<1>1. ASSUME t = << "select", "delete" >> PROVE LeavesOn("remove", Setting, t)
  <2>1. /\ Len(t) = 2 /\ Head(t) = "select" /\ Steps(t) = {"select", "delete"}
        /\ Left(t) = << "delete" >> /\ Steps(Left(t)) = {"delete"}
    BY <1>1, Cut2
  <2>2. Lasts("remove", Setting, Left(t))
    BY <2>1 DEF Lasts, Unsettings
  <2>3. t # << >>
    BY <1>1
  <2> QED BY <2>1, <2>2, <2>3 DEF LeavesOn
<1>2. ASSUME t = << "delete" >> PROVE LeavesOn("remove", Setting, t)
  <2>1. /\ Len(t) = 1 /\ Head(t) = "delete" /\ Steps(t) = {"delete"}
    BY <1>2, Cut1
  <2> QED BY <1>2, <2>1 DEF LeavesOn
<1> QED BY <1>1, <1>2 DEF Unsettings

LEMMA AllLeave == ASSUME NEW op, NEW e, NEW t, Lasts(op, e, t) PROVE LeavesOn(op, e, t)
<1>1. ASSUME op = "sort" PROVE LeavesOn(op, e, t)
  <2>1. CASE e[1] = "promo"
    <3>1. t \in Sorting("clear") /\ \A s \in Sorting("clear") : Lasts("sort", e, s)
      BY <1>1, <2>1 DEF Lasts
    <3> QED BY <1>1, <3>1, SortingLeaves
  <2>2. CASE e[1] \in {"hero", "section"}
    <3>1. t \in Sorting("clear_lists") /\ \A s \in Sorting("clear_lists") : Lasts("sort", e, s)
      BY <1>1, <2>2 DEF Lasts
    <3> QED BY <1>1, <3>1, SortingLeaves
  <2> QED BY <1>1, <2>1, <2>2 DEF Lasts
<1>2. ASSUME op = "remove" PROVE LeavesOn(op, e, t)
  BY <1>2, RemovalsLeave, MovingsLeave, UnsettingsLeave DEF Lasts
<1> QED BY <1>1, <1>2, ReadsLeave, CreationsLeave, UpdatingLeaves DEF Lasts

\* What was found at the key leaves out the query and the set.
LEMMA FoundLeaves ==
  ASSUME NEW op, NEW e, NEW t, Lasts(op, e, t), Head(t) = "get"
  PROVE  \/ op = "read" /\ Len(t) \in {2, 3}
         \/ /\ Len(t) > 3 /\ Lasts(op, e, LeftOfThree(t)) /\ Steps(LeftOfThree(t)) \subseteq Steps(t)
            /\ "select" \notin Steps(LeftOfThree(t)) /\ "set" \notin Steps(LeftOfThree(t))
            /\ "save" \in Steps(t) => "save" \in Steps(LeftOfThree(t))
            /\ "delete" \in Steps(t) => "delete" \in Steps(LeftOfThree(t))
            /\ "move_rest" \in Steps(t) => "move_rest" \in Steps(LeftOfThree(t))
            /\ op # "create"
<1>1. ASSUME op = "read" PROVE Len(t) \in {2, 3}
  <2>1. \A a, b, c : Head(<< a >>) = a /\ Head(<< a, b >>) = a /\ Len(<< a, b >>) = 2 /\ Len(<< a, b, c >>) = 3
    BY Cut1, Cut2, Cut3
  <2>2. t \in {<< "get", "select", "set" >>, << "get", "select" >>}
    <3>1. t \in Reads
      BY <1>1 DEF Lasts
    <3> QED BY <3>1, Cut1, Cut2 DEF Reads
  <2> QED BY <2>1, <2>2
<1>2. ASSUME op = "update" PROVE t = << "get", "select", "set", "save", "clear" >>
  BY <1>2, Cut1, Cut2, Cut3, Cut4 DEF Lasts, Updating
<1>3. ASSUME op = "remove", e[1] \in {"section", "collection"}
      PROVE  t = << "get", "select", "set", "delete", "clear" >>
  <2>1. t \in Removals
    BY <1>3 DEF Lasts, Setting
  <2> QED BY <2>1, Cut1, Cut2, Cut3, Cut4 DEF Removals
<1>4. ASSUME op = "remove", e[1] \in {"hero", "side", "promo"}
      PROVE  t = << "get", "select", "set", "delete", "find_rest", "move_rest", "clear" >>
  <2>1. t \in Movings
    BY <1>4 DEF Lasts, Setting
  <2> QED BY <2>1, Cut1, Cut2, Cut3, Cut4, Cut5, Cut6 DEF Movings
<1>5. ~ (op = "remove" /\ e = Setting) /\ op # "create" /\ op # "sort"
  <2>1. ASSUME op = "remove", e = Setting PROVE FALSE
    <3>1. t \in Unsettings
      BY <2>1 DEF Lasts, Setting
    <3> QED BY <3>1, Cut1, Cut2 DEF Unsettings
  <2>2. ASSUME op = "create" PROVE FALSE
    <3>1. t \in Creations
      BY <2>2 DEF Lasts
    <3> QED BY <3>1, Cut1, Cut2 DEF Creations
  <2>3. ASSUME op = "sort" PROVE FALSE
    <3>1. t \in Sorting("clear") \cup Sorting("clear_lists")
      BY <2>3 DEF Lasts
    <3> QED BY <3>1, Cut1, Cut2, Cut3 DEF Sorting
  <2> QED BY <2>1, <2>2, <2>3
<1>6. CASE op = "update"
  <2>1. /\ Len(t) = 5 /\ LeftOfThree(t) = << "save", "clear" >> /\ Steps(LeftOfThree(t)) = {"save", "clear"}
        /\ Steps(t) = {"get", "select", "set", "save", "clear"}
    BY <1>2, <1>6, Cut5
  <2>2. Lasts(op, e, LeftOfThree(t))
    BY <1>6, <2>1 DEF Lasts, Updating
  <2> QED BY <1>6, <2>1, <2>2
<1>7. CASE op = "remove" /\ e[1] \in {"section", "collection"}
  <2>1. /\ Len(t) = 5 /\ LeftOfThree(t) = << "delete", "clear" >> /\ Steps(LeftOfThree(t)) = {"delete", "clear"}
        /\ Steps(t) = {"get", "select", "set", "delete", "clear"}
    BY <1>3, <1>7, Cut5
  <2>2. Lasts(op, e, LeftOfThree(t))
    BY <1>7, <2>1 DEF Lasts, Removals
  <2> QED BY <1>7, <2>1, <2>2
<1>8. CASE op = "remove" /\ e[1] \in {"hero", "side", "promo"}
  <2>1. /\ Len(t) = 7 /\ LeftOfThree(t) = << "delete", "find_rest", "move_rest", "clear" >>
        /\ Steps(LeftOfThree(t)) = {"delete", "find_rest", "move_rest", "clear"}
        /\ Steps(t) = {"get", "select", "set", "delete", "find_rest", "move_rest", "clear"}
    BY <1>4, <1>8, Cut7
  <2>2. Lasts(op, e, LeftOfThree(t))
    BY <1>8, <2>1 DEF Lasts, Movings
  <2> QED BY <1>8, <2>1, <2>2
<1> QED BY <1>1, <1>5, <1>6, <1>7, <1>8 DEF Lasts

LEMMA WritersLeave ==
  ASSUME NEW op, NEW e, NEW t, Lasts(op, e, t)
  PROVE  /\ Head(t) = "save" => /\ Len(t) = 2 /\ op \in {"create", "update", "sort"}
                                /\ Steps(Left(t)) = {"clear"} \/ Steps(Left(t)) = {"clear_lists"}
                                /\ op = "create" => e # Setting /\ Steps(Left(t)) = {"clear_lists"}
                                /\ op = "update" => Steps(Left(t)) = {"clear"}
                                /\ op = "sort" => /\ e[1] \in {"hero", "promo", "section"}
                                                  /\ e[1] = "promo" => Steps(Left(t)) = {"clear"}
         /\ Head(t) = "delete" => /\ op = "remove"
                                  /\ e = Setting \/ (Len(t) # 1 /\ "clear" \in Steps(Left(t)))
         /\ Head(t) = "move_rest" => /\ op = "remove" /\ e[1] \in {"hero", "side", "promo"}
                                     /\ Len(t) = 2 /\ "clear" \in Steps(t) /\ Steps(Left(t)) = {"clear"}
                                     /\ "save" \notin Steps(t) /\ "delete" \notin Steps(t)
         /\ Head(t) = "find_rest" => /\ op = "remove" /\ e[1] \in {"hero", "side", "promo"} /\ "select" \notin Steps(t)
                                     /\ "save" \notin Steps(t) /\ "delete" \notin Steps(t)
         /\ op = "create" => Head(t) \in {"save", "clear_lists"}
<1>1. ASSUME op = "create"
      PROVE  e # Setting /\ (Head(t) = "save" => t = << "save", "clear_lists" >>)
             /\ Head(t) \in {"save", "clear_lists"}
  <2>1. t \in Creations /\ e # Setting
    BY <1>1 DEF Lasts
  <2> QED BY <2>1, Cut1, Cut2 DEF Creations
<1>2. ASSUME op = "update"
      PROVE  (Head(t) = "save" => t = << "save", "clear" >>) /\ Head(t) \in {"get", "select", "set", "save", "clear"}
  <2>1. t \in Updating
    BY <1>2 DEF Lasts
  <2> QED BY <2>1, Cut1, Cut2, Cut3, Cut4, Cut5 DEF Updating
<1>3. ASSUME op = "sort"
      PROVE  /\ e[1] \in {"hero", "promo", "section"} /\ Head(t) \in {"select", "save", "clear", "clear_lists"}
             /\ Head(t) = "save" => t = IF e[1] = "promo" THEN << "save", "clear" >> ELSE << "save", "clear_lists" >>
  <2>1. \/ e[1] = "promo" /\ t \in Sorting("clear")
        \/ e[1] \in {"hero", "section"} /\ t \in Sorting("clear_lists")
    BY <1>3 DEF Lasts
  <2> QED BY <2>1, Cut1, Cut2, Cut3 DEF Sorting
<1>4. ASSUME op = "read" PROVE Head(t) \in {"get", "select", "set"}
  <2>1. t \in Reads
    BY <1>4 DEF Lasts
  <2> QED BY <2>1, Cut1, Cut2, Cut3 DEF Reads
<1>5. ASSUME op = "remove", e # Setting \/ t \notin Unsettings, t \in Removals
      PROVE  /\ Head(t) = "delete" => Len(t) # 1 /\ "clear" \in Steps(Left(t))
             /\ Head(t) \in {"get", "select", "set", "delete", "clear"}
  <2>1. Head(t) = "delete" => t = << "delete", "clear" >>
    BY <1>5, Cut1, Cut2, Cut3, Cut4, Cut5 DEF Removals
  <2>2. Head(t) \in {"get", "select", "set", "delete", "clear"}
    BY <1>5, Cut1, Cut2, Cut3, Cut4, Cut5 DEF Removals
  <2> QED BY <2>1, <2>2, Cut2
<1>6. ASSUME op = "remove", t \in Movings
      PROVE  /\ Head(t) = "delete" => Len(t) # 1 /\ "clear" \in Steps(Left(t))
             /\ Head(t) = "move_rest" => t = << "move_rest", "clear" >>
             /\ Head(t) = "find_rest" => t = << "find_rest", "move_rest", "clear" >>
             /\ Head(t) # "save"
  <2>1. Head(t) = "delete" => t = << "delete", "find_rest", "move_rest", "clear" >>
    BY <1>6, Cut1, Cut2, Cut3, Cut4, Cut5, Cut6, Cut7 DEF Movings
  <2>2. /\ Head(t) = "move_rest" => t = << "move_rest", "clear" >>
        /\ Head(t) = "find_rest" => t = << "find_rest", "move_rest", "clear" >>
        /\ Head(t) # "save"
    BY <1>6, Cut1, Cut2, Cut3, Cut4, Cut5, Cut6, Cut7 DEF Movings
  <2> QED BY <2>1, <2>2, Cut4
<1>7. ASSUME op = "remove", t \in Unsettings PROVE Head(t) \in {"select", "delete"}
  BY <1>7, Cut1, Cut2 DEF Unsettings
<1>8. ASSUME op = "remove"
      PROVE  \/ t \in Removals /\ (e # Setting \/ t \notin Unsettings)
             \/ t \in Movings /\ e[1] \in {"hero", "side", "promo"}
             \/ t \in Unsettings /\ e = Setting
  <2>1. Setting[1] = "layout"
    BY DEF Setting
  <2>2. e = Setting => e[1] \notin {"section", "collection"}
    <3>1. ASSUME e = Setting PROVE e[1] = "layout"
      BY <2>1, <3>1
    <3> QED BY <3>1
  <2>3. \/ e[1] \in {"section", "collection"} /\ t \in Removals
        \/ e[1] \in {"hero", "side", "promo"} /\ t \in Movings
        \/ e = Setting /\ t \in Unsettings
    BY <1>8 DEF Lasts
  <2> QED BY <2>2, <2>3
<1>9. op \in {"read", "create", "update", "sort", "remove"}
  BY DEF Lasts
<1>10. Head(t) = "save" =>
         /\ Len(t) = 2 /\ op \in {"create", "update", "sort"}
         /\ Steps(Left(t)) = {"clear"} \/ Steps(Left(t)) = {"clear_lists"}
         /\ op = "create" => e # Setting /\ Steps(Left(t)) = {"clear_lists"}
         /\ op = "update" => Steps(Left(t)) = {"clear"}
         /\ op = "sort" => /\ e[1] \in {"hero", "promo", "section"}
                           /\ e[1] = "promo" => Steps(Left(t)) = {"clear"}
  BY <1>1, <1>2, <1>3, <1>4, <1>5, <1>6, <1>7, <1>8, <1>9, Cut2
<1>11. Head(t) = "delete" => /\ op = "remove"
                             /\ e = Setting \/ (Len(t) # 1 /\ "clear" \in Steps(Left(t)))
  BY <1>1, <1>2, <1>3, <1>4, <1>5, <1>6, <1>8, <1>9
<1>12. Head(t) = "move_rest" => /\ op = "remove" /\ e[1] \in {"hero", "side", "promo"} /\ t = << "move_rest", "clear" >>
  BY <1>1, <1>2, <1>3, <1>4, <1>5, <1>6, <1>7, <1>8, <1>9
<1>13. Head(t) = "find_rest" =>
         /\ op = "remove" /\ e[1] \in {"hero", "side", "promo"} /\ t = << "find_rest", "move_rest", "clear" >>
  BY <1>1, <1>2, <1>3, <1>4, <1>5, <1>6, <1>7, <1>8, <1>9
<1> QED BY <1>1, <1>10, <1>11, <1>12, <1>13, Cut2, Cut3

-----------------------------------------------------------------------------
(* Rows and what is shown of them. *)

LEMMA BareApart ==
  /\ Bare # << >> /\ << "bare", 0 >> \notin Elements
  /\ \A f : DOMAIN f \subseteq Elements => f # Bare
<1>1. << "bare", 0 >> \notin Kinds \X Ids
  <2>1. "bare" \notin Kinds
    BY ShowcaseAssumption
  <2> QED BY <2>1
<1>2. << "bare", 0 >> # Setting
  BY DEF Setting
<1>3. << "bare", 0 >> \notin Elements
  BY <1>1, <1>2 DEF Elements
<1>4. DOMAIN Bare = {<< "bare", 0 >>}
  BY DEF Bare
<1> QED BY <1>3, <1>4

\* An element is part of what the query behind a key returns.
Shown(k, e) ==
  \/ k[1] = "detail" /\ e = k[2] /\ (Exists(e) \/ e = Setting)
  \/ k[1] = "slug" /\ e[1] = "collection" /\ Exists(e) /\ rows[e].slug = k[2]
  \/ k[1] \notin {"detail", "slug"} /\ e[1] = k[2] /\ Exists(e)

LEMMA KeyKinds ==
  ASSUME NEW k \in Shelf
  PROVE  /\ k[1] \in {"detail", "slug", "active", "all"}
         /\ k[1] = "detail" => k[2] \in Elements /\ k = Detail(k[2])
         /\ k[1] = "slug" => k \in SlugKeys /\ k[2] \in Slugs /\ k = DetailBySlug(k[2])
         /\ k[1] \in {"active", "all"} => /\ k \in ListKeys /\ k[2] \in Kinds
                                          /\ k[2] \in {"hero", "side", "promo", "section", "collection"}
<1>1. CASE \E e \in Elements : k = Detail(e)
  BY <1>1 DEF Detail
<1>2. CASE k \in SlugKeys
  <2>1. \E s \in Slugs : k = DetailBySlug(s)
    BY <1>2 DEF SlugKeys
  <2> QED BY <1>2, <2>1 DEF DetailBySlug
<1>3. CASE k \in ListKeys
  <2>1. k \in HeroSliderKeys \cup SideBannerKeys \cup PromoBannerKeys \cup SectionKeys \cup CollectionKeys
        /\ k[2] \in Kinds
    BY <1>3 DEF ListKeys
  <2>2. \E kind \in {"hero", "side", "promo", "section", "collection"} : k \in {ListActive(kind), ListAll(kind)}
    BY <2>1 DEF HeroSliderKeys, SideBannerKeys, PromoBannerKeys, SectionKeys, CollectionKeys
  <2> QED BY <1>3, <2>1, <2>2 DEF ListActive, ListAll
<1> QED BY <1>1, <1>2, <1>3 DEF Shelf

\* The same of any state of the rows.
Stands(r, e) == r[e] \notin {Unborn, Gone}
ShownIn(r, k, e) ==
  \/ k[1] = "detail" /\ e = k[2] /\ (Stands(r, e) \/ e = Setting)
  \/ k[1] = "slug" /\ e[1] = "collection" /\ Stands(r, e) /\ r[e].slug = k[2]
  \/ k[1] \notin {"detail", "slug"} /\ e[1] = k[2] /\ Stands(r, e)
Answer(r, k) == [e \in { x \in Elements : ShownIn(r, k, x) } |-> IF Stands(r, e) THEN r[e] ELSE Blank]

LEMMA AnswerIs ==
  ASSUME NEW r, NEW k \in Shelf
  PROVE  LET found == IF k[1] = "detail" THEN { e \in {k[2]} : Stands(r, e) \/ e = Setting }
                      ELSE IF k[1] = "slug" THEN { e \in { f \in Of("collection") : Stands(r, f) } : r[e].slug = k[2] }
                      ELSE { e \in Of(k[2]) : Stands(r, e) }
         IN  Answer(r, k) = [e \in found |-> IF Stands(r, e) THEN r[e] ELSE Blank]
<1> DEFINE found == IF k[1] = "detail" THEN { e \in {k[2]} : Stands(r, e) \/ e = Setting }
                    ELSE IF k[1] = "slug" THEN { e \in { f \in Of("collection") : Stands(r, f) } : r[e].slug = k[2] }
                    ELSE { e \in Of(k[2]) : Stands(r, e) }
<1>1. found = { e \in Elements : ShownIn(r, k, e) }
  <2>1. CASE k[1] = "detail"
    BY <2>1, KeyKinds DEF ShownIn
  <2>2. CASE k[1] = "slug"
    BY <2>2 DEF ShownIn, Of
  <2>3. CASE k[1] \notin {"detail", "slug"}
    BY <2>3 DEF ShownIn, Of
  <2> QED BY <2>1, <2>2, <2>3
<1>2. Answer(r, k) = [e \in found |-> IF Stands(r, e) THEN r[e] ELSE Blank]
  <2> HIDE DEF found
  <2> QED BY <1>1 DEF Answer
<1> QED BY <1>2

LEMMA QueryIs ==
  ASSUME NEW k \in Shelf
  PROVE  /\ Query(k) = Answer(rows, k) /\ Query(k)' = Answer(rows', k)
         /\ \A e : (Shown(k, e) <=> ShownIn(rows, k, e)) /\ (Shown(k, e)' <=> ShownIn(rows', k, e))
         /\ DOMAIN Query(k) = { e \in Elements : Shown(k, e) }
         /\ \A e \in DOMAIN Query(k) : Query(k)[e] = IF Exists(e) THEN rows[e] ELSE Blank
<1>1. Query(k) = Answer(rows, k)
  BY AnswerIs DEF Query, Present, Exists, Stands
<1>2. Query(k)' = Answer(rows', k)
  BY AnswerIs DEF Query, Present, Exists, Stands
<1>3. ASSUME NEW e PROVE (Shown(k, e) <=> ShownIn(rows, k, e)) /\ (Shown(k, e)' <=> ShownIn(rows', k, e))
  BY DEF Shown, ShownIn, Exists, Stands
<1>4. \A e : Exists(e) = Stands(rows, e)
  BY DEF Exists, Stands
<1> QED BY <1>1, <1>2, <1>3, <1>4 DEF Answer

LEMMA QueryTyped ==
  ASSUME ShowTyped, NEW k \in Shelf
  PROVE  /\ IsCopy(Query(k)) /\ Query(k) # Bare
         /\ Finds(k) => FitsKey(k, Query(k))
         /\ \A e \in DOMAIN Query(k) : Exists(e) \/ e = Setting
<1>1. DOMAIN Query(k) \subseteq Elements
  BY QueryIs
<1>2. ASSUME NEW e \in DOMAIN Query(k)
      PROVE  Query(k)[e] \in Rows /\ (Exists(e) \/ e = Setting)
  <2>1. e \in Elements /\ Shown(k, e) /\ Query(k)[e] = IF Exists(e) THEN rows[e] ELSE Blank
    BY <1>2, QueryIs
  <2>2. Blank \in Rows
    BY DEF Blank, Row, Rows
  <2>3. Exists(e) => rows[e] \in Rows
    BY <2>1 DEF ShowTyped, Exists
  <2> QED BY <2>1, <2>2, <2>3 DEF Shown
<1>3. ASSUME Finds(k) PROVE FitsKey(k, Query(k))
  <2>1. CASE k[1] = "detail"
    <3>1. Shown(k, k[2]) /\ k[2] \in Elements
      BY <1>3, <2>1, KeyKinds DEF Finds, Shown, Detail
    <3>2. \A e : Shown(k, e) => e = k[2]
      BY <2>1 DEF Shown
    <3> QED BY <2>1, <3>1, <3>2, QueryIs DEF FitsKey
  <2>2. CASE k[1] = "slug"
    <3>1. PICK e \in Present("collection") : rows[e].slug = k[2]
      BY <1>3, <2>2 DEF Finds, Detail
    <3>2. e \in Elements /\ Shown(k, e)
      BY <2>2, <3>1 DEF Present, Of, Shown
    <3> QED BY <2>2, <3>2, QueryIs DEF FitsKey
  <2> QED BY <2>1, <2>2 DEF FitsKey
<1> QED BY <1>1, <1>2, <1>3, BareApart DEF IsCopy

\* What a key shows changes only with the rows that it shows.
LEMMA QuerySame ==
  ASSUME NEW k \in Shelf,
         \A e \in Elements : rows'[e] = rows[e] \/ (~Shown(k, e) /\ ~Shown(k, e)')
  PROVE  Query(k)' = Query(k)
<1>1. \A e \in Elements : rows'[e] = rows[e] => (ShownIn(rows', k, e) <=> ShownIn(rows, k, e))
  BY DEF ShownIn, Stands
<1>2. \A e \in Elements : rows'[e] = rows[e] \/ (~ShownIn(rows, k, e) /\ ~ShownIn(rows', k, e))
  BY QueryIs
<1>3. \A e \in Elements : /\ ShownIn(rows', k, e) <=> ShownIn(rows, k, e)
                          /\ ShownIn(rows, k, e) => rows'[e] = rows[e]
  BY <1>1, <1>2
<1> DEFINE was == { e \in Elements : ShownIn(rows, k, e) }
           is == { e \in Elements : ShownIn(rows', k, e) }
<1>5. is = was
  BY <1>3
<1>6. ASSUME NEW e \in was
      PROVE  (IF Stands(rows', e) THEN rows'[e] ELSE Blank) = (IF Stands(rows, e) THEN rows[e] ELSE Blank)
  <2>1. rows'[e] = rows[e]
    BY <1>3, <1>6
  <2> QED BY <2>1 DEF Stands
<1>4. Answer(rows', k) = Answer(rows, k)
  <2>1. Answer(rows', k) = [e \in is |-> IF Stands(rows', e) THEN rows'[e] ELSE Blank]
    BY DEF Answer
  <2>2. Answer(rows, k) = [e \in was |-> IF Stands(rows, e) THEN rows[e] ELSE Blank]
    BY DEF Answer
  <2> HIDE DEF was, is
  <2> QED BY <1>5, <1>6, <2>1, <2>2
<1> QED BY <1>4, QueryIs

\* A request that is done has nothing left to do.
LEMMA FreeIs ==
  /\ Free.todo = << >> /\ DOMAIN Free = {"todo"} /\ \A r : DOMAIN r = Fields => r # Free
  /\ Steps(<< >>) = {}
<1>1. DOMAIN Free = {"todo"} /\ Free.todo = << >>
  BY DEF Free
<1>2. "op" \in Fields /\ "op" \notin {"todo"}
  BY DEF Fields
<1>3. Steps(<< >>) = {}
  BY DEF Steps
<1> QED BY <1>1, <1>2, <1>3

LEMMA TasksAre ==
  ASSUME NEW c
  PROVE  Tasks(c) = Steps(desk[c].todo) /\ (~Engaged(c) => Tasks(c) = {})
<1>1. Tasks(c) = Steps(desk[c].todo)
  BY DEF Tasks, Steps
<1> QED BY <1>1, FreeIs DEF Engaged

LEMMA ToClearIs ==
  ASSUME NEW c, NEW k
  PROVE  k \in ToClear(c) <=>
           \/ Tasks(c) \cap {"clear", "clear_lists"} # {} /\ k \in Lists(Element(c)[1])
           \/ "clear" \in Tasks(c) /\ (k = desk[c].key \/ (k \in SlugKeys /\ k[2] = desk[c].slug))
BY DEF ToClear

-----------------------------------------------------------------------------
(* What every step of the requests and of the keys does. *)

\* What a request is after a step of its own.
Progressed(c) ==
  /\ Engaged(c) => \/ desk'[c] = Free
                \/ /\ Tasks(c)' \subseteq Tasks(c)
                   /\ desk'[c].op = desk[c].op /\ desk'[c].key = desk[c].key
  /\ Engaged(c)' => /\ OnItsWay(c)' /\ HoldsCurrent(c)'
                 /\ \A e \in Elements : rows'[e] = Unborn /\ e # Setting =>
                      /\ desk'[c].held = Bare \/ e \notin DOMAIN desk'[c].held
                      /\ e \notin DOMAIN desk'[c].rest
  /\ ~Engaged(c) /\ Engaged(c)' /\ desk'[c].op = "create" =>
       \A d \in Editors : Engaged(d) => desk[d].key # desk'[c].key

\* What a request does to a row: a new row is its creator's; a row is saved with
\* what it has, unless the request is late.
Wrote(c, e) ==
  /\ e \in Of(on) /\ Acts(c) /\ Engaged(c) /\ rows'[e] # Unborn
  /\ rows[e] = Unborn /\ e # Setting => desk[c].op = "create" /\ desk[c].key = Detail(e)
  /\ c \notin late => /\ rows[e] # Gone \/ e = Setting
                      /\ Exists(e) /\ Exists(e)' => rows[e].edits \subseteq rows'[e].edits

\* What is set to a key is what the query found, while the rows stay.
WasSet(k) ==
  /\ rows' = rows
  /\ \E c \in Editors : /\ Engaged(c) /\ desk[c].key = k /\ desk[c].held = shelf'[k]
                        /\ desk[c].held # Bare /\ "set" \in Tasks(c)

Effects ==
  /\ ShowTyped' /\ on' = on
  /\ \A c \in Editors : Acts(c) => Progressed(c)
  /\ \A c, d \in Editors : Acts(c) /\ Acts(d) => c = d
  /\ \A e \in Elements : rows'[e] # rows[e] => \E c \in Editors : Wrote(c, e)
  /\ \A k \in Shelf : shelf'[k] = shelf[k] \/ shelf'[k] = Bare \/ WasSet(k)
  /\ \A k \in Shelf : rows' # rows /\ shelf[k] # Bare /\ shelf[k] = Query(k) =>
       \/ Query(k)' = Query(k)
       \/ Missed(k)
       \/ \E c \in Editors : WillClear(c, k)'

LEMMA TodoIs ==
  ASSUME NEW c, Lasts(desk[c].op, Element(c), desk[c].todo)
  PROVE  desk[c].todo # << >> /\ Tasks(c) # {}
<1>1. LeavesOn(desk[c].op, Element(c), desk[c].todo)
  BY AllLeave
<1> QED BY <1>1, TasksAre DEF LeavesOn

\* A key that has something, or that a request fills, is unswept for a reason.
LEMMA StaysSwept ==
  ASSUME Watches, NEW k \in Shelf, k \notin unswept', shelf'[k] # Bare \/ k \in Filled'
  PROVE  k \notin unswept /\ ~Missed(k) /\ ~Overtaken(k)' /\ ~Loses(k)
<1>1. unswept' = { j \in { i \in Shelf : shelf'[i] # Bare } \cup Filled' :
                    j \in unswept \/ Missed(j) \/ Overtaken(j)' \/ Loses(j) }
  BY DEF Watches
<1> QED BY <1>1, Zenon

LEMMA StaysLate ==
  ASSUME Watches, NEW c \in Editors, c \notin late', desk'[c] # Free
  PROVE  c \notin late /\ ~ServedLate(c) /\ \A d \in Editors : ~GetsLate(c, d)
<1>1. late' = { d \in Editors :
        /\ desk'[d] # Free
        /\ d \in late \/ (\E f \in Editors : GetsLate(d, f)) \/ ServedLate(d) }
  BY DEF Watches
<1> QED BY <1>1, Zenon

\* What the others hold stays so, or they are late.
LEMMA OthersHold ==
  ASSUME ShowInv, Watches, Effects, NEW d \in Editors, Engaged(d), ~Acts(d)
  PROVE  OnItsWay(d)' /\ HoldsCurrent(d)'
<1>1. desk'[d] = desk[d] /\ desk[d] # Free
  BY DEF Acts, Engaged
<1>2. OnItsWay(d) /\ HoldsCurrent(d)
  BY DEF ShowInv, RequestsFit
<1>3. OnItsWay(d)'
  <2>1. ASSUME desk[d].op = "create", "save" \in Tasks(d), rows'[Element(d)] # rows[Element(d)]
        PROVE  FALSE
    <3> DEFINE e == Element(d)
    <3>1. /\ rows[e] = Unborn /\ desk[d].key = Detail(e) /\ e \in Of(on)
          /\ e # Setting
      BY <1>2, <2>1 DEF OnItsWay, Lasts
    <3>2. e \in Elements
      BY <3>1 DEF Of
    <3> HIDE DEF e
    <3>3. rows'[e] # rows[e]
      BY <2>1 DEF e
    <3>4. PICK c \in Editors : Wrote(c, e)
      BY <3>2, <3>3 DEF Effects
    <3>5. desk[c].op = "create" /\ desk[c].key = Detail(e) /\ Acts(c) /\ Engaged(c)
      BY <3>1, <3>4 DEF Wrote
    <3>6. c # d
      BY <3>5
    <3> QED BY <2>1, <3>1, <3>5, <3>6 DEF ShowInv, CreatesApart
  <2>2. Element(d)' = Element(d) /\ Tasks(d)' = Tasks(d) /\ Of(on)' = Of(on)
    BY <1>1 DEF Element, Tasks, Of, Effects
  <2>3. desk[d].op = "create" /\ "save" \in Tasks(d) => rows'[Element(d)] = Unborn
    BY <1>2, <2>1 DEF OnItsWay
  <2>4. Lasts(desk[d].op, Element(d), desk[d].todo)' /\ (desk[d].op # "read" => desk[d].key = Detail(Element(d)) /\ Element(d) \in Of(on))'
    BY <1>1, <1>2, <2>2 DEF OnItsWay
  <2>5. (desk[d].held = Bare \/ FitsKey(desk[d].key, desk[d].held))' /\ (desk[d].op = "create" => desk[d].held = Bare)'
    BY <1>1, <1>2 DEF OnItsWay
  <2>6. (desk[d].op # "create" /\ "select" \notin Tasks(d) => desk[d].held # Bare)'
    BY <1>1, <1>2, <2>2 DEF OnItsWay
  <2>7. (DOMAIN desk[d].rest \subseteq Of(on) \ {Element(d)})' /\ ("move_rest" \notin Tasks(d) => DOMAIN desk[d].rest = {})'
    BY <1>1, <1>2, <2>2 DEF OnItsWay
  <2>8. (desk[d].op = "create" /\ "save" \in Tasks(d) => rows[Element(d)] = Unborn)'
    BY <1>1, <2>2, <2>3
  <2> QED BY <2>4, <2>5, <2>6, <2>7, <2>8 DEF OnItsWay
<1>4. ASSUME d \notin late' PROVE HoldsCurrent(d)'
  <2>1. d \notin late /\ \A c \in Editors : ~GetsLate(d, c)
    BY <1>1, <1>4, StaysLate
  <2>2. ASSUME NEW e \in Of(on), Holds(d, e) PROVE rows'[e] = rows[e]
    <3>1. e \in Elements
      BY DEF Of
    <3>2. ASSUME rows'[e] # rows[e] PROVE FALSE
      <4>1. PICK c \in Editors : Wrote(c, e)
        BY <3>1, <3>2 DEF Effects
      <4> QED BY <2>1, <2>2, <3>2, <4>1 DEF Wrote, GetsLate
    <3> QED BY <3>2
  <2>3. desk[d].todo # << >>
    BY <1>2, TodoIs DEF OnItsWay
  <2>4. ASSUME Writing(d), desk[d].held # Bare
        PROVE  Current(Element(d), desk[d].held[Element(d)]) /\ rows'[Element(d)] = rows[Element(d)]
    <3>1. Current(Element(d), desk[d].held[Element(d)])
      BY <1>2, <2>1, <2>4 DEF HoldsCurrent
    <3>2. desk[d].op # "read"
      <4>1. LeavesOn(desk[d].op, Element(d), desk[d].todo)
        BY <1>2, AllLeave DEF OnItsWay
      <4> QED BY <2>4, <4>1, TasksAre DEF LeavesOn, Writing
    <3>3. desk[d].key = Detail(Element(d)) /\ Element(d) \in Of(on) /\ FitsKey(desk[d].key, desk[d].held)
      BY <1>2, <2>4, <3>2 DEF OnItsWay
    <3>4. Element(d) \in DOMAIN desk[d].held
      BY <3>3 DEF FitsKey, Detail
    <3> QED BY <2>2, <2>3, <3>1, <3>3, <3>4 DEF Holds
  <2>5. ASSUME NEW e \in DOMAIN desk[d].rest
        PROVE  Exists(e) /\ desk[d].rest[e] = rows[e] /\ rows'[e] = rows[e]
    <3>1. Exists(e) /\ desk[d].rest[e] = rows[e]
      BY <1>2, <2>1, <2>5 DEF HoldsCurrent
    <3>2. e \in Of(on)
      BY <1>2, <2>5 DEF OnItsWay
    <3> QED BY <2>2, <2>3, <2>5, <3>1, <3>2 DEF Holds
  <2>6. Element(d)' = Element(d) /\ (Writing(d)' <=> Writing(d))
    BY <1>1 DEF Element, Writing, Tasks
  <2>7. ASSUME Writing(d)', desk'[d].held # Bare
        PROVE  Current(Element(d), desk[d].held[Element(d)])'
    <3>1. Current(Element(d), desk[d].held[Element(d)]) /\ rows'[Element(d)] = rows[Element(d)]
      BY <1>1, <2>4, <2>6, <2>7
    <3> QED BY <1>1, <2>6, <3>1 DEF Current, Exists
  <2>8. ASSUME NEW e \in DOMAIN desk'[d].rest PROVE Exists(e)' /\ desk'[d].rest[e] = rows'[e]
    BY <1>1, <2>5, <2>8 DEF Exists
  <2> QED BY <2>7, <2>8 DEF HoldsCurrent
<1> QED BY <1>3, <1>4 DEF HoldsCurrent

LEMMA RequestsKeep ==
  ASSUME ShowInv, Watches, Effects
  PROVE  RequestsFit'
<1> SUFFICES ASSUME NEW d \in Editors, Engaged(d)'
             PROVE  OnItsWay(d)' /\ HoldsFresh(d)' /\ HoldsCurrent(d)'
  BY DEF RequestsFit
<1>1. OnItsWay(d)' /\ HoldsCurrent(d)'
  <2>1. CASE Acts(d)
    BY <2>1 DEF Effects, Progressed
  <2>2. CASE ~Acts(d)
    <3>1. Engaged(d)
      BY <2>2 DEF Acts, Engaged
    <3> QED BY <2>2, <3>1, OthersHold
  <2> QED BY <2>1, <2>2
<1>2. desk'[d].todo # << >>
  <2>1. Lasts(desk'[d].op, Element(d)', desk'[d].todo)
    BY <1>1 DEF OnItsWay
  <2>2. LeavesOn(desk'[d].op, Element(d)', desk'[d].todo)
    BY <2>1, AllLeave
  <2> QED BY <2>2 DEF LeavesOn
<1>3. HoldsFresh(d)'
  <2>1. ASSUME NEW k \in Shelf, k \notin unswept', desk'[d].key = k, "set" \in Tasks(d)', desk'[d].held # Bare
        PROVE  desk'[d].held = Query(k)'
    <3>1. k \in Filled'
      BY <1>2, <2>1 DEF Filled
    <3>2. ~Overtaken(k)'
      BY <2>1, <3>1, StaysSwept
    <3> QED BY <1>2, <2>1, <3>2 DEF Overtaken
  <2> QED BY <2>1 DEF HoldsFresh
<1> QED BY <1>1, <1>3

LEMMA CreatesKeep ==
  ASSUME ShowInv, Effects
  PROVE  CreatesApart'
<1> SUFFICES ASSUME NEW c \in Editors, NEW d \in Editors, c # d, Engaged(c)', Engaged(d)',
                    desk'[c].op = "create", desk'[d].op = "create"
             PROVE  desk'[c].key # desk'[d].key
  BY DEF CreatesApart
<1>1. ASSUME NEW a \in Editors, NEW b \in Editors, a # b, Acts(a), Engaged(a)', Engaged(b)',
             desk'[a].op = "create", desk'[b].op = "create"
      PROVE  desk'[a].key # desk'[b].key
  <2>1. ~Acts(b) /\ Progressed(a)
    BY <1>1 DEF Effects
  <2>2. desk'[b] = desk[b] /\ Engaged(b) /\ desk'[a] # Free
    BY <1>1, <2>1 DEF Acts, Engaged
  <2>3. CASE Engaged(a)
    <3>1. desk'[a].op = desk[a].op /\ desk'[a].key = desk[a].key
      BY <2>1, <2>2, <2>3 DEF Progressed
    <3> QED BY <1>1, <2>2, <2>3, <3>1 DEF ShowInv, CreatesApart
  <2>4. CASE ~Engaged(a)
    BY <1>1, <2>1, <2>2, <2>4 DEF Progressed
  <2> QED BY <2>3, <2>4
<1>2. CASE Acts(c)
  BY <1>1, <1>2
<1>3. CASE Acts(d)
  BY <1>1, <1>3
<1>4. CASE ~Acts(c) /\ ~Acts(d)
  BY <1>4 DEF Acts, Engaged, ShowInv, CreatesApart
<1> QED BY <1>2, <1>3, <1>4

LEMMA ShelfKeeps ==
  ASSUME ShowInv, Effects
  PROVE  ShelfFits'
<1> SUFFICES ASSUME NEW k \in Shelf, shelf'[k] # Bare PROVE FitsKey(k, shelf'[k])
  BY DEF ShelfFits, FitsKey
<1>1. CASE shelf'[k] = shelf[k]
  BY <1>1 DEF ShowInv, ShelfFits
<1>2. CASE WasSet(k)
  BY <1>2 DEF WasSet, ShowInv, RequestsFit, OnItsWay
<1> QED BY <1>1, <1>2 DEF Effects

LEMMA UnbornKeeps ==
  ASSUME ShowInv, Effects
  PROVE  UnbornUnseen'
<1> SUFFICES ASSUME NEW e \in Elements, rows'[e] = Unborn, e # Setting
             PROVE  /\ \A k \in Shelf : shelf'[k] = Bare \/ e \notin DOMAIN shelf'[k]
                    /\ \A c \in Editors : Engaged(c)' =>
                         (desk'[c].held = Bare \/ e \notin DOMAIN desk'[c].held) /\ e \notin DOMAIN desk'[c].rest
  BY DEF UnbornUnseen
<1>1. rows[e] = Unborn
  BY DEF Effects, Wrote
<1>2. ASSUME NEW k \in Shelf, shelf'[k] # Bare PROVE e \notin DOMAIN shelf'[k]
  <2>1. CASE shelf'[k] = shelf[k]
    BY <1>1, <1>2, <2>1 DEF ShowInv, UnbornUnseen
  <2>2. CASE WasSet(k)
    BY <1>1, <1>2, <2>2 DEF WasSet, ShowInv, UnbornUnseen
  <2> QED BY <1>2, <2>1, <2>2 DEF Effects
<1>3. ASSUME NEW c \in Editors, Engaged(c)'
      PROVE (desk'[c].held = Bare \/ e \notin DOMAIN desk'[c].held) /\ e \notin DOMAIN desk'[c].rest
  <2>1. CASE Acts(c)
    <3>1. Progressed(c)
      BY <2>1 DEF Effects
    <3> QED BY <1>3, <3>1 DEF Progressed
  <2>2. CASE ~Acts(c)
    BY <1>1, <1>3, <2>2 DEF Acts, Engaged, ShowInv, UnbornUnseen
  <2> QED BY <2>1, <2>2
<1> QED BY <1>2, <1>3

LEMMA FreshKeeps ==
  ASSUME ShowInv, Watches, Effects
  PROVE  FreshOrCleared'
<1> SUFFICES ASSUME NEW k \in Shelf, k \notin unswept', shelf'[k] # Bare,
                    \A c \in Editors : ~WillClear(c, k)'
             PROVE  shelf'[k] = Query(k)'
  BY DEF FreshOrCleared
<1>1. k \notin unswept /\ ~Missed(k) /\ ~Loses(k)
  BY StaysSwept
<1>2. ASSUME rows' = rows PROVE Query(k)' = Query(k)
  BY <1>2, QuerySame
<1>3. CASE shelf'[k] = shelf[k]
  <2>1. CASE \E d \in Editors : WillClear(d, k)
    <3>1. PICK d \in Editors : WillClear(d, k)
      BY <2>1
    <3>2. k \in ToClear(d) /\ ~Writing(d) /\ Tasks(d) # {}
      BY <3>1 DEF WillClear, ToClear
    <3>3. (k \in ToClear(d))'
      BY <1>1, <3>2 DEF Loses
    <3>4. Engaged(d)
      BY <3>2, TasksAre
    <3>5. Tasks(d)' \subseteq Tasks(d)
      <4>1. CASE ~Acts(d)
        BY <4>1 DEF Acts, Tasks
      <4>2. CASE Acts(d) /\ desk'[d] = Free
        BY <4>2, FreeIs DEF Tasks
      <4>3. CASE Acts(d) /\ desk'[d] # Free
        BY <3>4, <4>3 DEF Effects, Progressed
      <4> QED BY <4>1, <4>2, <4>3
    <3>6. ~Writing(d)'
      BY <3>2, <3>5 DEF Writing
    <3> QED BY <3>3, <3>6 DEF WillClear
  <2>2. CASE ~ \E d \in Editors : WillClear(d, k)
    <3>1. shelf[k] = Query(k) /\ shelf[k] # Bare
      BY <1>1, <1>3, <2>2 DEF ShowInv, FreshOrCleared
    <3>2. CASE rows' = rows
      BY <1>2, <1>3, <3>1, <3>2
    <3>3. CASE rows' # rows
      <4>1. Query(k)' = Query(k)
        BY <1>1, <3>1, <3>3 DEF Effects
      <4> QED BY <1>3, <3>1, <4>1
    <3> QED BY <3>2, <3>3
  <2> QED BY <2>1, <2>2
<1>4. CASE WasSet(k)
  <2>1. PICK c \in Editors : /\ Engaged(c) /\ desk[c].key = k /\ desk[c].held = shelf'[k]
                             /\ desk[c].held # Bare /\ "set" \in Tasks(c)
    BY <1>4 DEF WasSet
  <2>2. HoldsFresh(c)
    BY <2>1 DEF ShowInv, RequestsFit
  <2>3. desk[c].held = Query(k)
    BY <1>1, <2>1, <2>2 DEF HoldsFresh
  <2> QED BY <1>2, <1>4, <2>1, <2>3 DEF WasSet
<1> QED BY <1>3, <1>4 DEF Effects

LEMMA HistoryKeeps ==
  ASSUME ShowInv, Watches, Effects
  PROVE  HistoryFits'
<1>1. /\ blamed' = blamed \cup { e \in Of(on) : rows'[e] # rows[e] /\ \E c \in late : Acts(c) }
      /\ removed' = removed \cup { e \in Of(on) \ {Setting} : rows'[e] = Gone }
      /\ done' = { x \in done : Exists(x[2])' } \cup { x \in (1 .. MaxEdits) \X Of(on) :
           /\ Exists(x[2])' /\ x[1] \in rows'[x[2]].edits
           /\ \E c \in Editors : Acts(c) /\ desk[c] # Free /\ desk[c].edit = x[1] }
  BY DEF Watches
<1>2. Of(on)' = Of(on)
  BY DEF Effects, Of
<1>3. ASSUME NEW e \in Of(on), e \notin blamed', rows'[e] # rows[e]
      PROVE  /\ rows[e] # Gone \/ e = Setting
             /\ Exists(e) /\ Exists(e)' => rows[e].edits \subseteq rows'[e].edits
  <2>1. e \in Elements
    BY DEF Of
  <2>2. PICK c \in Editors : Wrote(c, e)
    BY <1>3, <2>1 DEF Effects
  <2>3. c \notin late
    BY <1>1, <1>3, <2>2 DEF Wrote
  <2> QED BY <2>2, <2>3 DEF Wrote
<1>4. ASSUME NEW x \in done' PROVE x[2] \in Of(on) /\ Exists(x[2])' /\ (x[2] \in blamed' \/ x[1] \in rows'[x[2]].edits)
  <2>1. CASE x \in done /\ Exists(x[2])'
    <3>1. x[2] \in Of(on) /\ Exists(x[2]) /\ (x[2] \in blamed \/ x[1] \in rows[x[2]].edits)
      BY <2>1 DEF ShowInv, HistoryFits
    <3>2. CASE x[2] \in blamed'
      BY <2>1, <3>1, <3>2
    <3>3. CASE x[2] \notin blamed'
      <4>1. x[1] \in rows[x[2]].edits
        BY <1>1, <3>1, <3>3
      <4>2. rows'[x[2]] = rows[x[2]] \/ rows[x[2]].edits \subseteq rows'[x[2]].edits
        BY <1>3, <2>1, <3>1, <3>3
      <4> QED BY <2>1, <3>1, <4>1, <4>2
    <3> QED BY <3>2, <3>3
  <2>2. CASE x \in (1 .. MaxEdits) \X Of(on) /\ Exists(x[2])' /\ x[1] \in rows'[x[2]].edits
    BY <2>2
  <2> QED BY <1>1, <1>4, <2>1, <2>2
<1>5. ASSUME NEW e \in removed' PROVE e \in Of(on) /\ e # Setting /\ (e \in blamed' \/ rows'[e] = Gone)
  <2>1. CASE e \in removed
    <3>1. e \in Of(on) /\ e # Setting /\ (e \in blamed \/ rows[e] = Gone)
      BY <2>1 DEF ShowInv, HistoryFits
    <3> QED BY <1>1, <1>3, <3>1
  <2>2. CASE e \in Of(on) \ {Setting} /\ rows'[e] = Gone
    BY <2>2
  <2> QED BY <1>1, <1>5, <2>1, <2>2
<1> QED BY <1>2, <1>4, <1>5 DEF HistoryFits

LEMMA EffectsKeep ==
  ASSUME ShowInv, Watches, Effects
  PROVE  ShowInv'
<1>1. ShowTyped'
  BY DEF Effects
<1> QED BY <1>1, RequestsKeep, CreatesKeep, ShelfKeeps, UnbornKeeps, FreshKeeps, HistoryKeeps DEF ShowInv

-----------------------------------------------------------------------------
(* One request at a time. *)

\* A step replaces the request of one editor.
LEMMA DeskStep ==
  ASSUME ShowTyped, NEW c \in Editors, NEW q, q = Free \/ RequestTyped(q), desk' = [desk EXCEPT ![c] = q]
  PROVE  /\ desk'[c] = q /\ DOMAIN desk' = Editors
         /\ \A d \in Editors : Acts(d) => d = c
         /\ \A d \in Editors : Engaged(d)' => RequestTyped(desk'[d])
<1>1. desk'[c] = q /\ DOMAIN desk' = Editors /\ \A d \in Editors : d # c => desk'[d] = desk[d]
  BY DEF ShowTyped
<1> QED BY <1>1 DEF Acts, Engaged, ShowTyped

\* A request at a step that it has reached.
LEMMA Going ==
  ASSUME ShowInv, NEW c \in Editors, NEW step, Doing(c, step)
  PROVE  /\ Engaged(c) /\ RequestTyped(desk[c]) /\ OnItsWay(c) /\ HoldsCurrent(c)
         /\ LeavesOn(desk[c].op, Element(c), desk[c].todo)
         /\ Head(desk[c].todo) = step /\ step \in Tasks(c)
         /\ desk[c].key \in Shelf
<1>1. Head(desk[c].todo) = step /\ desk[c].todo # << >>
  BY DEF Doing
<1>2. Engaged(c)
  BY <1>1, FreeIs DEF Engaged
<1>3. RequestTyped(desk[c]) /\ OnItsWay(c) /\ HoldsCurrent(c)
  BY <1>2 DEF ShowInv, ShowTyped, RequestsFit
<1>4. LeavesOn(desk[c].op, Element(c), desk[c].todo)
  BY <1>3, AllLeave DEF OnItsWay
<1>5. step \in Tasks(c)
  BY <1>1, <1>4, TasksAre DEF LeavesOn
<1> QED BY <1>1, <1>2, <1>3, <1>4, <1>5 DEF RequestTyped

\* What is left of a request after a step.
LEMMA AfterIs ==
  ASSUME NEW r, DOMAIN r = Fields, Len(r.todo) \in Nat
  PROVE  /\ Len(r.todo) = 1 => After(r, 1) = Free
         /\ Len(r.todo) # 1 =>
              /\ DOMAIN After(r, 1) = Fields /\ After(r, 1).todo = Left(r.todo)
              /\ After(r, 1).op = r.op /\ After(r, 1).key = r.key /\ After(r, 1).held = r.held
              /\ After(r, 1).rest = r.rest /\ After(r, 1).slug = r.slug /\ After(r, 1).edit = r.edit
         /\ After(r, 1) = Free \/ DOMAIN After(r, 1) = Fields
<1>1. ASSUME Len(r.todo) # 1 PROVE After(r, 1) = [r EXCEPT !.todo = SubSeq(r.todo, 2, Len(r.todo))]
  BY <1>1 DEF After
<1>2. Len(r.todo) = 1 => After(r, 1) = Free
  BY DEF After
<1> QED BY <1>1, <1>2 DEF Fields, Left

\* A request that goes on as it was, but for what it holds.
LEMMA Continues ==
  ASSUME NEW c \in Editors, OnItsWay(c), on' = on, Engaged(c),
         Tasks(c)' \subseteq Tasks(c), desk'[c].op = desk[c].op, desk'[c].key = desk[c].key,
         Lasts(desk[c].op, Element(c), desk'[c].todo),
         desk'[c].held = Bare \/ FitsKey(desk[c].key, desk'[c].held),
         desk[c].op # "create" /\ "select" \notin Tasks(c)' => desk'[c].held # Bare,
         desk[c].op = "create" => desk'[c].held = Bare,
         desk[c].op = "create" /\ "save" \in Tasks(c)' => rows'[Element(c)] = rows[Element(c)],
         DOMAIN desk'[c].rest \subseteq Of(on) \ {Element(c)},
         "move_rest" \notin Tasks(c)' => DOMAIN desk'[c].rest = {},
         HoldsCurrent(c)',
         \A e \in Elements : rows'[e] = Unborn /\ e # Setting =>
           (desk'[c].held = Bare \/ e \notin DOMAIN desk'[c].held) /\ e \notin DOMAIN desk'[c].rest
  PROVE  Progressed(c)
<1>1. Element(c)' = Element(c) /\ Of(on)' = Of(on)
  BY DEF Element, Of
<1>2. OnItsWay(c)'
  <2>1. Lasts(desk[c].op, Element(c), desk[c].todo)'
    BY <1>1
  <2>2. (desk[c].op # "read" => desk[c].key = Detail(Element(c)) /\ Element(c) \in Of(on))'
    BY <1>1 DEF OnItsWay
  <2>3. (desk[c].held = Bare \/ FitsKey(desk[c].key, desk[c].held))'
    BY DEF FitsKey
  <2>4. (desk[c].op # "create" /\ "select" \notin Tasks(c) => desk[c].held # Bare)'
        /\ (desk[c].op = "create" => desk[c].held = Bare)'
    OBVIOUS
  <2>5. (desk[c].op = "create" /\ "save" \in Tasks(c) => rows[Element(c)] = Unborn)'
    BY <1>1 DEF OnItsWay
  <2>6. (DOMAIN desk[c].rest \subseteq Of(on) \ {Element(c)})'
        /\ ("move_rest" \notin Tasks(c) => DOMAIN desk[c].rest = {})'
    BY <1>1
  <2> QED BY <2>1, <2>2, <2>3, <2>4, <2>5, <2>6 DEF OnItsWay
<1>3. \A e \in Elements : rows'[e] = Unborn /\ e # Setting =>
        /\ desk'[c].held = Bare \/ e \notin DOMAIN desk'[c].held
        /\ e \notin DOMAIN desk'[c].rest
  OBVIOUS
<1> QED BY <1>2, <1>3 DEF Progressed

\* A step that is done leaves the others to do.
LEMMA StepTaken ==
  ASSUME ShowInv, NEW c \in Editors, NEW step, Doing(c, step),
         NEW r, RequestTyped(r), r.todo = desk[c].todo, r.op = desk[c].op, r.key = desk[c].key,
         desk' = [desk EXCEPT ![c] = After(r, 1)]
  PROVE  /\ DOMAIN desk' = Editors
         /\ \A d \in Editors : Acts(d) => d = c
         /\ \A d \in Editors : Engaged(d)' => RequestTyped(desk'[d])
         /\ Len(desk[c].todo) = 1 => desk'[c] = Free
         /\ Len(desk[c].todo) # 1 =>
              /\ desk'[c].op = desk[c].op /\ desk'[c].key = desk[c].key
              /\ desk'[c].held = r.held /\ desk'[c].rest = r.rest
              /\ desk'[c].slug = r.slug /\ desk'[c].edit = r.edit
              /\ Lasts(desk[c].op, Element(c), desk'[c].todo)
              /\ Tasks(c)' = Steps(Left(desk[c].todo)) /\ Tasks(c) = {step} \cup Tasks(c)'
<1> DEFINE q == After(r, 1)
<1>1. LeavesOn(desk[c].op, Element(c), desk[c].todo) /\ Head(desk[c].todo) = step
  BY Going
<1>2. Len(desk[c].todo) \in Nat /\ DOMAIN r = Fields
  BY <1>1 DEF LeavesOn, RequestTyped
<1>3. /\ Len(desk[c].todo) = 1 => q = Free
      /\ Len(desk[c].todo) # 1 =>
           /\ DOMAIN q = Fields /\ q.todo = Left(desk[c].todo)
           /\ q.op = desk[c].op /\ q.key = desk[c].key /\ q.held = r.held
           /\ q.rest = r.rest /\ q.slug = r.slug /\ q.edit = r.edit
  BY <1>2, AfterIs
<1> HIDE DEF q
<1>4. q = Free \/ RequestTyped(q)
  BY <1>3 DEF RequestTyped
<1>5. desk' = [desk EXCEPT ![c] = q]
  BY DEF q
<1>6. /\ desk'[c] = q /\ DOMAIN desk' = Editors
      /\ \A d \in Editors : Acts(d) => d = c
      /\ \A d \in Editors : Engaged(d)' => RequestTyped(desk'[d])
  <2>1. ShowTyped
    BY DEF ShowInv
  <2> QED BY <1>4, <1>5, <2>1, DeskStep
<1>7. Tasks(c)' = Steps(desk'[c].todo) /\ Tasks(c) = Steps(desk[c].todo)
  BY DEF Tasks, Steps
<1>8. ASSUME Len(desk[c].todo) # 1
      PROVE  /\ Lasts(desk[c].op, Element(c), q.todo)
             /\ Tasks(c)' = Steps(Left(desk[c].todo)) /\ Tasks(c) = {step} \cup Tasks(c)'
  BY <1>1, <1>3, <1>6, <1>7, <1>8 DEF LeavesOn
<1> QED BY <1>3, <1>6, <1>8

\* A step that changes neither what is held nor the rows.
LEMMA GoesOn ==
  ASSUME ShowInv, Watches, NEW c \in Editors, NEW step, Doing(c, step), step # "select",
         step = "move_rest" => DOMAIN desk[c].rest = {},
         desk' = [desk EXCEPT ![c] = After(@, 1)], rows' = rows, on' = on
  PROVE  /\ DOMAIN desk' = Editors
         /\ \A d \in Editors : Acts(d) => d = c
         /\ \A d \in Editors : Engaged(d)' => RequestTyped(desk'[d])
         /\ Progressed(c)
<1>1. /\ Engaged(c) /\ RequestTyped(desk[c]) /\ OnItsWay(c) /\ HoldsCurrent(c)
      /\ step \in Tasks(c)
  BY Going
<1>2. desk' = [desk EXCEPT ![c] = After(desk[c], 1)]
  OBVIOUS
<1>3. /\ DOMAIN desk' = Editors
      /\ \A d \in Editors : Acts(d) => d = c
      /\ \A d \in Editors : Engaged(d)' => RequestTyped(desk'[d])
      /\ Len(desk[c].todo) = 1 => desk'[c] = Free
      /\ Len(desk[c].todo) # 1 =>
           /\ desk'[c].op = desk[c].op /\ desk'[c].key = desk[c].key
           /\ desk'[c].held = desk[c].held /\ desk'[c].rest = desk[c].rest
           /\ Lasts(desk[c].op, Element(c), desk'[c].todo)
           /\ Tasks(c) = {step} \cup Tasks(c)'
  BY <1>1, <1>2, StepTaken
<1>4. CASE desk'[c] = Free
  BY <1>1, <1>3, <1>4 DEF Progressed, Engaged
<1>5. CASE desk'[c] # Free
  <2>1. /\ desk'[c].op = desk[c].op /\ desk'[c].key = desk[c].key
        /\ desk'[c].held = desk[c].held /\ desk'[c].rest = desk[c].rest
        /\ Lasts(desk[c].op, Element(c), desk'[c].todo)
        /\ Tasks(c) = {step} \cup Tasks(c)'
    BY <1>3, <1>5
  <2>2. desk'[c].held = Bare \/ FitsKey(desk[c].key, desk'[c].held)
    BY <1>1, <2>1 DEF OnItsWay
  <2>3. desk[c].op # "create" /\ "select" \notin Tasks(c)' => desk'[c].held # Bare
    BY <1>1, <2>1 DEF OnItsWay
  <2>4. desk[c].op = "create" => desk'[c].held = Bare
    BY <1>1, <2>1 DEF OnItsWay
  <2>5. DOMAIN desk'[c].rest \subseteq Of(on) \ {Element(c)}
    BY <1>1, <2>1 DEF OnItsWay
  <2>6. "move_rest" \notin Tasks(c)' => DOMAIN desk'[c].rest = {}
    BY <1>1, <2>1 DEF OnItsWay
  <2>7. HoldsCurrent(c)'
    <3>1. c \notin late' => c \notin late
      BY <1>5, StaysLate
    <3>2. ASSUME c \notin late'
          PROVE  /\ Writing(c) /\ desk[c].held # Bare => Current(Element(c), desk[c].held[Element(c)])
                 /\ \A e \in DOMAIN desk[c].rest : Exists(e) /\ desk[c].rest[e] = rows[e]
      BY <1>1, <3>1, <3>2 DEF HoldsCurrent
    <3>3. Writing(c)' => Writing(c)
      BY <2>1 DEF Writing
    <3>4. Element(c)' = Element(c)
      BY <2>1 DEF Element
    <3>5. ASSUME c \notin late', Writing(c)', desk'[c].held # Bare
          PROVE  Current(Element(c), desk[c].held[Element(c)])'
      BY <2>1, <3>2, <3>3, <3>4, <3>5 DEF Current, Exists
    <3>6. ASSUME c \notin late', NEW e \in DOMAIN desk'[c].rest PROVE Exists(e)' /\ desk'[c].rest[e] = rows'[e]
      BY <2>1, <3>2, <3>6 DEF Exists
    <3> QED BY <3>5, <3>6 DEF HoldsCurrent
  <2>8. \A e \in Elements : rows'[e] = Unborn /\ e # Setting =>
          (desk'[c].held = Bare \/ e \notin DOMAIN desk'[c].held) /\ e \notin DOMAIN desk'[c].rest
    BY <1>1, <2>1 DEF ShowInv, UnbornUnseen
  <2>9. rows'[Element(c)] = rows[Element(c)]
    OBVIOUS
  <2> QED BY <1>1, <1>3, <2>1, <2>2, <2>3, <2>4, <2>5, <2>6, <2>7, <2>8, <2>9, Continues
<1> QED BY <1>3, <1>4, <1>5

\* A request that ends.
LEMMA Ends ==
  ASSUME ShowInv, NEW c \in Editors, desk' = [desk EXCEPT ![c] = Free]
  PROVE  /\ DOMAIN desk' = Editors
         /\ \A d \in Editors : Acts(d) => d = c
         /\ \A d \in Editors : Engaged(d)' => RequestTyped(desk'[d])
         /\ Progressed(c)
<1>1. ShowTyped
  BY DEF ShowInv
<1>2. /\ desk'[c] = Free /\ DOMAIN desk' = Editors
      /\ \A d \in Editors : Acts(d) => d = c
      /\ \A d \in Editors : Engaged(d)' => RequestTyped(desk'[d])
  BY <1>1, DeskStep
<1> QED BY <1>2 DEF Progressed, Engaged

\* A step that leaves the rows.
LEMMA RowsStay ==
  ASSUME ShowInv, NEW c, rows' = rows, on' = on, edits' \in 0 .. MaxEdits,
         DOMAIN desk' = Editors,
         \A d \in Editors : Acts(d) => d = c,
         \A d \in Editors : Engaged(d)' => RequestTyped(desk'[d]),
         c \in Editors => Progressed(c),
         DOMAIN shelf' = Shelf,
         \A k \in Shelf : shelf'[k] = shelf[k] \/ shelf'[k] = Bare \/ WasSet(k)
  PROVE  Effects
<1>1. ASSUME NEW k \in Shelf PROVE shelf'[k] = Bare \/ IsCopy(shelf'[k])
  <2>1. CASE WasSet(k)
    BY <2>1 DEF WasSet, ShowInv, ShowTyped, RequestTyped
  <2>2. CASE shelf'[k] = shelf[k] \/ shelf'[k] = Bare
    BY <2>2 DEF ShowInv, ShowTyped
  <2> QED BY <2>1, <2>2
<1>2. ShowTyped'
  BY <1>1 DEF ShowInv, ShowTyped
<1> QED BY <1>2 DEF Effects

LEMMA LapsesKeep ==
  ASSUME ShowInv, Watches, on' = on, NEW k \in Shelf, Lapses(k)
  PROVE  Effects
<1>1. /\ desk' = desk /\ rows' = rows /\ edits' = edits
      /\ shelf' = [shelf EXCEPT ![k] = Bare]
  BY DEF Lapses
<1>2. DOMAIN shelf' = Shelf /\ \A j \in Shelf : shelf'[j] = shelf[j] \/ shelf'[j] = Bare
  BY <1>1 DEF ShowInv, ShowTyped
<1>3. \A d \in Editors : ~Acts(d)
  BY <1>1 DEF Acts
<1>4. /\ DOMAIN desk' = Editors /\ edits' \in 0 .. MaxEdits
      /\ \A d \in Editors : Engaged(d)' => RequestTyped(desk'[d])
  BY <1>1 DEF ShowInv, ShowTyped, Engaged
<1>5. ShowTyped'
  BY <1>1, <1>2, <1>4 DEF ShowInv, ShowTyped
<1> QED BY <1>1, <1>2, <1>3, <1>5 DEF Effects

LEMMA EndsKeep ==
  ASSUME ShowInv, on' = on, NEW c \in Editors, NotFound(c) \/ Conflicts(c) \/ Breaks(c)
  PROVE  Effects
<1>1. /\ desk' = [desk EXCEPT ![c] = Free]
      /\ rows' = rows /\ shelf' = shelf /\ edits' = edits
  BY DEF NotFound, Conflicts, Breaks
<1>2. /\ DOMAIN desk' = Editors
      /\ \A d \in Editors : Acts(d) => d = c
      /\ \A d \in Editors : Engaged(d)' => RequestTyped(desk'[d])
      /\ Progressed(c)
  BY <1>1, Ends
<1>3. DOMAIN shelf' = Shelf /\ edits' \in 0 .. MaxEdits
  BY <1>1 DEF ShowInv, ShowTyped
<1> QED BY <1>1, <1>2, <1>3, RowsStay

LEMMA SetsKeep ==
  ASSUME ShowInv, Watches, on' = on, NEW c \in Editors, Sets(c)
  PROVE  Effects
<1>1. /\ Doing(c, "set") /\ rows' = rows /\ edits' = edits
      /\ shelf' \in {shelf, [shelf EXCEPT ![desk[c].key] = desk[c].held]}
      /\ desk' = [desk EXCEPT ![c] = After(@, 1)]
  BY DEF Sets
<1>2. /\ DOMAIN desk' = Editors
      /\ \A d \in Editors : Acts(d) => d = c
      /\ \A d \in Editors : Engaged(d)' => RequestTyped(desk'[d])
      /\ Progressed(c)
  BY <1>1, GoesOn
<1>3. Engaged(c) /\ "set" \in Tasks(c) /\ desk[c].key \in Shelf
  BY <1>1, Going
<1>4. DOMAIN shelf' = Shelf /\ edits' \in 0 .. MaxEdits
  BY <1>1 DEF ShowInv, ShowTyped
<1>5. \A k \in Shelf : shelf'[k] = shelf[k] \/ shelf'[k] = Bare \/ WasSet(k)
  BY <1>1, <1>3 DEF ShowInv, ShowTyped, WasSet
<1> QED BY <1>1, <1>2, <1>4, <1>5, RowsStay

LEMMA ClearsKeep ==
  ASSUME ShowInv, Watches, on' = on, NEW c \in Editors, Clears(c)
  PROVE  Effects
<1>1. PICK step \in {"clear", "clear_lists"} : Doing(c, step)
  BY DEF Clears
<1>2. /\ rows' = rows /\ edits' = edits
      /\ desk' = [desk EXCEPT ![c] = After(@, 1)]
  BY DEF Clears
<1>3. PICK swept : shelf' = [k \in Shelf |-> IF k \in swept THEN Bare ELSE shelf[k]]
  BY DEF Clears
<1>4. /\ DOMAIN desk' = Editors
      /\ \A d \in Editors : Acts(d) => d = c
      /\ \A d \in Editors : Engaged(d)' => RequestTyped(desk'[d])
      /\ Progressed(c)
  BY <1>1, <1>2, GoesOn
<1>5. DOMAIN shelf' = Shelf /\ edits' \in 0 .. MaxEdits
  BY <1>2, <1>3 DEF ShowInv, ShowTyped
<1>6. \A k \in Shelf : shelf'[k] = shelf[k] \/ shelf'[k] = Bare \/ WasSet(k)
  BY <1>3
<1> QED BY <1>2, <1>4, <1>5, <1>6, RowsStay

LEMMA MovedAllKeeps ==
  ASSUME ShowInv, Watches, on' = on, NEW c \in Editors, MovedAll(c)
  PROVE  Effects
<1>1. /\ Doing(c, "move_rest") /\ rows' = rows /\ shelf' = shelf /\ edits' = edits
      /\ desk' = [desk EXCEPT ![c] = After(@, 1)]
      /\ desk[c].rest = Nobody
  BY DEF MovedAll
<1>2. DOMAIN desk[c].rest = {}
  BY <1>1 DEF Nobody
<1>3. /\ DOMAIN desk' = Editors
      /\ \A d \in Editors : Acts(d) => d = c
      /\ \A d \in Editors : Engaged(d)' => RequestTyped(desk'[d])
      /\ Progressed(c)
  BY <1>1, <1>2, GoesOn
<1>4. DOMAIN shelf' = Shelf /\ edits' \in 0 .. MaxEdits
  BY <1>1 DEF ShowInv, ShowTyped
<1> QED BY <1>1, <1>3, <1>4, RowsStay

LEMMA SelectsKeep ==
  ASSUME ShowInv, Watches, on' = on, NEW c \in Editors, Selects(c)
  PROVE  Effects
<1> DEFINE k == desk[c].key
           found == Query(desk[c].key)
           r == [desk[c] EXCEPT !.held = found]
<1>1. /\ Doing(c, "select") /\ Finds(k)
      /\ rows' = rows /\ shelf' = shelf /\ edits' = edits
      /\ desk' = [desk EXCEPT ![c] = After(r, 1)]
  BY DEF Selects
<1>2. /\ Engaged(c) /\ RequestTyped(desk[c]) /\ OnItsWay(c) /\ HoldsCurrent(c)
      /\ LeavesOn(desk[c].op, Element(c), desk[c].todo)
      /\ Head(desk[c].todo) = "select" /\ k \in Shelf
  BY <1>1, Going
<1>3. ShowTyped
  BY DEF ShowInv
<1>4. /\ IsCopy(found) /\ found # Bare /\ FitsKey(k, found)
      /\ \A e \in DOMAIN found : Exists(e) \/ e = Setting
  BY <1>1, <1>2, <1>3, QueryTyped
<1>5. \A e \in DOMAIN found : found[e] = IF Exists(e) THEN rows[e] ELSE Blank
  BY <1>2, QueryIs
<1> HIDE DEF found
<1>6. /\ RequestTyped(r) /\ r.todo = desk[c].todo /\ r.op = desk[c].op /\ r.key = desk[c].key
      /\ r.held = found /\ r.rest = desk[c].rest
  BY <1>2, <1>4 DEF RequestTyped, Fields
<1> HIDE DEF r
<1>7. /\ DOMAIN desk' = Editors
      /\ \A d \in Editors : Acts(d) => d = c
      /\ \A d \in Editors : Engaged(d)' => RequestTyped(desk'[d])
      /\ Len(desk[c].todo) = 1 => desk'[c] = Free
      /\ Len(desk[c].todo) # 1 =>
           /\ desk'[c].op = desk[c].op /\ desk'[c].key = desk[c].key
           /\ desk'[c].held = found /\ desk'[c].rest = desk[c].rest
           /\ Lasts(desk[c].op, Element(c), desk'[c].todo)
           /\ Tasks(c) = {"select"} \cup Tasks(c)'
  BY <1>1, <1>6, StepTaken
<1>8. Progressed(c)
  <2>1. CASE desk'[c] = Free
    BY <1>2, <2>1 DEF Progressed, Engaged
  <2>2. CASE desk'[c] # Free
    <3>1. /\ desk'[c].op = desk[c].op /\ desk'[c].key = desk[c].key
          /\ desk'[c].held = found /\ desk'[c].rest = desk[c].rest
          /\ Lasts(desk[c].op, Element(c), desk'[c].todo)
          /\ Tasks(c) = {"select"} \cup Tasks(c)'
      BY <1>7, <2>2
    <3>2. desk[c].op # "create"
      <4>1. Lasts(desk[c].op, Element(c), desk[c].todo)
        BY <1>2 DEF OnItsWay
      <4> QED BY <1>2, <4>1, WritersLeave
    <3>3. DOMAIN desk'[c].rest \subseteq Of(on) \ {Element(c)}
      BY <1>2, <3>1 DEF OnItsWay
    <3>4. "move_rest" \notin Tasks(c)' => DOMAIN desk'[c].rest = {}
      BY <1>2, <3>1 DEF OnItsWay
    <3>5. HoldsCurrent(c)'
      <4>1. c \notin late' => c \notin late
        BY <2>2, StaysLate
      <4>2. Element(c)' = Element(c)
        BY <3>1 DEF Element
      <4>5. desk'[c].held = found'
        BY <1>1, <3>1 DEF found, Query, Present, Exists
      <4>3. ASSUME Writing(c)' PROVE Current(Element(c), found[Element(c)])'
        <5>1. Writing(c)
          BY <3>1, <4>3 DEF Writing
        <5>2. desk[c].op # "read"
          BY <1>2, <5>1, TasksAre DEF Writing, LeavesOn
        <5>3. k = Detail(Element(c))
          BY <1>2, <5>2 DEF OnItsWay
        <5>4. Element(c) \in DOMAIN found
          BY <1>4, <5>3 DEF FitsKey, Detail
        <5>5. found[Element(c)] = IF Exists(Element(c)) THEN rows[Element(c)] ELSE Blank
          BY <1>5, <5>4
        <5>6. Exists(Element(c)) \/ Element(c) = Setting
          BY <1>4, <5>4
        <5>7. found' = found
          BY <3>1, <4>5
        <5> QED BY <1>1, <4>2, <5>5, <5>6, <5>7 DEF Current, Exists
      <4>4. ASSUME c \notin late', NEW e \in DOMAIN desk'[c].rest PROVE Exists(e)' /\ desk'[c].rest[e] = rows'[e]
        BY <1>1, <1>2, <3>1, <4>1, <4>4 DEF Exists, HoldsCurrent
      <4> QED BY <4>3, <4>4, <4>5 DEF HoldsCurrent
    <3>6. \A e \in Elements : rows'[e] = Unborn /\ e # Setting =>
            (desk'[c].held = Bare \/ e \notin DOMAIN desk'[c].held) /\ e \notin DOMAIN desk'[c].rest
      BY <1>1, <1>2, <1>4, <3>1 DEF ShowInv, UnbornUnseen, Exists
    <3>7. /\ desk'[c].held = Bare \/ FitsKey(desk[c].key, desk'[c].held)
          /\ desk'[c].held # Bare /\ Tasks(c)' \subseteq Tasks(c)
      BY <1>4, <3>1
    <3> QED BY <1>2, <3>1, <3>2, <3>3, <3>4, <3>5, <3>6, <3>7, Continues
  <2> QED BY <2>1, <2>2
<1>9. DOMAIN shelf' = Shelf /\ edits' \in 0 .. MaxEdits
  BY <1>1 DEF ShowInv, ShowTyped
<1> QED BY <1>1, <1>7, <1>8, <1>9, RowsStay

\* A key that had an entry spares the request its query.
LEMMA ServedIs ==
  ASSUME NEW r, DOMAIN r = Fields, Len(r.todo) \in Nat, NEW n \in {2, 3}, Len(r.todo) = n \/ n = 3
  PROVE  /\ Len(r.todo) = n => After(r, n) = Free
         /\ Len(r.todo) # n =>
              /\ DOMAIN After(r, n) = Fields /\ After(r, n).todo = LeftOfThree(r.todo)
              /\ After(r, n).op = r.op /\ After(r, n).key = r.key /\ After(r, n).held = r.held
              /\ After(r, n).rest = r.rest /\ After(r, n).slug = r.slug /\ After(r, n).edit = r.edit
<1>1. ASSUME Len(r.todo) # n PROVE n = 3 /\ After(r, n) = [r EXCEPT !.todo = SubSeq(r.todo, 4, Len(r.todo))]
  <2>1. n = 3
    BY <1>1
  <2>2. After(r, 3) = [r EXCEPT !.todo = SubSeq(r.todo, 4, Len(r.todo))]
    BY <1>1, <2>1 DEF After
  <2> QED BY <2>1, <2>2
<1>2. Len(r.todo) = n => After(r, n) = Free
  BY DEF After
<1> QED BY <1>1, <1>2 DEF Fields, LeftOfThree

LEMMA ServedGoesOn ==
  ASSUME ShowInv, Watches, on' = on, rows' = rows, NEW c \in Editors, Doing(c, "get"),
         shelf[desk[c].key] # Bare, desk[c].op # "read",
         desk' = [desk EXCEPT ![c] = After([desk[c] EXCEPT !.held = shelf[desk[c].key]], 3)]
  PROVE  /\ DOMAIN desk' = Editors
         /\ \A d \in Editors : Acts(d) => d = c
         /\ \A d \in Editors : Engaged(d)' => RequestTyped(desk'[d])
         /\ Progressed(c)
<1> DEFINE e == Element(c)
           k == desk[c].key
           r == [desk[c] EXCEPT !.held = shelf[desk[c].key]]
           q == After(r, 3)
<1>1. /\ Engaged(c) /\ RequestTyped(desk[c]) /\ OnItsWay(c) /\ HoldsCurrent(c)
      /\ LeavesOn(desk[c].op, Element(c), desk[c].todo)
      /\ Head(desk[c].todo) = "get" /\ k \in Shelf
  BY Going
<1>2. /\ IsCopy(shelf[k]) /\ FitsKey(k, shelf[k])
      /\ k = Detail(e) /\ e \in Of(on) /\ e \in Elements
  BY <1>1 DEF ShowInv, ShowTyped, ShelfFits, OnItsWay, Of
<1>3. /\ RequestTyped(r) /\ r.todo = desk[c].todo /\ r.op = desk[c].op /\ r.key = desk[c].key
      /\ r.held = shelf[k] /\ r.rest = desk[c].rest /\ DOMAIN r = Fields
  BY <1>1, <1>2 DEF RequestTyped, Fields
<1> HIDE DEF r, e
<1>4. /\ Len(desk[c].todo) \in Nat /\ Len(desk[c].todo) > 3
      /\ Lasts(desk[c].op, e, LeftOfThree(desk[c].todo)) /\ Steps(LeftOfThree(desk[c].todo)) \subseteq Tasks(c)
      /\ "select" \notin Steps(LeftOfThree(desk[c].todo)) /\ "set" \notin Steps(LeftOfThree(desk[c].todo))
      /\ "move_rest" \in Tasks(c) => "move_rest" \in Steps(LeftOfThree(desk[c].todo))
      /\ desk[c].op # "create"
  <2>1. Lasts(desk[c].op, e, desk[c].todo) /\ Tasks(c) = Steps(desk[c].todo)
    BY <1>1, TasksAre DEF OnItsWay, e
  <2>2. Len(desk[c].todo) \in Nat /\ Head(desk[c].todo) = "get"
    BY <1>1 DEF LeavesOn
  <2>3. PICK t : t = desk[c].todo
    OBVIOUS
  <2>4. PICK op : op = desk[c].op
    OBVIOUS
  <2>5. Lasts(op, e, t) /\ Head(t) = "get" /\ op # "read"
    BY <2>1, <2>2, <2>3, <2>4
  <2>6. /\ Len(t) > 3 /\ Lasts(op, e, LeftOfThree(t)) /\ Steps(LeftOfThree(t)) \subseteq Steps(t)
        /\ "select" \notin Steps(LeftOfThree(t)) /\ "set" \notin Steps(LeftOfThree(t))
        /\ "move_rest" \in Steps(t) => "move_rest" \in Steps(LeftOfThree(t))
        /\ op # "create"
    BY <2>5, FoundLeaves
  <2> QED BY <2>1, <2>2, <2>3, <2>4, <2>6
<1>5. /\ DOMAIN q = Fields /\ q.todo = LeftOfThree(desk[c].todo)
      /\ q.op = r.op /\ q.key = r.key /\ q.held = r.held
      /\ q.rest = r.rest /\ q.slug = r.slug /\ q.edit = r.edit
  <2>1. Len(r.todo) \in Nat /\ Len(r.todo) # 3 /\ DOMAIN r = Fields
    <3>1. r.todo = desk[c].todo /\ DOMAIN r = Fields
      BY <1>3
    <3>2. Len(desk[c].todo) \in Nat /\ Len(desk[c].todo) # 3
      <4>1. \A n \in Nat : n > 3 => n # 3
        OBVIOUS
      <4>2. Len(desk[c].todo) \in Nat /\ Len(desk[c].todo) > 3
        BY <1>4
      <4> QED BY <4>1, <4>2, Zenon
    <3> QED BY <3>1, <3>2
  <2>2. /\ DOMAIN After(r, 3) = Fields /\ After(r, 3).todo = LeftOfThree(r.todo)
        /\ After(r, 3).op = r.op /\ After(r, 3).key = r.key /\ After(r, 3).held = r.held
        /\ After(r, 3).rest = r.rest /\ After(r, 3).slug = r.slug /\ After(r, 3).edit = r.edit
    BY <2>1, ServedIs
  <2> QED BY <1>3, <2>2
<1>6. desk' = [desk EXCEPT ![c] = q]
  BY DEF r
<1> HIDE DEF q
<1>7. RequestTyped(q)
  BY <1>3, <1>5 DEF RequestTyped
<1>8. /\ desk'[c] = q /\ DOMAIN desk' = Editors
      /\ \A d \in Editors : Acts(d) => d = c
      /\ \A d \in Editors : Engaged(d)' => RequestTyped(desk'[d])
  <2>1. ShowTyped
    BY DEF ShowInv
  <2> QED BY <1>6, <1>7, <2>1, DeskStep
<1>9. /\ desk'[c].op = desk[c].op /\ desk'[c].key = k
      /\ desk'[c].held = shelf[k] /\ desk'[c].rest = desk[c].rest
      /\ Lasts(desk[c].op, e, desk'[c].todo)
      /\ Tasks(c)' \subseteq Tasks(c) /\ "select" \notin Tasks(c)'
      /\ "move_rest" \in Tasks(c) => "move_rest" \in Tasks(c)'
  <2>1. Tasks(c)' = Steps(q.todo)
    BY <1>8 DEF Tasks, Steps
  <2> QED BY <1>3, <1>4, <1>5, <1>8, <2>1
<1>10. desk'[c] # Free /\ Acts(c)
  <2>1. "select" \in Tasks(c)
    <3>1. "select" \in Steps(Left(desk[c].todo)) /\ Steps(desk[c].todo) = {"get"} \cup Steps(Left(desk[c].todo))
      BY <1>1 DEF LeavesOn
    <3> QED BY <3>1, TasksAre
  <2>2. desk'[c] # desk[c]
    BY <1>9, <2>1 DEF Tasks
  <2> QED BY <1>5, <1>8, <2>2, FreeIs DEF Acts
<1>11. HoldsCurrent(c)'
  <2>1. ASSUME c \notin late' PROVE c \notin late /\ ~ServedLate(c)
    BY <1>10, <2>1, StaysLate
  <2>2. Element(c)' = e
    BY <1>9 DEF Element, e
  <2>3. ASSUME c \notin late', Writing(c)' PROVE Current(e, shelf[k][e])
    <3>1. Writing(c)
      BY <1>9, <2>3 DEF Writing
    <3>2. k \notin unswept /\ \A d \in Editors : d # c => k \notin ToClear(d)
      BY <1>10, <2>1, <2>3 DEF ServedLate
    <3>3. shelf[k] = Query(k)
      BY <1>1, <3>1, <3>2 DEF ShowInv, FreshOrCleared, WillClear
    <3>4. e \in DOMAIN shelf[k]
      BY <1>2 DEF FitsKey, Detail
    <3>5. /\ shelf[k][e] = IF Exists(e) THEN rows[e] ELSE Blank
          /\ Exists(e) \/ e = Setting
      <4>1. ShowTyped
        BY DEF ShowInv
      <4> QED BY <1>1, <3>3, <3>4, <4>1, QueryIs, QueryTyped
    <3> QED BY <3>5 DEF Current
  <2>4. ASSUME c \notin late', NEW f \in DOMAIN desk'[c].rest PROVE Exists(f)' /\ desk'[c].rest[f] = rows'[f]
    BY <1>1, <1>9, <2>1, <2>4 DEF Exists, HoldsCurrent
  <2>5. ASSUME c \notin late', Writing(c)' PROVE Current(Element(c), desk[c].held[Element(c)])'
    BY <1>9, <2>2, <2>3, <2>5 DEF Current, Exists
  <2> QED BY <2>4, <2>5 DEF HoldsCurrent
<1>12. \A f \in Elements : rows'[f] = Unborn /\ f # Setting =>
         (desk'[c].held = Bare \/ f \notin DOMAIN desk'[c].held) /\ f \notin DOMAIN desk'[c].rest
  BY <1>1, <1>9 DEF ShowInv, UnbornUnseen
<1>13. /\ desk'[c].held = Bare \/ FitsKey(desk[c].key, desk'[c].held)
       /\ desk'[c].held # Bare /\ Lasts(desk[c].op, Element(c), desk'[c].todo)
  BY <1>2, <1>9 DEF e
<1>14. /\ DOMAIN desk'[c].rest \subseteq Of(on) \ {Element(c)}
       /\ "move_rest" \notin Tasks(c)' => DOMAIN desk'[c].rest = {}
  BY <1>1, <1>9 DEF OnItsWay
<1>15. Progressed(c)
  BY <1>1, <1>4, <1>9, <1>11, <1>12, <1>13, <1>14, Continues
<1> QED BY <1>8, <1>15

LEMMA GetsKeep ==
  ASSUME ShowInv, Watches, on' = on, NEW c \in Editors, Gets(c)
  PROVE  Effects
<1> DEFINE k == desk[c].key
           r == [desk[c] EXCEPT !.held = shelf[desk[c].key]]
<1>1. Doing(c, "get") /\ rows' = rows /\ shelf' = shelf /\ edits' = edits
  BY DEF Gets
<1>2. /\ Engaged(c) /\ RequestTyped(desk[c]) /\ OnItsWay(c)
      /\ LeavesOn(desk[c].op, Element(c), desk[c].todo)
      /\ Head(desk[c].todo) = "get" /\ k \in Shelf
  BY <1>1, Going
<1>3. /\ DOMAIN desk' = Editors
      /\ \A d \in Editors : Acts(d) => d = c
      /\ \A d \in Editors : Engaged(d)' => RequestTyped(desk'[d])
      /\ Progressed(c)
  <2>1. CASE shelf[k] = Bare
    <3>1. desk' = [desk EXCEPT ![c] = After(@, 1)]
      BY <2>1 DEF Gets
    <3> QED BY <1>1, <3>1, GoesOn
  <2>2. CASE shelf[k] # Bare /\ desk[c].op # "read"
    <3>1. Len(desk[c].todo) >= 3
      <4>1. PICK t : t = desk[c].todo
        OBVIOUS
      <4>2. PICK op : op = desk[c].op
        OBVIOUS
      <4>3. Lasts(op, Element(c), t) /\ Head(t) = "get" /\ op # "read" /\ Len(t) \in Nat
        BY <1>2, <2>2, <4>1, <4>2 DEF OnItsWay, LeavesOn
      <4>4. Len(t) > 3
        BY <4>3, FoundLeaves
      <4> QED BY <4>1, <4>3, <4>4
    <3>2. desk' = [desk EXCEPT ![c] = After([desk[c] EXCEPT !.held = shelf[desk[c].key]], 3)]
      BY <2>2, <3>1 DEF Gets
    <3> QED BY <1>1, <2>2, <3>2, ServedGoesOn
  <2>3. CASE shelf[k] # Bare /\ desk[c].op = "read"
    <3> DEFINE onward == IF Len(desk[c].todo) >= 3 THEN 3 ELSE 2
    <3>1. desk' = [desk EXCEPT ![c] = After(r, onward)]
      BY <2>3 DEF Gets
    <3>2. Len(desk[c].todo) \in {2, 3}
      <4>1. PICK t : t = desk[c].todo
        OBVIOUS
      <4>2. Lasts("read", Element(c), t) /\ Head(t) = "get"
        BY <1>2, <2>3, <4>1 DEF OnItsWay
      <4>3. t \in Reads
        BY <4>2 DEF Lasts
      <4>4. t \in {<< "get", "select", "set" >>, << "get", "select" >>}
        BY <4>2, <4>3, Cut1, Cut2 DEF Reads
      <4> QED BY <4>1, <4>4, Cut2, Cut3
    <3>3. r.todo = desk[c].todo
      BY <1>2 DEF RequestTyped, Fields
    <3>4. Len(r.todo) = onward
      <4>1. ASSUME NEW n \in {2, 3} PROVE (IF n >= 3 THEN 3 ELSE 2) = n
        OBVIOUS
      <4>2. PICK n \in {2, 3} : n = Len(desk[c].todo)
        BY <3>2
      <4>3. onward = n
        BY <4>1, <4>2
      <4> HIDE DEF onward, r
      <4> QED BY <3>3, <4>2, <4>3
    <3>5. After(r, onward) = Free
      BY <3>4 DEF After
    <3>6. desk' = [desk EXCEPT ![c] = Free]
      BY <3>1, <3>5
    <3> QED BY <3>6, Ends
  <2> QED BY <2>1, <2>2, <2>3
<1>4. DOMAIN shelf' = Shelf /\ edits' \in 0 .. MaxEdits
  BY <1>1 DEF ShowInv, ShowTyped
<1> QED BY <1>1, <1>3, <1>4, RowsStay

LEMMA FindsRestKeeps ==
  ASSUME ShowInv, Watches, on' = on, NEW c \in Editors, FindsRest(c)
  PROVE  Effects
<1>1. Doing(c, "find_rest") /\ rows' = rows /\ shelf' = shelf /\ edits' = edits
  BY DEF FindsRest
<1>2. PICK later \in SUBSET (Present(Element(c)[1]) \ {Element(c)}) :
        desk' = [desk EXCEPT ![c] = After([@ EXCEPT !.rest = [e \in later |-> rows[e]]], 1)]
  BY DEF FindsRest
<1> DEFINE rest == [e \in later |-> rows[e]]
           r == [desk[c] EXCEPT !.rest = rest]
<1>3. /\ Engaged(c) /\ RequestTyped(desk[c]) /\ OnItsWay(c)
      /\ LeavesOn(desk[c].op, Element(c), desk[c].todo)
      /\ Head(desk[c].todo) = "find_rest"
  BY <1>1, Going
<1>4. /\ desk[c].op = "remove" /\ "save" \notin Tasks(c) /\ "delete" \notin Tasks(c)
      /\ desk[c].held # Bare /\ Element(c) \in Of(on)
  <2>1. Lasts(desk[c].op, Element(c), desk[c].todo)
    BY <1>3 DEF OnItsWay
  <2>2. desk[c].op = "remove" /\ "save" \notin Tasks(c) /\ "delete" \notin Tasks(c) /\ "select" \notin Tasks(c)
    <3>1. Head(desk[c].todo) = "find_rest" => /\ desk[c].op = "remove" /\ "select" \notin Steps(desk[c].todo)
                                             /\ "save" \notin Steps(desk[c].todo) /\ "delete" \notin Steps(desk[c].todo)
      BY <2>1, WritersLeave
    <3> QED BY <1>3, <3>1, TasksAre
  <2> QED BY <1>3, <2>2 DEF OnItsWay
<1>5. later \subseteq Of(on) \ {Element(c)} /\ \A e \in later : Exists(e) /\ e \in Elements
  BY <1>2, <1>4 DEF Present, Of
<1>6. DOMAIN rest = later /\ \A e \in later : rest[e] = rows[e]
  OBVIOUS
<1>7. IsCopy(rest)
  BY <1>5, <1>6 DEF IsCopy, ShowInv, ShowTyped, Exists
<1> HIDE DEF rest
<1>8. /\ RequestTyped(r) /\ r.todo = desk[c].todo /\ r.op = desk[c].op /\ r.key = desk[c].key
      /\ r.held = desk[c].held /\ r.rest = rest
  BY <1>3, <1>7 DEF RequestTyped, Fields
<1>9. desk' = [desk EXCEPT ![c] = After(r, 1)]
  BY <1>2 DEF rest
<1> HIDE DEF r
<1>10. /\ DOMAIN desk' = Editors
       /\ \A d \in Editors : Acts(d) => d = c
       /\ \A d \in Editors : Engaged(d)' => RequestTyped(desk'[d])
       /\ Len(desk[c].todo) = 1 => desk'[c] = Free
       /\ Len(desk[c].todo) # 1 =>
            /\ desk'[c].op = desk[c].op /\ desk'[c].key = desk[c].key
            /\ desk'[c].held = desk[c].held /\ desk'[c].rest = rest
            /\ Lasts(desk[c].op, Element(c), desk'[c].todo)
            /\ Tasks(c)' = Steps(Left(desk[c].todo)) /\ Tasks(c) = {"find_rest"} \cup Tasks(c)'
  BY <1>1, <1>8, <1>9, StepTaken
<1>11. /\ desk'[c].op = desk[c].op /\ desk'[c].key = desk[c].key
       /\ desk'[c].held = desk[c].held /\ desk'[c].rest = rest
       /\ Lasts(desk[c].op, Element(c), desk'[c].todo)
       /\ Tasks(c) = {"find_rest"} \cup Tasks(c)' /\ "move_rest" \in Tasks(c)'
  <2>1. Len(desk[c].todo) # 1 /\ "move_rest" \in Steps(Left(desk[c].todo))
    BY <1>3 DEF LeavesOn
  <2> QED BY <1>10, <2>1
<1>12. HoldsCurrent(c)'
  <2>1. ~Writing(c)'
    BY <1>4, <1>11 DEF Writing
  <2>2. \A e \in DOMAIN desk'[c].rest : Exists(e)' /\ desk'[c].rest[e] = rows'[e]
    BY <1>1, <1>5, <1>6, <1>11 DEF Exists
  <2> QED BY <2>1, <2>2 DEF HoldsCurrent
<1>13. \A e \in Elements : rows'[e] = Unborn /\ e # Setting =>
         (desk'[c].held = Bare \/ e \notin DOMAIN desk'[c].held) /\ e \notin DOMAIN desk'[c].rest
  BY <1>1, <1>3, <1>5, <1>6, <1>11 DEF ShowInv, UnbornUnseen, Exists
<1>14. desk'[c].held = Bare \/ FitsKey(desk[c].key, desk'[c].held)
  BY <1>3, <1>11 DEF OnItsWay
<1>15. Progressed(c)
  BY <1>3, <1>4, <1>5, <1>6, <1>11, <1>12, <1>13, <1>14, Continues
<1>16. DOMAIN shelf' = Shelf /\ edits' \in 0 .. MaxEdits
  BY <1>1 DEF ShowInv, ShowTyped
<1> QED BY <1>1, <1>10, <1>15, <1>16, RowsStay

-----------------------------------------------------------------------------
(* The steps that write. *)

LEMMA RowsApart == Unborn \notin Rows /\ Gone \notin Rows /\ Unborn # Gone
<1>1. \A row \in Rows : DOMAIN row = {"edits", "slug"}
  BY DEF Rows
<1>2. DOMAIN Unborn = {"gone"} /\ DOMAIN Gone = {"gone"} /\ Unborn.gone = FALSE /\ Gone.gone = TRUE
  BY DEF Unborn, Gone
<1>3. {"gone"} # {"edits", "slug"}
  OBVIOUS
<1> QED BY <1>1, <1>2, <1>3

\* A step that writes one row.
LEMMA RowWritten ==
  ASSUME ShowInv, on' = on, shelf' = shelf, edits' = edits,
         NEW c \in Editors, NEW e \in Elements, NEW row, row \in Rows \cup {Gone, rows[e]},
         rows' = [rows EXCEPT ![e] = row],
         DOMAIN desk' = Editors,
         \A d \in Editors : Acts(d) => d = c,
         \A d \in Editors : Engaged(d)' => RequestTyped(desk'[d]),
         Progressed(c),
         rows'[e] # rows[e] => Wrote(c, e),
         \A k \in Shelf : rows'[e] # rows[e] /\ shelf[k] = Query(k) /\ FitsKey(k, Query(k)) /\ ~Missed(k)
                          /\ (Shown(k, e) \/ Shown(k, e)') => WillClear(c, k)'
  PROVE  Effects
<1>1. DOMAIN rows' = Elements /\ rows'[e] = row /\ \A f \in Elements : f # e => rows'[f] = rows[f]
  BY DEF ShowInv, ShowTyped
<1>2. ShowTyped'
  BY <1>1 DEF ShowInv, ShowTyped
<1>3. \A f \in Elements : rows'[f] # rows[f] => \E d \in Editors : Wrote(d, f)
  BY <1>1
<1>4. ASSUME NEW k \in Shelf, shelf[k] # Bare, shelf[k] = Query(k), ~Missed(k), Query(k)' # Query(k)
      PROVE  \E d \in Editors : WillClear(d, k)'
  <2>1. rows'[e] # rows[e] /\ (Shown(k, e) \/ Shown(k, e)')
    <3>1. ASSUME rows'[e] = rows[e] \/ (~Shown(k, e) /\ ~Shown(k, e)') PROVE FALSE
      <4>1. \A f \in Elements : rows'[f] = rows[f] \/ (~Shown(k, f) /\ ~Shown(k, f)')
        BY <1>1, <3>1
      <4> QED BY <1>4, <4>1, QuerySame
    <3> QED BY <3>1
  <2>2. FitsKey(k, Query(k))
    BY <1>4 DEF ShowInv, ShelfFits
  <2> QED BY <1>4, <2>1, <2>2
<1> QED BY <1>2, <1>3, <1>4 DEF Effects

\* What a request will still clear for a row of its kind.
LEMMA ListsCleared ==
  ASSUME ShowTyped, NEW c \in Editors, NEW e \in Of(on), Element(c) \in Of(on), Element(c)' = Element(c),
         NEW k \in Shelf, k[1] \notin {"detail", "slug"}, Shown(k, e) \/ Shown(k, e)',
         Tasks(c)' \cap {"clear", "clear_lists"} # {}
  PROVE  (k \in ToClear(c))'
<1>1. k \in ListKeys /\ k[2] = e[1]
  BY KeyKinds DEF Shown
<1>2. e[1] = on /\ Element(c)[1] = on
  BY DEF Of
<1>3. k \in Lists(Element(c)[1])
  BY <1>1, <1>2 DEF Lists
<1> QED BY <1>3 DEF ToClear

LEMMA KeyCleared ==
  ASSUME NEW c \in Editors, NEW k \in Shelf, "clear" \in Tasks(c)', k = desk'[c].key
  PROVE  (k \in ToClear(c))'
BY DEF ToClear

LEMMA AddressCleared ==
  ASSUME NEW c \in Editors, NEW k \in SlugKeys, "clear" \in Tasks(c)', k[2] = desk'[c].slug
  PROVE  (k \in ToClear(c))'
BY DEF ToClear

LEMMA SavesKeep ==
  ASSUME ShowInv, Watches, on' = on, NEW c \in Editors, Saves(c)
  PROVE  Effects
<1> DEFINE saved == Saved(c)
           r == [desk[c] EXCEPT !.slug = saved.slug]
<1>1. /\ Doing(c, "save") /\ ~Clashes(c) /\ shelf' = shelf /\ edits' = edits
      /\ rows' = [rows EXCEPT ![Element(c)] = saved]
      /\ desk' = [desk EXCEPT ![c] = After(r, 1)]
  BY DEF Saves
<1>2. /\ Engaged(c) /\ RequestTyped(desk[c]) /\ OnItsWay(c) /\ HoldsCurrent(c)
      /\ LeavesOn(desk[c].op, Element(c), desk[c].todo)
      /\ Head(desk[c].todo) = "save" /\ "save" \in Tasks(c)
  BY <1>1, Going
<1>3. PICK e : e = Element(c)
  OBVIOUS
<1>4. /\ "select" \notin Tasks(c) /\ "move_rest" \notin Tasks(c)
      /\ Len(desk[c].todo) # 1 /\ desk[c].op \in {"create", "update", "sort"}
      /\ Steps(Left(desk[c].todo)) = {"clear"} \/ Steps(Left(desk[c].todo)) = {"clear_lists"}
      /\ desk[c].op = "create" => e # Setting
      /\ desk[c].op = "update" => Steps(Left(desk[c].todo)) = {"clear"}
      /\ desk[c].op = "sort" /\ e[1] = "promo" => Steps(Left(desk[c].todo)) = {"clear"}
      /\ desk[c].op = "sort" => e[1] # "collection"
  <2>1. PICK t : t = desk[c].todo
    OBVIOUS
  <2>2. PICK op : op = desk[c].op
    OBVIOUS
  <2>3. Lasts(op, e, t) /\ Head(t) = "save"
    BY <1>2, <1>3, <2>1, <2>2 DEF OnItsWay
  <2>4. /\ Len(t) = 2 /\ op \in {"create", "update", "sort"}
        /\ Steps(Left(t)) = {"clear"} \/ Steps(Left(t)) = {"clear_lists"}
        /\ op = "create" => e # Setting
        /\ op = "update" => Steps(Left(t)) = {"clear"}
        /\ op = "sort" /\ e[1] = "promo" => Steps(Left(t)) = {"clear"}
        /\ op = "sort" => e[1] # "collection"
    BY <2>3, WritersLeave
  <2>5. Steps(t) = {"save"} \cup Steps(Left(t))
    BY <1>2, <2>1, <2>4 DEF LeavesOn
  <2>6. Tasks(c) = Steps(t)
    BY <2>1, TasksAre
  <2> QED BY <2>1, <2>2, <2>4, <2>5, <2>6
<1>5. /\ e \in Of(on) /\ e \in Elements /\ desk[c].key = Detail(e) /\ desk[c].edit \in 1 .. MaxEdits
      /\ desk[c].op # "create" => desk[c].held # Bare /\ e \in DOMAIN desk[c].held
      /\ desk[c].op = "create" => desk[c].held = Bare /\ rows[e] = Unborn
      /\ DOMAIN desk[c].rest = {}
  <2>1. e \in Of(on) /\ desk[c].key = Detail(e) /\ desk[c].edit \in 1 .. MaxEdits
    BY <1>2, <1>3, <1>4 DEF OnItsWay, RequestTyped
  <2>2. desk[c].op # "create" => desk[c].held # Bare /\ e \in DOMAIN desk[c].held
    BY <1>2, <1>4, <2>1 DEF OnItsWay, FitsKey, Detail
  <2>3. desk[c].op = "create" => desk[c].held = Bare /\ rows[e] = Unborn
    BY <1>2, <1>3 DEF OnItsWay
  <2>4. DOMAIN desk[c].rest = {}
    BY <1>2, <1>4 DEF OnItsWay
  <2> QED BY <2>1, <2>2, <2>3, <2>4 DEF Of
<1> DEFINE old == IF desk[c].held = Bare THEN Blank ELSE desk[c].held[Element(c)]
<1>6. /\ saved \in Rows /\ saved.edits = old.edits \cup {desk[c].edit} /\ old \in Rows
      /\ saved.slug \in Slugs \cup {NoSlug}
  <2>1. old \in Rows
    <3>1. Blank \in Rows
      BY DEF Blank, Row, Rows
    <3> QED BY <1>2, <1>3, <1>5, <3>1 DEF RequestTyped, IsCopy
  <2>2. saved = Row(old.edits \cup {desk[c].edit}, IF desk[c].slug = NoSlug THEN old.slug ELSE desk[c].slug)
    BY DEF Saved
  <2> HIDE DEF old
  <2>3. desk[c].slug \in Slugs \cup {NoSlug}
    BY <1>2 DEF RequestTyped
  <2> QED BY <1>5, <2>1, <2>2, <2>3 DEF Row, Rows
<1> HIDE DEF saved
<1>7. /\ RequestTyped(r) /\ r.todo = desk[c].todo /\ r.op = desk[c].op /\ r.key = desk[c].key
      /\ r.held = desk[c].held /\ r.rest = desk[c].rest /\ r.slug = saved.slug
  BY <1>2, <1>6 DEF RequestTyped, Fields
<1> HIDE DEF r
<1>8. /\ DOMAIN desk' = Editors
      /\ \A d \in Editors : Acts(d) => d = c
      /\ \A d \in Editors : Engaged(d)' => RequestTyped(desk'[d])
      /\ desk'[c].op = desk[c].op /\ desk'[c].key = desk[c].key
      /\ desk'[c].held = desk[c].held /\ desk'[c].rest = desk[c].rest /\ desk'[c].slug = saved.slug
      /\ Lasts(desk[c].op, Element(c), desk'[c].todo)
      /\ Tasks(c)' = Steps(Left(desk[c].todo)) /\ Tasks(c) = {"save"} \cup Tasks(c)'
  <2>1. RequestTyped(r) /\ r.todo = desk[c].todo /\ r.op = desk[c].op /\ r.key = desk[c].key
    BY <1>7
  <2>2. Doing(c, "save") /\ desk' = [desk EXCEPT ![c] = After(r, 1)]
    BY <1>1
  <2>3. /\ DOMAIN desk' = Editors
        /\ \A d \in Editors : Acts(d) => d = c
        /\ \A d \in Editors : Engaged(d)' => RequestTyped(desk'[d])
        /\ Len(desk[c].todo) # 1 =>
             /\ desk'[c].op = desk[c].op /\ desk'[c].key = desk[c].key
             /\ desk'[c].held = r.held /\ desk'[c].rest = r.rest /\ desk'[c].slug = r.slug
             /\ Lasts(desk[c].op, Element(c), desk'[c].todo)
             /\ Tasks(c)' = Steps(Left(desk[c].todo)) /\ Tasks(c) = {"save"} \cup Tasks(c)'
    BY <2>1, <2>2, StepTaken
  <2> QED BY <1>4, <1>7, <2>3
<1>9. /\ DOMAIN rows' = Elements /\ rows'[e] = saved /\ \A f \in Elements : f # e => rows'[f] = rows[f]
  BY <1>1, <1>3, <1>5 DEF ShowInv, ShowTyped
<1>10. ~Writing(c)' /\ "save" \notin Tasks(c)'
  BY <1>4, <1>8 DEF Writing
<1>11. Progressed(c)
  <2>1. HoldsCurrent(c)'
    BY <1>5, <1>8, <1>10 DEF HoldsCurrent
  <2>2. \A f \in Elements : rows'[f] = Unborn /\ f # Setting =>
          (desk'[c].held = Bare \/ f \notin DOMAIN desk'[c].held) /\ f \notin DOMAIN desk'[c].rest
    <3>1. \A f \in Elements : rows'[f] = Unborn => rows[f] = Unborn
      BY <1>6, <1>9, RowsApart
    <3> QED BY <1>2, <1>8, <3>1 DEF ShowInv, UnbornUnseen
  <2>3. /\ desk'[c].held = Bare \/ FitsKey(desk[c].key, desk'[c].held)
        /\ desk[c].op # "create" /\ "select" \notin Tasks(c)' => desk'[c].held # Bare
        /\ desk[c].op = "create" => desk'[c].held = Bare
    BY <1>2, <1>5, <1>8 DEF OnItsWay
  <2>4. DOMAIN desk'[c].rest \subseteq Of(on) \ {Element(c)} /\ DOMAIN desk'[c].rest = {}
    BY <1>5, <1>8
  <2> QED BY <1>2, <1>8, <1>10, <2>1, <2>2, <2>3, <2>4, Continues
<1>12. Acts(c)
  <2>1. Tasks(c)' # Tasks(c)
    BY <1>2, <1>10
  <2> QED BY <2>1 DEF Acts, Tasks
<1>13. rows'[e] # rows[e] => Wrote(c, e)
  <2>1. rows'[e] # Unborn /\ Exists(e)'
    BY <1>6, <1>9, RowsApart DEF Exists
  <2>2. rows[e] = Unborn /\ e # Setting => desk[c].op = "create"
    BY <1>2, <1>5 DEF ShowInv, UnbornUnseen
  <2>3. ASSUME c \notin late
        PROVE  /\ rows[e] # Gone \/ e = Setting
               /\ Exists(e) => rows[e].edits \subseteq rows'[e].edits
    <3>1. CASE desk[c].op = "create"
      BY <1>5, <3>1, RowsApart DEF Exists
    <3>2. CASE desk[c].op # "create"
      <4>1. Current(e, desk[c].held[e])
        BY <1>2, <1>3, <1>5, <2>3, <3>2 DEF HoldsCurrent, Writing
      <4>2. old = desk[c].held[e]
        BY <1>3, <1>5, <3>2
      <4> QED BY <1>6, <1>9, <4>1, <4>2 DEF Current, Exists
    <3> QED BY <3>1, <3>2
  <2> QED BY <1>2, <1>5, <1>12, <2>1, <2>2, <2>3 DEF Wrote
<1>14. ASSUME NEW k \in Shelf, rows'[e] # rows[e], shelf[k] = Query(k), FitsKey(k, Query(k)), ~Missed(k),
              Shown(k, e) \/ Shown(k, e)'
       PROVE  WillClear(c, k)'
  <2>1. Element(c)' = Element(c)
    BY <1>8 DEF Element
  <2>2. CASE k[1] \notin {"detail", "slug"}
    <3>1. Tasks(c)' \cap {"clear", "clear_lists"} # {}
      BY <1>4, <1>8
    <3>2. (k \in ToClear(c))'
      BY <1>3, <1>5, <1>14, <2>1, <2>2, <3>1, ListsCleared DEF ShowInv
    <3> QED BY <1>10, <3>2 DEF WillClear
  <2>3. CASE k[1] = "detail"
    <3>1. k = Detail(e)
      BY <1>14, <2>3, KeyKinds DEF Shown
    <3>2. desk[c].op # "create"
      <4>1. ASSUME desk[c].op = "create" PROVE FALSE
        <5>1. e \in DOMAIN Query(k)
          BY <1>14, <2>3, <3>1 DEF FitsKey, Detail
        <5>2. Shown(k, e)
          BY <5>1, QueryIs
        <5> QED BY <1>4, <1>5, <2>3, <4>1, <5>2 DEF Shown, Exists
      <4> QED BY <4>1
    <3>3. "clear" \in Tasks(c)'
      <4>1. ASSUME desk[c].op = "sort", e[1] # "promo" PROVE FALSE
        BY <1>5, <1>12, <1>14, <3>1, <4>1 DEF Missed, LeavesCopy
      <4> QED BY <1>4, <1>8, <3>2, <4>1
    <3>4. k = desk'[c].key
      BY <1>5, <1>8, <3>1
    <3> QED BY <1>10, <3>3, <3>4, KeyCleared DEF WillClear
  <2>4. CASE k[1] = "slug"
    <3>1. k \in SlugKeys
      BY <2>4, KeyKinds
    <3>2. CASE Shown(k, e)
      <4>1. Exists(e) /\ rows[e].slug = k[2] /\ e[1] = "collection"
        BY <2>4, <3>2 DEF Shown
      <4>2. ~LeavesAddress(e, k)
        BY <1>5, <1>12, <1>14, <2>4 DEF Missed
      <4>3. rows'[e].slug = k[2]
        BY <4>1, <4>2 DEF LeavesAddress
      <4>4. "clear" \in Tasks(c)'
        BY <1>4, <1>5, <1>8, <4>1 DEF Exists
      <4> QED BY <1>8, <1>9, <1>10, <3>1, <4>3, <4>4, AddressCleared DEF WillClear
    <3>3. CASE ~Shown(k, e)
      <4>1. rows'[e].slug = k[2] /\ e[1] = "collection"
        BY <1>14, <2>4, <3>3 DEF Shown
      <4>2. PICK f \in DOMAIN Query(k) : TRUE
        BY <1>14, <2>4 DEF FitsKey
      <4>3. f \in Elements /\ Shown(k, f)
        BY <4>2, QueryIs
      <4>4. f # e /\ f \in Present("collection") /\ rows[f].slug = k[2]
        BY <2>4, <3>3, <4>3 DEF Shown, Present, Of
      <4>5. Clashes(c)
        BY <1>3, <1>9, <4>1, <4>4 DEF Clashes, saved
      <4> QED BY <1>1, <4>5
    <3> QED BY <3>2, <3>3
  <2> QED BY <2>2, <2>3, <2>4
<1>15. rows' = [rows EXCEPT ![e] = saved] /\ saved \in Rows \cup {Gone, rows[e]}
  BY <1>1, <1>3, <1>6
<1> QED BY <1>1, <1>5, <1>8, <1>11, <1>13, <1>14, <1>15, RowWritten

LEMMA DeletesKeep ==
  ASSUME ShowInv, Watches, on' = on, NEW c \in Editors, Deletes(c)
  PROVE  Effects
<1> DEFINE row == IF Exists(Element(c)) THEN Gone ELSE rows[Element(c)]
           r == [desk[c] EXCEPT !.slug = desk[c].held[Element(c)].slug]
<1>1. /\ Doing(c, "delete") /\ shelf' = shelf /\ edits' = edits
      /\ rows' = [rows EXCEPT ![Element(c)] = row]
      /\ desk' = [desk EXCEPT ![c] = After(r, 1)]
  BY DEF Deletes
<1>2. /\ Engaged(c) /\ RequestTyped(desk[c]) /\ OnItsWay(c) /\ HoldsCurrent(c)
      /\ LeavesOn(desk[c].op, Element(c), desk[c].todo)
      /\ Head(desk[c].todo) = "delete" /\ "delete" \in Tasks(c)
  BY <1>1, Going
<1>3. PICK e : e = Element(c)
  OBVIOUS
<1>4. /\ "select" \notin Tasks(c) /\ desk[c].op = "remove"
      /\ Len(desk[c].todo) # 1 => "save" \notin Steps(Left(desk[c].todo)) /\ "delete" \notin Steps(Left(desk[c].todo))
      /\ e = Setting \/ (Len(desk[c].todo) # 1 /\ "clear" \in Steps(Left(desk[c].todo)))
  <2>1. PICK t : t = desk[c].todo
    OBVIOUS
  <2>2. PICK op : op = desk[c].op
    OBVIOUS
  <2>3. Lasts(op, e, t) /\ Head(t) = "delete"
    BY <1>2, <1>3, <2>1, <2>2 DEF OnItsWay
  <2>4. /\ op = "remove"
        /\ e = Setting \/ (Len(t) # 1 /\ "clear" \in Steps(Left(t)))
    BY <2>3, WritersLeave
  <2>5. /\ "select" \notin Steps(t)
        /\ Len(t) # 1 => "save" \notin Steps(Left(t)) /\ "delete" \notin Steps(Left(t))
    BY <1>2, <2>1, <2>3 DEF LeavesOn
  <2>6. Tasks(c) = Steps(t)
    BY <2>1, TasksAre
  <2> QED BY <2>1, <2>2, <2>4, <2>5, <2>6
<1>5. /\ e \in Of(on) /\ e \in Elements /\ desk[c].key = Detail(e)
      /\ desk[c].held # Bare /\ e \in DOMAIN desk[c].held /\ desk[c].held[e] \in Rows
  <2>1. e \in Of(on) /\ desk[c].key = Detail(e) /\ desk[c].held # Bare
    BY <1>2, <1>3, <1>4 DEF OnItsWay
  <2>2. e \in DOMAIN desk[c].held
    BY <1>2, <2>1 DEF OnItsWay, FitsKey, Detail
  <2> QED BY <1>2, <2>1, <2>2 DEF Of, RequestTyped, IsCopy
<1>6. desk[c].held[Element(c)].slug \in Slugs \cup {NoSlug}
  BY <1>3, <1>5 DEF Rows
<1>7. /\ RequestTyped(r) /\ r.todo = desk[c].todo /\ r.op = desk[c].op /\ r.key = desk[c].key
      /\ r.held = desk[c].held /\ r.rest = desk[c].rest
  BY <1>2, <1>6 DEF RequestTyped, Fields
<1> HIDE DEF r
<1>8. /\ DOMAIN desk' = Editors
      /\ \A d \in Editors : Acts(d) => d = c
      /\ \A d \in Editors : Engaged(d)' => RequestTyped(desk'[d])
      /\ Len(desk[c].todo) = 1 => desk'[c] = Free
      /\ Len(desk[c].todo) # 1 =>
           /\ desk'[c].op = desk[c].op /\ desk'[c].key = desk[c].key
           /\ desk'[c].held = r.held /\ desk'[c].rest = r.rest
           /\ Lasts(desk[c].op, Element(c), desk'[c].todo)
           /\ Tasks(c)' = Steps(Left(desk[c].todo)) /\ Tasks(c) = {"delete"} \cup Tasks(c)'
  <2>1. RequestTyped(r) /\ r.todo = desk[c].todo /\ r.op = desk[c].op /\ r.key = desk[c].key
    BY <1>7
  <2>2. Doing(c, "delete") /\ desk' = [desk EXCEPT ![c] = After(r, 1)]
    BY <1>1
  <2> QED BY <2>1, <2>2, StepTaken
<1>9. /\ rows'[e] = row /\ \A f \in Elements : f # e => rows'[f] = rows[f]
      /\ row \in Rows \cup {Gone, rows[e]}
      /\ rows' = [rows EXCEPT ![e] = row] /\ ~Exists(e)'
      /\ rows'[e] # rows[e] => Exists(e) /\ rows'[e] = Gone
  BY <1>1, <1>3, <1>5 DEF ShowInv, ShowTyped, Exists
<1> HIDE DEF row
<1>10. ASSUME Len(desk[c].todo) # 1
       PROVE  /\ desk'[c].op = desk[c].op /\ desk'[c].key = desk[c].key
              /\ desk'[c].held = desk[c].held /\ desk'[c].rest = desk[c].rest
              /\ Lasts(desk[c].op, Element(c), desk'[c].todo)
              /\ Tasks(c)' = Steps(Left(desk[c].todo)) /\ Tasks(c) = {"delete"} \cup Tasks(c)'
              /\ ~Writing(c)' /\ "delete" \notin Tasks(c)' /\ "save" \notin Tasks(c)'
  BY <1>4, <1>7, <1>8, <1>10 DEF Writing
<1>11. Acts(c)
  <2>1. CASE Len(desk[c].todo) = 1
    BY <1>2, <1>8, <2>1 DEF Acts, Engaged
  <2>2. CASE Len(desk[c].todo) # 1
    BY <1>2, <1>10, <2>2 DEF Acts, Tasks
  <2> QED BY <2>1, <2>2
<1>12. Progressed(c)
  <2>1. CASE desk'[c] = Free
    BY <1>2, <2>1 DEF Progressed, Engaged
  <2>2. CASE desk'[c] # Free
    <3>1. /\ desk'[c].op = desk[c].op /\ desk'[c].key = desk[c].key
          /\ desk'[c].held = desk[c].held /\ desk'[c].rest = desk[c].rest
          /\ Lasts(desk[c].op, Element(c), desk'[c].todo)
          /\ Tasks(c) = {"delete"} \cup Tasks(c)'
          /\ ~Writing(c)' /\ "save" \notin Tasks(c)'
      BY <1>8, <1>10, <2>2
    <3>2. /\ DOMAIN desk'[c].rest \subseteq Of(on) \ {Element(c)}
          /\ "move_rest" \notin Tasks(c)' => DOMAIN desk'[c].rest = {}
      BY <1>2, <3>1 DEF OnItsWay
    <3>3. HoldsCurrent(c)'
      <4>1. c \notin late' => c \notin late
        BY <2>2, StaysLate
      <4>2. ASSUME c \notin late', NEW f \in DOMAIN desk'[c].rest PROVE Exists(f)' /\ desk'[c].rest[f] = rows'[f]
        <5>1. Exists(f) /\ desk[c].rest[f] = rows[f]
          BY <1>2, <3>1, <4>1, <4>2 DEF HoldsCurrent
        <5>2. f # e /\ f \in Elements
          BY <1>3, <3>2, <4>2 DEF Of
        <5> QED BY <1>9, <3>1, <5>1, <5>2 DEF Exists
      <4> QED BY <3>1, <4>2 DEF HoldsCurrent
    <3>4. \A f \in Elements : rows'[f] = Unborn /\ f # Setting =>
            (desk'[c].held = Bare \/ f \notin DOMAIN desk'[c].held) /\ f \notin DOMAIN desk'[c].rest
      <4>1. \A f \in Elements : rows'[f] = Unborn => rows[f] = Unborn
        BY <1>9, RowsApart
      <4> QED BY <1>2, <3>1, <4>1 DEF ShowInv, UnbornUnseen
    <3>5. /\ desk'[c].held = Bare \/ FitsKey(desk[c].key, desk'[c].held)
          /\ desk'[c].held # Bare
      BY <1>2, <1>5, <3>1 DEF OnItsWay
    <3> QED BY <1>2, <1>4, <3>1, <3>2, <3>3, <3>4, <3>5, Continues
  <2> QED BY <2>1, <2>2
<1>13. rows'[e] # rows[e] => Wrote(c, e)
  BY <1>2, <1>5, <1>9, <1>11, RowsApart DEF Wrote, Exists
<1>14. ASSUME NEW k \in Shelf, rows'[e] # rows[e], shelf[k] = Query(k), FitsKey(k, Query(k)), ~Missed(k),
              Shown(k, e) \/ Shown(k, e)'
       PROVE  WillClear(c, k)'
  <2>1. CASE k[1] \notin {"detail", "slug"}
    <3>1. k[2] = e[1] /\ k[2] # "layout"
      BY <1>14, <2>1, KeyKinds DEF Shown
    <3>2. e # Setting
      BY <3>1 DEF Setting
    <3>3. Len(desk[c].todo) # 1 /\ "clear" \in Steps(Left(desk[c].todo))
      BY <1>4, <3>2
    <3>4. Element(c)' = Element(c) /\ "clear" \in Tasks(c)' /\ ~Writing(c)'
      BY <1>10, <3>3 DEF Element
    <3>5. (k \in ToClear(c))'
      BY <1>3, <1>5, <1>14, <2>1, <3>4, ListsCleared DEF ShowInv
    <3> QED BY <3>4, <3>5 DEF WillClear
  <2>2. CASE k[1] = "detail"
    <3>1. k = Detail(e)
      BY <1>14, <2>2, KeyKinds DEF Shown
    <3>2. e # Setting
      BY <1>4, <1>5, <1>11, <1>14, <3>1 DEF Missed, LeavesCopy
    <3>3. Len(desk[c].todo) # 1 /\ "clear" \in Steps(Left(desk[c].todo))
      BY <1>4, <3>2
    <3>4. k = desk'[c].key /\ "clear" \in Tasks(c)' /\ ~Writing(c)'
      BY <1>5, <1>10, <3>1, <3>3
    <3> QED BY <3>4, KeyCleared DEF WillClear
  <2>3. CASE k[1] = "slug"
    <3>1. Shown(k, e)
      BY <1>9, <1>14, <2>3 DEF Shown
    <3>2. LeavesAddress(e, k)
      BY <1>9, <2>3, <3>1 DEF LeavesAddress, Shown
    <3> QED BY <1>5, <1>11, <1>14, <2>3, <3>2 DEF Missed
  <2> QED BY <2>1, <2>2, <2>3
<1> QED BY <1>1, <1>5, <1>8, <1>9, <1>12, <1>13, <1>14, RowWritten

LEMMA MovesOneKeeps ==
  ASSUME ShowInv, Watches, on' = on, NEW c \in Editors, NEW e \in Elements, MovesOne(c, e)
  PROVE  Effects
<1> DEFINE row == Row(desk[c].rest[e].edits \cup {desk[c].edit}, NoSlug)
           rest == [f \in DOMAIN desk[c].rest \ {e} |-> desk[c].rest[f]]
           q == [desk[c] EXCEPT !.rest = rest]
<1>1. /\ Doing(c, "move_rest") /\ e \in DOMAIN desk[c].rest /\ shelf' = shelf /\ edits' = edits
      /\ rows' = [rows EXCEPT ![e] = row]
      /\ desk' = [desk EXCEPT ![c] = q]
  BY DEF MovesOne
<1>2. /\ Engaged(c) /\ RequestTyped(desk[c]) /\ OnItsWay(c) /\ HoldsCurrent(c)
      /\ Head(desk[c].todo) = "move_rest" /\ "move_rest" \in Tasks(c)
  BY <1>1, Going
<1>3. /\ desk[c].op = "remove" /\ Element(c)[1] \in {"hero", "side", "promo"}
      /\ "clear" \in Tasks(c) /\ "save" \notin Tasks(c) /\ "delete" \notin Tasks(c)
  <2>1. PICK t : t = desk[c].todo
    OBVIOUS
  <2>2. PICK op : op = desk[c].op
    OBVIOUS
  <2>3. PICK x : x = Element(c)
    OBVIOUS
  <2>4. Lasts(op, x, t) /\ Head(t) = "move_rest"
    BY <1>2, <2>1, <2>2, <2>3 DEF OnItsWay
  <2>5. /\ op = "remove" /\ x[1] \in {"hero", "side", "promo"}
        /\ "clear" \in Steps(t) /\ "save" \notin Steps(t) /\ "delete" \notin Steps(t)
    BY <2>4, WritersLeave
  <2>6. Tasks(c) = Steps(t)
    BY <2>1, TasksAre
  <2> QED BY <2>1, <2>2, <2>3, <2>5, <2>6
<1>4. /\ e \in Of(on) /\ e # Element(c) /\ Element(c) \in Of(on) /\ e[1] = Element(c)[1]
      /\ desk[c].edit \in 1 .. MaxEdits /\ desk[c].rest[e] \in Rows
  BY <1>1, <1>2, <1>3 DEF OnItsWay, RequestTyped, IsCopy, Of
<1>5. row \in Rows /\ row.edits = desk[c].rest[e].edits \cup {desk[c].edit}
  BY <1>4 DEF Row, Rows
<1>6. /\ DOMAIN rest = DOMAIN desk[c].rest \ {e}
      /\ \A f \in DOMAIN desk[c].rest : f # e => rest[f] = desk[c].rest[f]
  OBVIOUS
<1>7. IsCopy(rest)
  BY <1>2, <1>6 DEF IsCopy, RequestTyped
<1> HIDE DEF rest, row
<1>8. /\ RequestTyped(q) /\ q.todo = desk[c].todo /\ q.op = desk[c].op /\ q.key = desk[c].key
      /\ q.held = desk[c].held /\ q.rest = rest
  BY <1>2, <1>7 DEF RequestTyped, Fields
<1> HIDE DEF q
<1>9. /\ DOMAIN desk' = Editors /\ desk'[c] = q
      /\ \A d \in Editors : Acts(d) => d = c
      /\ \A d \in Editors : Engaged(d)' => RequestTyped(desk'[d])
  <2>1. ShowTyped
    BY DEF ShowInv
  <2> QED BY <1>1, <1>8, <2>1, DeskStep
<1>10. /\ rows'[e] = row /\ \A f \in Elements : f # e => rows'[f] = rows[f]
  BY <1>1 DEF ShowInv, ShowTyped
<1>11. Tasks(c)' = Tasks(c) /\ Element(c)' = Element(c) /\ ~Writing(c)'
  BY <1>3, <1>8, <1>9 DEF Tasks, Element, Writing
<1>12. Acts(c)
  BY <1>1, <1>6, <1>8, <1>9 DEF Acts
<1>13. Progressed(c)
  <2>1. HoldsCurrent(c)'
    <3>1. ASSUME c \notin late', NEW f \in DOMAIN desk'[c].rest PROVE Exists(f)' /\ desk'[c].rest[f] = rows'[f]
      <4>1. desk'[c] # Free
        BY <1>8, <1>9, FreeIs DEF RequestTyped
      <4>2. c \notin late
        BY <3>1, <4>1, StaysLate
      <4>3. f \in DOMAIN desk[c].rest /\ f # e /\ desk'[c].rest[f] = desk[c].rest[f]
        BY <1>6, <1>8, <1>9, <3>1
      <4>4. Exists(f) /\ desk[c].rest[f] = rows[f] /\ f \in Elements
        BY <1>2, <4>2, <4>3 DEF HoldsCurrent, OnItsWay, Of
      <4> QED BY <1>10, <4>3, <4>4 DEF Exists
    <3> QED BY <1>11, <3>1 DEF HoldsCurrent
  <2>2. \A f \in Elements : rows'[f] = Unborn /\ f # Setting =>
          (desk'[c].held = Bare \/ f \notin DOMAIN desk'[c].held) /\ f \notin DOMAIN desk'[c].rest
    <3>1. \A f \in Elements : rows'[f] = Unborn => rows[f] = Unborn
      BY <1>5, <1>10, RowsApart
    <3> QED BY <1>2, <1>6, <1>8, <1>9, <3>1 DEF ShowInv, UnbornUnseen
  <2>3. /\ desk'[c].op = desk[c].op /\ desk'[c].key = desk[c].key
        /\ Lasts(desk[c].op, Element(c), desk'[c].todo)
        /\ desk'[c].held = Bare \/ FitsKey(desk[c].key, desk'[c].held)
        /\ desk[c].op # "create" /\ "select" \notin Tasks(c)' => desk'[c].held # Bare
        /\ DOMAIN desk'[c].rest \subseteq Of(on) \ {Element(c)}
    BY <1>2, <1>6, <1>8, <1>9, <1>11 DEF OnItsWay
  <2>4. "move_rest" \in Tasks(c)'
    BY <1>2, <1>11
  <2> QED BY <1>2, <1>3, <1>11, <2>1, <2>2, <2>3, <2>4, Continues
<1>14. Wrote(c, e)
  <2>1. ~(rows[e] = Unborn /\ e # Setting)
    BY <1>1, <1>2 DEF ShowInv, UnbornUnseen
  <2>2. c \notin late => Exists(e) /\ desk[c].rest[e] = rows[e]
    BY <1>1, <1>2 DEF HoldsCurrent
  <2>3. rows'[e] # Unborn
    BY <1>5, <1>10, RowsApart
  <2> QED BY <1>2, <1>4, <1>5, <1>10, <1>12, <2>1, <2>2, <2>3 DEF Wrote, Exists
<1>15. ASSUME NEW k \in Shelf, rows'[e] # rows[e], shelf[k] = Query(k), FitsKey(k, Query(k)), ~Missed(k),
              Shown(k, e) \/ Shown(k, e)'
       PROVE  WillClear(c, k)'
  <2>1. k[1] # "detail"
    <3>1. ASSUME k[1] = "detail" PROVE FALSE
      <4>1. k = Detail(e)
        BY <1>15, <3>1, KeyKinds DEF Shown
      <4> QED BY <1>1, <1>4, <1>12, <1>15, <4>1 DEF Missed, LeavesCopy
    <3> QED BY <3>1
  <2>2. k[1] # "slug"
    BY <1>3, <1>4, <1>15 DEF Shown
  <2>3. (k \in ToClear(c))'
    BY <1>3, <1>4, <1>11, <1>15, <2>1, <2>2, ListsCleared DEF ShowInv
  <2> QED BY <1>11, <2>3 DEF WillClear
<1>16. row \in Rows \cup {Gone, rows[e]}
  BY <1>5
<1>17. rows'[e] # rows[e] => Wrote(c, e)
  BY <1>14
<1> QED BY <1>1, <1>9, <1>13, <1>15, <1>16, <1>17, RowWritten

-----------------------------------------------------------------------------
(* New requests. *)

LEMMA AskedKeeps ==
  ASSUME ShowInv, on' = on, NEW c \in Editors, desk[c] = Free,
         NEW op, NEW k \in Shelf, NEW todo, NEW slug \in Slugs \cup {NoSlug}, Asked(c, op, k, todo, slug),
         rows' = rows, shelf' = shelf, edits' \in 0 .. MaxEdits,
         Lasts(op, k[2], todo),
         op # "read" => k = Detail(k[2]) /\ k[2] \in Of(on) /\ edits' \in 1 .. MaxEdits,
         op # "create" => "select" \in Steps(todo),
         op = "create" => /\ rows[k[2]] = Unborn
                          /\ \A d \in Editors : desk[d] # Free => desk[d].key # k
  PROVE  Effects
<1> DEFINE q == [op |-> op, todo |-> todo, key |-> k, held |-> Bare, rest |-> Nobody, slug |-> slug, edit |-> edits']
<1>1. desk' = [desk EXCEPT ![c] = q]
  BY DEF Asked
<1>2. /\ DOMAIN q = Fields /\ q.op = op /\ q.todo = todo /\ q.key = k /\ q.held = Bare
      /\ q.rest = Nobody /\ q.slug = slug /\ q.edit = edits'
  BY DEF Fields
<1> HIDE DEF q
<1>3. DOMAIN Nobody = {} /\ IsCopy(Nobody)
  BY DEF Nobody, IsCopy
<1>4. RequestTyped(q)
  BY <1>2, <1>3 DEF RequestTyped
<1>5. /\ desk'[c] = q /\ DOMAIN desk' = Editors
      /\ \A d \in Editors : Acts(d) => d = c
      /\ \A d \in Editors : Engaged(d)' => RequestTyped(desk'[d])
  <2>1. ShowTyped
    BY DEF ShowInv
  <2> QED BY <1>1, <1>4, <2>1, DeskStep
<1>6. Element(c)' = k[2] /\ Of(on)' = Of(on) /\ Tasks(c)' = Steps(todo)
  BY <1>2, <1>5 DEF Element, Of, Tasks, Steps
<1>7. OnItsWay(c)'
  <2>1. Lasts(desk[c].op, Element(c), desk[c].todo)'
    BY <1>2, <1>5, <1>6
  <2>2. (desk[c].op # "read" => desk[c].key = Detail(Element(c)) /\ Element(c) \in Of(on))'
    BY <1>2, <1>5, <1>6
  <2>3. desk'[c].held = Bare
    BY <1>2, <1>5
  <2>4. (desk[c].op # "create" /\ "select" \notin Tasks(c) => desk[c].held # Bare)'
    BY <1>2, <1>5, <1>6
  <2>5. (desk[c].op = "create" /\ "save" \in Tasks(c) => rows[Element(c)] = Unborn)'
    BY <1>2, <1>5, <1>6
  <2>6. DOMAIN desk'[c].rest = {}
    BY <1>2, <1>3, <1>5
  <2> QED BY <2>1, <2>2, <2>3, <2>4, <2>5, <2>6 DEF OnItsWay
<1>8. HoldsCurrent(c)'
  BY <1>2, <1>3, <1>5 DEF HoldsCurrent
<1>9. Progressed(c)
  BY <1>2, <1>3, <1>5, <1>7, <1>8 DEF Progressed, Engaged
<1>10. DOMAIN shelf' = Shelf
  BY DEF ShowInv, ShowTyped
<1> QED BY <1>5, <1>9, <1>10, RowsStay

LEMMA ReaderKeeps ==
  ASSUME ShowInv, on' = on, NEW c \in Editors, NEW k,
         NEW todo \in {<< "get", "select", "set" >>, << "select", "set" >>, << "get", "select" >>},
         Reader(c, k, todo)
  PROVE  Effects
<1>1. /\ desk[c] = Free /\ k \in Shelf /\ edits' = edits /\ rows' = rows /\ shelf' = shelf
      /\ Asked(c, "read", k, todo, NoSlug)
  BY DEF Reader
<1>2. "select" \in Steps(todo)
  BY Cut2, Cut3
<1>3. Lasts("read", k[2], todo)
  BY DEF Lasts, Reads
<1>4. edits' \in 0 .. MaxEdits
  BY <1>1 DEF ShowInv, ShowTyped
<1> QED BY <1>1, <1>2, <1>3, <1>4, AskedKeeps

LEMMA EditsStep ==
  ASSUME ShowInv, on' = on, NEW c \in Editors, NEW e \in Of(on),
         NEW op, NEW todo, NEW slug \in Slugs \cup {NoSlug}, Edits(c, op, e, todo, slug),
         Lasts(op, e, todo),
         op # "create" => "select" \in Steps(todo),
         op = "create" => rows[e] = Unborn /\ \A d \in Editors : desk[d] # Free => desk[d].key # Detail(e)
  PROVE  Effects
<1> DEFINE k == Detail(e)
<1>1. /\ desk[c] = Free /\ edits < MaxEdits /\ edits' = edits + 1 /\ rows' = rows /\ shelf' = shelf
      /\ Asked(c, op, k, todo, slug)
  BY DEF Edits
<1>2. k \in Shelf /\ k[2] = e
  BY DEF Shelf, Detail, Of
<1>3. edits' \in 1 .. MaxEdits /\ edits' \in 0 .. MaxEdits
  BY <1>1, ShowcaseAssumption DEF ShowInv, ShowTyped
<1>4. k = Detail(k[2])
  BY <1>2
<1> HIDE DEF k
<1>5. op = "create" => /\ rows[k[2]] = Unborn
                       /\ \A d \in Editors : desk[d] # Free => desk[d].key # k
  BY <1>2, <1>4
<1>6. Lasts(op, k[2], todo) /\ k[2] \in Of(on)
  BY <1>2
<1> QED BY <1>1, <1>2, <1>3, <1>4, <1>5, <1>6, AskedKeeps

LEMMA Join5 ==
  ASSUME NEW a, NEW b, NEW c, NEW d, NEW e
  PROVE  << a, b, c >> \o << d, e >> = << a, b, c, d, e >>
<1> DEFINE S == {a, b, c, d, e}
           s == << a, b, c >> \o << d, e >>
<1>1. << a, b, c >> \in Seq(S) /\ Len(<< a, b, c >>) = 3 /\ << d, e >> \in Seq(S) /\ Len(<< d, e >>) = 2
  OBVIOUS
<1>2. /\ s \in Seq(S) /\ Len(s) = 5
      /\ \A i \in 1 .. 5 : s[i] = IF i <= 3 THEN << a, b, c >>[i] ELSE << d, e >>[i - 3]
  BY <1>1, ConcatProperties
<1>3. s[1] = a /\ s[2] = b /\ s[3] = c /\ s[4] = d /\ s[5] = e
  BY <1>2
<1> HIDE DEF s
<1>4. s = << a, b, c, d, e >>
  BY <1>2, <1>3
<1> QED BY <1>4 DEF s

LEMMA Join7 ==
  ASSUME NEW a, NEW b, NEW c, NEW d, NEW e, NEW f, NEW g
  PROVE  << a, b, c >> \o << d, e, f, g >> = << a, b, c, d, e, f, g >>
<1> DEFINE S == {a, b, c, d, e, f, g}
           s == << a, b, c >> \o << d, e, f, g >>
<1>1. << a, b, c >> \in Seq(S) /\ Len(<< a, b, c >>) = 3 /\ << d, e, f, g >> \in Seq(S) /\ Len(<< d, e, f, g >>) = 4
  OBVIOUS
<1>2. /\ s \in Seq(S) /\ Len(s) = 7
      /\ \A i \in 1 .. 7 : s[i] = IF i <= 3 THEN << a, b, c >>[i] ELSE << d, e, f, g >>[i - 3]
  BY <1>1, ConcatProperties
<1>3. s[1] = a /\ s[2] = b /\ s[3] = c /\ s[4] = d /\ s[5] = e /\ s[6] = f /\ s[7] = g
  BY <1>2
<1> HIDE DEF s
<1>4. s = << a, b, c, d, e, f, g >>
  BY <1>2, <1>3
<1> QED BY <1>4 DEF s

LEMMA FindFirst ==
  /\ FindOne = << "get", "select", "set" >>
  /\ FindOne \o << "save", "clear" >> = << "get", "select", "set", "save", "clear" >>
  /\ FindOne \o << "delete", "clear" >> = << "get", "select", "set", "delete", "clear" >>
  /\ FindOne \o << "delete", "find_rest", "move_rest", "clear" >>
       = << "get", "select", "set", "delete", "find_rest", "move_rest", "clear" >>
<1>1. FindOne = << "get", "select", "set" >>
  BY DEF FindOne
<1> QED BY <1>1, Join5, Join7

LEMMA CreatesStep ==
  ASSUME ShowInv, on' = on, NEW c \in Editors, NEW e \in Of(on), e[1] # "layout",
         NEW slug \in Slugs \cup {NoSlug}, Creates(c, e, slug)
  PROVE  Effects
<1>1. /\ rows[e] = Unborn /\ Edits(c, "create", e, << "save", "clear_lists" >>, slug)
      /\ \A d \in Editors : desk[d] # Free => desk[d].key # Detail(e)
  BY DEF Creates
<1>2. e # Setting
  BY DEF Setting
<1>3. Lasts("create", e, << "save", "clear_lists" >>)
  BY <1>2 DEF Lasts, Creations
<1> QED BY <1>1, <1>3, EditsStep

LEMMA UpdatesStep ==
  ASSUME ShowInv, on' = on, NEW c \in Editors, NEW e \in Of(on),
         NEW slug \in Slugs \cup {NoSlug}, Updates(c, e, slug)
  PROVE  Effects
<1> DEFINE todo == << "get", "select", "set", "save", "clear" >>
<1>1. Edits(c, "update", e, todo, slug)
  BY FindFirst DEF Updates
<1>2. Lasts("update", e, todo) /\ "select" \in Steps(todo)
  BY Cut5 DEF Lasts, Updating
<1> HIDE DEF todo
<1> QED BY <1>1, <1>2, EditsStep

LEMMA SortsStep ==
  ASSUME ShowInv, on' = on, NEW c \in Editors, NEW e \in Of(on), NEW clearing,
         \/ e[1] = "promo" /\ clearing = "clear"
         \/ e[1] \in {"hero", "section"} /\ clearing = "clear_lists",
         Sorts(c, e, clearing)
  PROVE  Effects
<1> DEFINE todo == << "select", "save", clearing >>
<1>1. Edits(c, "sort", e, todo, NoSlug)
  BY DEF Sorts
<1>2. Lasts("sort", e, todo) /\ "select" \in Steps(todo)
  BY Cut3 DEF Lasts, Sorting
<1> HIDE DEF todo
<1> QED BY <1>1, <1>2, EditsStep

LEMMA RemovesStep ==
  ASSUME ShowInv, on' = on, NEW c \in Editors, NEW e \in Of(on),
         \/ e[1] \in {"section", "collection"} /\ Removes(c, e)
         \/ e[1] \in {"hero", "side", "promo"} /\ RemovesAndMoves(c, e)
  PROVE  Effects
<1>1. CASE e[1] \in {"section", "collection"} /\ Removes(c, e)
  <2> DEFINE todo == << "get", "select", "set", "delete", "clear" >>
  <2>1. Edits(c, "remove", e, todo, NoSlug)
    BY <1>1, FindFirst DEF Removes
  <2>2. Lasts("remove", e, todo) /\ "select" \in Steps(todo)
    BY <1>1, Cut5 DEF Lasts, Removals
  <2> HIDE DEF todo
  <2> QED BY <2>1, <2>2, EditsStep
<1>2. CASE e[1] \in {"hero", "side", "promo"} /\ RemovesAndMoves(c, e)
  <2> DEFINE todo == << "get", "select", "set", "delete", "find_rest", "move_rest", "clear" >>
  <2>1. Edits(c, "remove", e, todo, NoSlug)
    BY <1>2, FindFirst DEF RemovesAndMoves
  <2>2. Lasts("remove", e, todo) /\ "select" \in Steps(todo)
    BY <1>2, Cut7 DEF Lasts, Movings
  <2> HIDE DEF todo
  <2> QED BY <2>1, <2>2, EditsStep
<1> QED BY <1>1, <1>2

LEMMA SettingStep ==
  ASSUME ShowInv, on' = on, NEW c \in Editors, Setting \in Of(on),
         UpsertSetting(c, Setting) \/ RemoveSetting(c, Setting)
  PROVE  Effects
<1>1. CASE UpsertSetting(c, Setting)
  <2> DEFINE todo == << "select", "save", "clear" >>
  <2>1. Edits(c, "update", Setting, todo, NoSlug)
    BY <1>1 DEF UpsertSetting
  <2>2. Lasts("update", Setting, todo) /\ "select" \in Steps(todo)
    BY Cut3 DEF Lasts, Updating
  <2> HIDE DEF todo
  <2> QED BY <2>1, <2>2, EditsStep
<1>2. CASE RemoveSetting(c, Setting)
  <2> DEFINE todo == << "select", "delete" >>
  <2>1. Edits(c, "remove", Setting, todo, NoSlug)
    BY <1>2 DEF RemoveSetting
  <2>2. Lasts("remove", Setting, todo) /\ "select" \in Steps(todo)
    BY Cut2 DEF Lasts, Unsettings
  <2> HIDE DEF todo
  <2> QED BY <2>1, <2>2, EditsStep
<1> QED BY <1>1, <1>2

LEMMA PageKeeps ==
  ASSUME ShowInv, on' = on, NEW c \in Editors, NEW forAdmin, GetHomePageData(c, forAdmin)
  PROVE  Effects
<1>1. PICK k : Reader(c, k, FindOne)
  BY DEF GetHomePageData
<1>2. Reader(c, k, << "get", "select", "set" >>)
  BY <1>1, FindFirst
<1> QED BY <1>2, ReaderKeeps

LEMMA FindsKeep ==
  ASSUME ShowInv, on' = on, NEW c \in Editors, NEW k, Reader(c, k, FindOne)
  PROVE  Effects
<1>1. Reader(c, k, << "get", "select", "set" >>)
  BY FindFirst
<1> QED BY <1>1, ReaderKeeps

LEMMA HeroSlidersKeep ==
  ASSUME ShowInv, on' = on, NEW c \in Editors, on = "hero", HeroSliders(c)
  PROVE  Effects
<1>1. CASE FindAllHeroSliders(c) \/ FindActiveHeroSliders(c)
  BY <1>1, FindsKeep DEF FindAllHeroSliders, FindActiveHeroSliders
<1>2. ASSUME NEW e \in Elements,
             \/ FindHeroSlider(c, e) \/ CreateHeroSlider(c, e) \/ UpdateHeroSlider(c, e)
             \/ RemoveHeroSlider(c, e) \/ UpdateHeroSliderOrder(c, e)
      PROVE  Effects
  <2>1. e[1] = "hero" /\ e \in Of(on)
    BY <1>2 DEF FindHeroSlider, CreateHeroSlider, UpdateHeroSlider, RemoveHeroSlider, UpdateHeroSliderOrder, Of
  <2>2. CASE FindHeroSlider(c, e)
    BY <2>2, FindsKeep DEF FindHeroSlider
  <2>3. CASE CreateHeroSlider(c, e)
    BY <2>1, <2>3, CreatesStep DEF CreateHeroSlider
  <2>4. CASE UpdateHeroSlider(c, e)
    BY <2>1, <2>4, UpdatesStep DEF UpdateHeroSlider
  <2>5. CASE RemoveHeroSlider(c, e)
    BY <2>1, <2>5, RemovesStep DEF RemoveHeroSlider
  <2>6. CASE UpdateHeroSliderOrder(c, e)
    BY <2>1, <2>6, SortsStep DEF UpdateHeroSliderOrder
  <2> QED BY <1>2, <2>2, <2>3, <2>4, <2>5, <2>6
<1> QED BY <1>1, <1>2 DEF HeroSliders

LEMMA SideBannersKeep ==
  ASSUME ShowInv, on' = on, NEW c \in Editors, on = "side", SideBanners(c)
  PROVE  Effects
<1>1. CASE FindAllSideBanners(c) \/ FindActiveSideBanners(c)
  BY <1>1, FindsKeep DEF FindAllSideBanners, FindActiveSideBanners
<1>2. ASSUME NEW e \in Elements,
             \/ FindSideBanner(c, e) \/ CreateSideBanner(c, e) \/ UpdateSideBanner(c, e)
             \/ RemoveSideBanner(c, e)
      PROVE  Effects
  <2>1. e[1] = "side" /\ e \in Of(on)
    BY <1>2 DEF FindSideBanner, CreateSideBanner, UpdateSideBanner, RemoveSideBanner, Of
  <2>2. CASE FindSideBanner(c, e)
    BY <2>2, FindsKeep DEF FindSideBanner
  <2>3. CASE CreateSideBanner(c, e)
    BY <2>1, <2>3, CreatesStep DEF CreateSideBanner
  <2>4. CASE UpdateSideBanner(c, e)
    BY <2>1, <2>4, UpdatesStep DEF UpdateSideBanner
  <2>5. CASE RemoveSideBanner(c, e)
    BY <2>1, <2>5, RemovesStep DEF RemoveSideBanner
  <2> QED BY <1>2, <2>2, <2>3, <2>4, <2>5
<1> QED BY <1>1, <1>2 DEF SideBanners

LEMMA PromoBannersKeep ==
  ASSUME ShowInv, on' = on, NEW c \in Editors, on = "promo", PromoBanners(c)
  PROVE  Effects
<1>1. CASE FindAllPromoBanners(c)
  BY <1>1, ReaderKeeps DEF FindAllPromoBanners
<1>2. CASE FindActivePromoBanners(c)
  BY <1>2, ReaderKeeps DEF FindActivePromoBanners
<1>3. ASSUME NEW e \in Elements,
             \/ FindPromoBanner(c, e) \/ CreatePromoBanner(c, e) \/ UpdatePromoBanner(c, e)
             \/ TogglePromoBanner(c, e) \/ RemovePromoBanner(c, e) \/ UpdatePromoBannerOrder(c, e)
      PROVE  Effects
  <2>1. e[1] = "promo" /\ e \in Of(on)
    BY <1>3 DEF FindPromoBanner, CreatePromoBanner, UpdatePromoBanner, TogglePromoBanner, RemovePromoBanner,
                UpdatePromoBannerOrder, Of
  <2>2. CASE FindPromoBanner(c, e)
    BY <2>2, FindsKeep DEF FindPromoBanner
  <2>3. CASE CreatePromoBanner(c, e)
    BY <2>1, <2>3, CreatesStep DEF CreatePromoBanner
  <2>4. CASE UpdatePromoBanner(c, e)
    BY <2>1, <2>4, UpdatesStep DEF UpdatePromoBanner
  <2>5. CASE TogglePromoBanner(c, e)
    BY <2>1, <2>5, UpdatesStep DEF TogglePromoBanner
  <2>6. CASE RemovePromoBanner(c, e)
    BY <2>1, <2>6, RemovesStep DEF RemovePromoBanner
  <2>7. CASE UpdatePromoBannerOrder(c, e)
    BY <2>1, <2>7, SortsStep DEF UpdatePromoBannerOrder
  <2> QED BY <1>3, <2>2, <2>3, <2>4, <2>5, <2>6, <2>7
<1> QED BY <1>1, <1>2, <1>3 DEF PromoBanners

LEMMA SectionsKeep ==
  ASSUME ShowInv, on' = on, NEW c \in Editors, on = "section", Sections(c)
  PROVE  Effects
<1>1. CASE FindActiveSections(c)
  BY <1>1, FindsKeep DEF FindActiveSections
<1>2. ASSUME NEW e \in Elements,
             \/ FindSection(c, e) \/ CreateSection(c, e) \/ UpdateSection(c, e)
             \/ RemoveSection(c, e) \/ UpdateSectionOrder(c, e)
      PROVE  Effects
  <2>1. e[1] = "section" /\ e \in Of(on)
    BY <1>2 DEF FindSection, CreateSection, UpdateSection, RemoveSection, UpdateSectionOrder, Of
  <2>2. CASE FindSection(c, e)
    BY <2>2, FindsKeep DEF FindSection
  <2>3. CASE CreateSection(c, e)
    BY <2>1, <2>3, CreatesStep DEF CreateSection
  <2>4. CASE UpdateSection(c, e)
    BY <2>1, <2>4, UpdatesStep DEF UpdateSection
  <2>5. CASE RemoveSection(c, e)
    BY <2>1, <2>5, RemovesStep DEF RemoveSection
  <2>6. CASE UpdateSectionOrder(c, e)
    BY <2>1, <2>6, SortsStep DEF UpdateSectionOrder
  <2> QED BY <1>2, <2>2, <2>3, <2>4, <2>5, <2>6
<1> QED BY <1>1, <1>2 DEF Sections

LEMMA CollectionsKeep ==
  ASSUME ShowInv, on' = on, NEW c \in Editors, on = "collection", Collections(c)
  PROVE  Effects
<1>1. CASE FindActiveCollections(c) \/ FindAllCollections(c)
  BY <1>1, FindsKeep DEF FindActiveCollections, FindAllCollections
<1>2. CASE \E s \in Slugs : FindCollectionBySlug(c, s)
  BY <1>2, FindsKeep DEF FindCollectionBySlug
<1>3. ASSUME NEW e \in Elements,
             FindCollection(c, e) \/ AddProducts(c, e) \/ RemoveProduct(c, e) \/ RemoveCollection(c, e)
      PROVE  Effects
  <2>1. e[1] = "collection" /\ e \in Of(on)
    BY <1>3 DEF FindCollection, AddProducts, RemoveProduct, RemoveCollection, Of
  <2>2. CASE FindCollection(c, e)
    BY <2>2, FindsKeep DEF FindCollection
  <2>3. CASE AddProducts(c, e)
    BY <2>1, <2>3, UpdatesStep DEF AddProducts
  <2>4. CASE RemoveProduct(c, e)
    BY <2>1, <2>4, UpdatesStep DEF RemoveProduct
  <2>5. CASE RemoveCollection(c, e)
    BY <2>1, <2>5, RemovesStep DEF RemoveCollection
  <2> QED BY <1>3, <2>2, <2>3, <2>4, <2>5
<1>4. ASSUME NEW e \in Elements, NEW s \in Slugs, CreateCollection(c, e, s) \/ UpdateCollection(c, e, s)
      PROVE  Effects
  <2>1. e[1] = "collection" /\ e \in Of(on)
    BY <1>4 DEF CreateCollection, UpdateCollection, Of
  <2>2. CASE CreateCollection(c, e, s)
    BY <2>1, <2>2, CreatesStep DEF CreateCollection
  <2>3. CASE UpdateCollection(c, e, s)
    BY <2>1, <2>3, UpdatesStep DEF UpdateCollection
  <2> QED BY <1>4, <2>2, <2>3
<1> QED BY <1>1, <1>2, <1>3, <1>4 DEF Collections

LEMMA LayoutKeeps ==
  ASSUME ShowInv, on' = on, NEW c \in Editors, on = "layout", Layout(c)
  PROVE  Effects
<1>1. Setting \in Of(on)
  <2>1. on \in Kinds
    BY DEF ShowInv, ShowTyped
  <2> QED BY <2>1 DEF Of, Elements, Setting
<1>2. CASE GetLayoutType(c)
  BY <1>2, FindsKeep DEF GetLayoutType
<1>3. CASE UpsertSetting(c, Setting) \/ RemoveSetting(c, Setting)
  BY <1>1, <1>3, SettingStep
<1> QED BY <1>2, <1>3 DEF Layout

-----------------------------------------------------------------------------
(* The theorems. *)

LEMMA AwaitsKeep ==
  ASSUME ShowInv, Watches, on' = on, NEW c \in Editors, Awaits(c)
  PROVE  Effects
<1>1. CASE Gets(c)
  BY <1>1, GetsKeep
<1>2. CASE Selects(c)
  BY <1>2, SelectsKeep
<1>3. CASE NotFound(c) \/ Conflicts(c) \/ Breaks(c)
  BY <1>3, EndsKeep
<1>4. CASE Sets(c)
  BY <1>4, SetsKeep
<1>5. CASE Saves(c)
  BY <1>5, SavesKeep
<1>6. CASE Deletes(c)
  BY <1>6, DeletesKeep
<1>7. CASE FindsRest(c)
  BY <1>7, FindsRestKeeps
<1>8. CASE \E e \in Elements : MovesOne(c, e)
  BY <1>8, MovesOneKeeps
<1>9. CASE MovedAll(c)
  BY <1>9, MovedAllKeeps
<1>10. CASE Clears(c)
  BY <1>10, ClearsKeep
<1> QED BY <1>1, <1>2, <1>3, <1>4, <1>5, <1>6, <1>7, <1>8, <1>9, <1>10 DEF Awaits

LEMMA ShowNext ==
  ASSUME ShowInv, WatchedNext
  PROVE  ShowInv'
<1>1. on' = on /\ Watches
  BY DEF WatchedNext
<1>2. CASE \E c \in Editors : CASE on = "hero" -> HeroSliders(c) \/ \E forAdmin \in BOOLEAN : GetHomePageData(c, forAdmin)
               [] on = "side" -> SideBanners(c)
               [] on = "promo" -> PromoBanners(c)
               [] on = "section" -> Sections(c)
               [] on = "collection" -> Collections(c)
               [] on = "layout" -> Layout(c)
  <2>1. PICK c \in Editors : CASE on = "hero" -> HeroSliders(c) \/ \E forAdmin \in BOOLEAN : GetHomePageData(c, forAdmin)
               [] on = "side" -> SideBanners(c)
               [] on = "promo" -> PromoBanners(c)
               [] on = "section" -> Sections(c)
               [] on = "collection" -> Collections(c)
               [] on = "layout" -> Layout(c)
    BY <1>2
  <2>2. on \in {"hero", "side", "promo", "section", "collection", "layout"}
    BY ShowcaseAssumption DEF ShowInv, ShowTyped
  <2>3. CASE on = "hero"
    <3>1. HeroSliders(c) \/ \E forAdmin \in BOOLEAN : GetHomePageData(c, forAdmin)
      BY <2>1, <2>3
    <3> QED BY <1>1, <2>3, <3>1, HeroSlidersKeep, PageKeeps, EffectsKeep
  <2>4. CASE on = "side"
    <3>1. SideBanners(c)
      BY <2>1, <2>4
    <3> QED BY <1>1, <2>4, <3>1, SideBannersKeep, EffectsKeep
  <2>5. CASE on = "promo"
    <3>1. PromoBanners(c)
      BY <2>1, <2>5
    <3> QED BY <1>1, <2>5, <3>1, PromoBannersKeep, EffectsKeep
  <2>6. CASE on = "section"
    <3>1. Sections(c)
      BY <2>1, <2>6
    <3> QED BY <1>1, <2>6, <3>1, SectionsKeep, EffectsKeep
  <2>7. CASE on = "collection"
    <3>1. Collections(c)
      BY <2>1, <2>7
    <3> QED BY <1>1, <2>7, <3>1, CollectionsKeep, EffectsKeep
  <2>8. CASE on = "layout"
    <3>1. Layout(c)
      BY <2>1, <2>8
    <3> QED BY <1>1, <2>8, <3>1, LayoutKeeps, EffectsKeep
  <2> QED BY <2>2, <2>3, <2>4, <2>5, <2>6, <2>7, <2>8
<1>3. CASE \E c \in Editors : Awaits(c)
  BY <1>1, <1>3, AwaitsKeep, EffectsKeep
<1>4. CASE \E k \in Shelf : Lapses(k)
  BY <1>1, <1>4, LapsesKeep, EffectsKeep
<1> QED BY <1>2, <1>3, <1>4 DEF WatchedNext

LEMMA ShowInit ==
  ASSUME WatchedInit(Kinds)
  PROVE  ShowInv
<1>1. /\ on \in Kinds /\ shelf = [k \in Shelf |-> Bare] /\ desk = [c \in Editors |-> Free] /\ edits = 0
      /\ done = {} /\ removed = {} /\ unswept = {} /\ late = {} /\ blamed = {}
  BY DEF WatchedInit, ShowcaseInit
<1>2. DOMAIN rows = Elements /\ \A e \in Elements : rows[e] \in {Unborn, Gone} \cup Rows
  <2> DEFINE there == { e \in Elements : e[1] = on /\ e[2] # Latest }
  <2>1. PICK slugOf \in [Of("collection") \cap there -> Slugs] :
          rows = [e \in Elements |-> IF e \notin there THEN Unborn
                                     ELSE Row({}, IF e[1] = "collection" THEN slugOf[e] ELSE NoSlug)]
    BY DEF WatchedInit, ShowcaseInit
  <2> HIDE DEF there
  <2>2. ASSUME NEW e \in Elements, e \in there PROVE rows[e] \in Rows
    <3>1. CASE e[1] = "collection"
      <4>1. e \in Of("collection")
        BY <3>1 DEF Of
      <4>2. slugOf[e] \in Slugs /\ rows[e] = Row({}, slugOf[e])
        BY <2>1, <2>2, <3>1, <4>1
      <4> QED BY <4>2 DEF Row, Rows
    <3>2. CASE e[1] # "collection"
      <4>1. rows[e] = Row({}, NoSlug)
        BY <2>1, <2>2, <3>2
      <4> QED BY <4>1 DEF Row, Rows
    <3> QED BY <3>1, <3>2
  <2> QED BY <2>1, <2>2
<1>3. \A c \in Editors : ~Engaged(c)
  BY <1>1 DEF Engaged
<1>4. 0 \in 0 .. MaxEdits
  BY ShowcaseAssumption
<1>5. ShowTyped
  BY <1>1, <1>2, <1>3, <1>4 DEF ShowTyped
<1> QED BY <1>1, <1>3, <1>5
        DEF ShowInv, RequestsFit, CreatesApart, ShelfFits, UnbornUnseen, FreshOrCleared, HistoryFits

LEMMA ShowStays ==
  ASSUME ShowInv, UNCHANGED << showcaseVars, watch >>
  PROVE  ShowInv'
<1>1. /\ rows' = rows /\ shelf' = shelf /\ desk' = desk /\ edits' = edits /\ on' = on
      /\ done' = done /\ removed' = removed /\ unswept' = unswept /\ late' = late /\ blamed' = blamed
  BY DEF showcaseVars, watch
<1>2. \A k \in Shelf : Query(k)' = Query(k)
  BY <1>1, QuerySame
<1>3. ShowTyped'
  BY <1>1 DEF ShowInv, ShowTyped, Engaged
<1>4. \A c : Tasks(c)' = Tasks(c) /\ Element(c)' = Element(c) /\ (Engaged(c)' <=> Engaged(c)) /\ (Writing(c)' <=> Writing(c))
  BY <1>1 DEF Tasks, Element, Engaged, Writing
<1>5. \A e : Exists(e)' <=> Exists(e)
  BY <1>1 DEF Exists
<1>6. Of(on)' = Of(on)
  BY <1>1 DEF Of
<1>7. ASSUME NEW c \in Editors, Engaged(c) PROVE OnItsWay(c)'
  <2>1. OnItsWay(c)
    BY <1>7 DEF ShowInv, RequestsFit
  <2> QED BY <1>1, <1>4, <1>6, <2>1 DEF OnItsWay, FitsKey, Lasts
<1>8. ASSUME NEW c \in Editors, Engaged(c) PROVE HoldsFresh(c)'
  BY <1>1, <1>2, <1>4, <1>8 DEF ShowInv, RequestsFit, HoldsFresh
<1>9. ASSUME NEW c \in Editors, Engaged(c) PROVE HoldsCurrent(c)'
  BY <1>1, <1>4, <1>5, <1>9 DEF ShowInv, RequestsFit, HoldsCurrent, Current
<1>10. RequestsFit' /\ CreatesApart' /\ ShelfFits'
  BY <1>1, <1>4, <1>7, <1>8, <1>9 DEF ShowInv, RequestsFit, CreatesApart, ShelfFits, FitsKey
<1>11. UnbornUnseen' /\ HistoryFits'
  BY <1>1, <1>4, <1>5, <1>6 DEF ShowInv, UnbornUnseen, HistoryFits
<1>12. FreshOrCleared'
  <2>1. \A c, k : WillClear(c, k)' <=> WillClear(c, k)
    BY <1>1, <1>4 DEF WillClear, ToClear
  <2> QED BY <1>1, <1>2, <2>1 DEF ShowInv, FreshOrCleared
<1> QED BY <1>3, <1>10, <1>11, <1>12 DEF ShowInv

LEMMA ShowAlways == WatchedShowcaseSpec => []ShowInv
<1>1. WatchedInit(Kinds) => ShowInv
  BY ShowInit
<1>2. ShowInv /\ [WatchedNext]_<< showcaseVars, watch >> => ShowInv'
  BY ShowNext, ShowStays
<1> QED BY <1>1, <1>2, PTL DEF WatchedShowcaseSpec

LEMMA ShowHolds ==
  ASSUME ShowInv
  PROVE  ShowcaseTypeOK /\ EditsKept /\ ShelfFresh
<1>1. ShowcaseTypeOK
  <2>1. \A e \in Elements : Exists(e) => rows[e].edits \subseteq 1 .. MaxEdits
    BY DEF ShowInv, ShowTyped, Exists, Rows
  <2>2. \A k \in Shelf : shelf[k] = Bare \/ DOMAIN shelf[k] \subseteq Elements
    BY DEF ShowInv, ShowTyped, IsCopy
  <2> QED BY <2>1, <2>2 DEF ShowInv, ShowTyped, ShowcaseTypeOK
<1>2. EditsKept
  BY DEF ShowInv, HistoryFits, EditsKept, Exists
<1>3. ShelfFresh
  BY DEF ShowInv, FreshOrCleared, ShelfFresh, WillClear
<1> QED BY <1>1, <1>2, <1>3

\* Rows, keys and requests keep their types: what a request read from Redis or
\* from the table is nothing or a copy of rows, and so is what a key holds
\* (the services of the home page and of the collections).
THEOREM ShowcaseTyping == WatchedShowcaseSpec => []ShowcaseTypeOK
<1>1. ShowInv => ShowcaseTypeOK
  BY ShowHolds
<1> QED BY <1>1, ShowAlways, PTL

\* A saved edit of a slider, banner, section or collection stays until the row
\* is deleted, and a deleted row stays deleted, although the services save the
\* copy they looked up before: only a request that was overtaken, or that was
\* served a copy older than the row, takes an edit back.
THEOREM EditsStay == WatchedShowcaseSpec => []EditsKept
<1>1. ShowInv => EditsKept
  BY ShowHolds
<1> QED BY <1>1, ShowAlways, PTL

\* A key of Redis shows the rows as soon as the requests that clear it after
\* their save are done, whatever the order they run in, unless the code does not
\* clear it for that change or a reader set what it had read before.
THEOREM ShelfStaysFresh == WatchedShowcaseSpec => []ShelfFresh
<1>1. ShowInv => ShelfFresh
  BY ShowHolds
<1> QED BY <1>1, ShowAlways, PTL

=============================================================================
