---------------------------- MODULE QueriesProofs ----------------------------
(* Proofs, for any documents, queries and nesting, of what module Queries says
   of point reads and of matching.

   What recurses over values or predicates is shown to satisfy its equation
   first: by induction on the nesting there is a function that does, since the
   equation only looks at what is nested one level deeper.                    *)
EXTENDS Queries, SequenceTheorems, FiniteSetTheorems, WellFoundedInduction, TLAPS

\* Induction over a set, the form that needs no operator for the hypothesis.
LEMMA Induction ==
  ASSUME NEW S, 0 \in S, \A n \in Nat : n \in S => n + 1 \in S
  PROVE  Nat \subseteq S
<1> DEFINE Others == Nat \ S
<1> SUFFICES ASSUME Others # {} PROVE FALSE
  OBVIOUS
<1>1. PICK n \in Others : \A m \in Others : <<m, n>> \notin OpToRel(<, Nat)
  <2>1. IsWellFoundedOn(OpToRel(<, Nat), Nat)
    BY NatLessThanWellFounded, Zenon
  <2>2. Others \subseteq Nat
    OBVIOUS
  <2> HIDE DEF Others
  <2> QED BY <2>1, <2>2, WFMin, Zenon
<1>2. \A m \in Nat : m < n => m \in S
  <2>1. \A m \in Nat : m < n => <<m, n>> \in OpToRel(<, Nat)
    BY DEF OpToRel
  <2> QED BY <1>1, <2>1
<1>3. n # 0 /\ n - 1 \in Nat /\ n - 1 < n
  OBVIOUS
<1>4. (n - 1) + 1 \in S
  BY <1>2, <1>3
<1> QED BY <1>4

-----------------------------------------------------------------------------
(* Values.                                                                   *)
NestedIn(values) == [t : Nested, v : {0}, items : Seq(ItemsOf(values))]

\* The recursion of Value.
LEMMA ValueUnfolds ==
  Value[0] = Scalars /\ \A n \in 1 .. Nesting : Value[n] = Scalars \cup NestedIn(Value[n - 1])
<1> DEFINE Step(f, n) == IF n = 0 THEN Scalars ELSE Scalars \cup NestedIn(f[n - 1])
           Defined == {k \in Nat : \E f : f = [n \in 0 .. k |-> Step(f, n)]}
<1>0. Nesting \in Nat
  BY QueriesAssumption
<1>1. 0 \in Defined
  <2> DEFINE f == [n \in 0 .. 0 |-> Scalars]
  <2>1. \A n \in 0 .. 0 : n = 0
    OBVIOUS
  <2>2. f = [n \in 0 .. 0 |-> Step(f, n)]
    BY <2>1
  <2> QED BY <2>2, Zenon
<1>2. ASSUME NEW k \in Nat, k \in Defined PROVE k + 1 \in Defined
  <2>1. PICK f : f = [n \in 0 .. k |-> Step(f, n)]
    BY <1>2
  <2> DEFINE g == [n \in 0 .. k + 1 |-> Step(f, n)]
  <2>2. \A n \in 0 .. k : f[n] = Step(f, n) /\ g[n] = Step(f, n)
    <3> HIDE DEF Step
    <3>1. \A n \in 0 .. k : n \in 0 .. k + 1
      OBVIOUS
    <3> QED BY <2>1, <3>1
  <2>3. ASSUME NEW n \in 0 .. k + 1 PROVE Step(f, n) = Step(g, n)
    <3>1. n # 0 => n - 1 \in 0 .. k
      OBVIOUS
    <3> HIDE DEF g
    <3> QED BY <2>2, <3>1
  <2>4. g = [n \in 0 .. k + 1 |-> Step(g, n)]
    <3> HIDE DEF Step
    <3> QED BY <2>3
  <2> HIDE DEF g, Step
  <2>5. \E h : h = [n \in 0 .. k + 1 |-> Step(h, n)]
    BY <2>4, Zenon
  <2>6. k + 1 \in Nat
    OBVIOUS
  <2> QED BY <2>5, <2>6, Zenon
<1>3. Nesting \in Defined
  <2> HIDE DEF Defined
  <2> QED BY <1>0, <1>1, <1>2, Induction
<1>4. Value = CHOOSE f : f = [n \in 0 .. Nesting |-> Step(f, n)]
  BY DEF Value, NestedIn
<1> HIDE DEF Step
<1>5. Value = [n \in 0 .. Nesting |-> Step(Value, n)]
  BY <1>3, <1>4
<1>6. \A n \in 0 .. Nesting : Value[n] = Step(Value, n)
  BY <1>5
<1>7. 0 \in 0 .. Nesting /\ \A n \in 1 .. Nesting : n \in 0 .. Nesting /\ n # 0
  BY <1>0
<1> QED BY <1>6, <1>7 DEF Step

\* More values, more items, more sequences of items.
LEMMA NestedGrows ==
  ASSUME NEW A, NEW B, A \subseteq B
  PROVE  ItemsOf(A) \subseteq ItemsOf(B) /\ NestedIn(A) \subseteq NestedIn(B)
<1>1. ItemsOf(A) \subseteq ItemsOf(B)
  BY DEF ItemsOf
<1>2. Seq(ItemsOf(A)) \subseteq Seq(ItemsOf(B))
  <2> SUFFICES ASSUME NEW s \in Seq(ItemsOf(A)) PROVE s \in Seq(ItemsOf(B))
    OBVIOUS
  <2>1. s \in [1 .. Len(s) -> ItemsOf(A)] /\ Len(s) \in Nat
    BY SeqDef, LenProperties
  <2>2. s \in [1 .. Len(s) -> ItemsOf(B)]
    BY <1>1, <2>1
  <2> QED BY <2>1, <2>2, SeqDef
<1> QED BY <1>1, <1>2 DEF NestedIn

\* A value of some nesting is one of the next.
LEMMA ValueGrows ==
  ASSUME NEW n \in 1 .. Nesting
  PROVE  Value[n - 1] \subseteq Value[n]
<1> DEFINE Good == {k \in Nat : k + 1 <= Nesting => Value[k] \subseteq Value[k + 1]}
<1>0. Nesting \in Nat
  BY QueriesAssumption
<1>1. 0 \in Good
  <2>1. 1 <= Nesting => Value[1] = Scalars \cup NestedIn(Value[0])
    <3>1. 1 <= Nesting => 1 \in 1 .. Nesting /\ 1 - 1 = 0
      BY <1>0
    <3> QED BY <3>1, ValueUnfolds
  <2> QED BY <2>1, ValueUnfolds
<1>2. ASSUME NEW k \in Nat, k \in Good PROVE k + 1 \in Good
  <2> SUFFICES ASSUME (k + 1) + 1 <= Nesting PROVE Value[k + 1] \subseteq Value[(k + 1) + 1]
    OBVIOUS
  <2>1. /\ k + 1 \in 1 .. Nesting /\ (k + 1) + 1 \in 1 .. Nesting
        /\ (k + 1) - 1 = k /\ ((k + 1) + 1) - 1 = k + 1 /\ k + 1 <= Nesting
    BY <1>0
  <2>2. Value[k] \subseteq Value[k + 1]
    BY <1>2, <2>1
  <2>3. Value[k + 1] = Scalars \cup NestedIn(Value[k]) /\ Value[(k + 1) + 1] = Scalars \cup NestedIn(Value[k + 1])
    BY <2>1, ValueUnfolds
  <2>4. NestedIn(Value[k]) \subseteq NestedIn(Value[k + 1])
    BY <2>2, NestedGrows
  <2> QED BY <2>3, <2>4
<1>3. n - 1 \in Good
  <2>1. n - 1 \in Nat
    BY <1>0
  <2> HIDE DEF Good
  <2> QED BY <1>1, <1>2, <2>1, Induction
<1> QED BY <1>0, <1>3

LEMMA ValueIsValue ==
  ASSUME NEW n \in 0 .. Nesting
  PROVE  Value[n] \subseteq Values
<1> DEFINE Good == {k \in Nat : k <= Nesting => Value[Nesting - k] \subseteq Values}
<1>0. Nesting \in Nat
  BY QueriesAssumption
<1>1. 0 \in Good
  BY <1>0 DEF Values
<1>2. ASSUME NEW k \in Nat, k \in Good PROVE k + 1 \in Good
  <2> SUFFICES ASSUME k + 1 <= Nesting PROVE Value[Nesting - (k + 1)] \subseteq Values
    OBVIOUS
  <2>1. k <= Nesting /\ Nesting - k \in 1 .. Nesting /\ (Nesting - k) - 1 = Nesting - (k + 1)
    BY <1>0
  <2> QED BY <1>2, <2>1, ValueGrows
<1>3. Nesting - n \in Good
  <2>1. Nesting - n \in Nat
    BY <1>0
  <2> HIDE DEF Good
  <2> QED BY <1>1, <1>2, <2>1, Induction
<1>4. Nesting - n <= Nesting /\ Nesting - (Nesting - n) = n
  BY <1>0
<1> QED BY <1>3, <1>4

\* What is nested in a value is nested less deep.
LEMMA ValueParts ==
  ASSUME NEW n \in 0 .. Nesting, NEW val \in Value[n]
  PROVE  /\ val \in Values /\ Len(val.items) \in Nat /\ DOMAIN val.items = 1 .. Len(val.items)
         /\ \A i \in DOMAIN val.items :
              /\ n # 0 /\ n - 1 \in 0 .. Nesting
              /\ val.items[i] \in ItemsOf(Value[n - 1]) /\ val.items[i] \in Items
              /\ val.items[i].val \in Value[n - 1] /\ val.items[i].key \in STRING
         /\ val.t \notin Nested => val.items = <<>> /\ val.v \in 0 .. (Contents - 1)
<1>1. val \in Values
  BY ValueIsValue
<1>2. val \in Scalars \/ (n # 0 /\ val \in NestedIn(Value[n - 1]))
  <2>1. n = 0 \/ n \in 1 .. Nesting
    BY QueriesAssumption
  <2> QED BY <2>1, ValueUnfolds
<1>3. CASE val \in Scalars
  <2>1. val.items = <<>> /\ val.v \in 0 .. (Contents - 1)
    BY <1>3 DEF Scalars
  <2> QED BY <1>1, <2>1
<1>4. CASE n # 0 /\ val \in NestedIn(Value[n - 1])
  <2>1. val.t \in Nested /\ val.items \in Seq(ItemsOf(Value[n - 1]))
    BY <1>4 DEF NestedIn
  <2>2. n - 1 \in 0 .. Nesting
    BY <1>4, QueriesAssumption
  <2>3. Len(val.items) \in Nat /\ DOMAIN val.items = 1 .. Len(val.items)
    BY <2>1, LenProperties
  <2>4. \A i \in DOMAIN val.items : val.items[i] \in ItemsOf(Value[n - 1])
    BY <2>1, <2>3, ElementOfSeq
  <2>5. ItemsOf(Value[n - 1]) \subseteq Items
    BY <2>2, ValueIsValue, NestedGrows DEF Items
  <2>6. \A x \in ItemsOf(Value[n - 1]) : x.val \in Value[n - 1] /\ x.key \in STRING
    BY DEF ItemsOf
  <2> QED BY <1>1, <1>4, <2>1, <2>2, <2>3, <2>4, <2>5, <2>6
<1> QED BY <1>2, <1>3, <1>4
-----------------------------------------------------------------------------
(* Predicates.                                                               *)
Compound(preds) == [kind : {"and", "or"}, parts : Seq(preds)] \cup [kind : {"not"}, inner : preds]

\* The recursion of Predicate.
LEMMA PredicateUnfolds ==
  /\ Predicate[0] = Flat
  /\ \A n \in 1 .. (2 * Nesting) : Predicate[n] = Flat \cup Compound(Predicate[n - 1])
<1> DEFINE Step(f, n) == IF n = 0 THEN Flat ELSE Flat \cup Compound(f[n - 1])
           Defined == {k \in Nat : \E f : f = [n \in 0 .. k |-> Step(f, n)]}
<1>0. 2 * Nesting \in Nat
  BY QueriesAssumption
<1>1. 0 \in Defined
  <2> DEFINE f == [n \in 0 .. 0 |-> Flat]
  <2>1. \A n \in 0 .. 0 : n = 0
    OBVIOUS
  <2>2. f = [n \in 0 .. 0 |-> Step(f, n)]
    BY <2>1
  <2> QED BY <2>2, Zenon
<1>2. ASSUME NEW k \in Nat, k \in Defined PROVE k + 1 \in Defined
  <2>1. PICK f : f = [n \in 0 .. k |-> Step(f, n)]
    BY <1>2
  <2> DEFINE g == [n \in 0 .. k + 1 |-> Step(f, n)]
  <2>2. \A n \in 0 .. k : f[n] = Step(f, n) /\ g[n] = Step(f, n)
    <3> HIDE DEF Step
    <3>1. \A n \in 0 .. k : n \in 0 .. k + 1
      OBVIOUS
    <3> QED BY <2>1, <3>1
  <2>3. ASSUME NEW n \in 0 .. k + 1 PROVE Step(f, n) = Step(g, n)
    <3>1. n # 0 => n - 1 \in 0 .. k
      OBVIOUS
    <3> HIDE DEF g
    <3> QED BY <2>2, <3>1
  <2>4. g = [n \in 0 .. k + 1 |-> Step(g, n)]
    <3> HIDE DEF Step
    <3> QED BY <2>3
  <2> HIDE DEF g, Step
  <2>5. \E h : h = [n \in 0 .. k + 1 |-> Step(h, n)]
    BY <2>4, Zenon
  <2>6. k + 1 \in Nat
    OBVIOUS
  <2> QED BY <2>5, <2>6, Zenon
<1>3. 2 * Nesting \in Defined
  <2> HIDE DEF Defined
  <2> QED BY <1>0, <1>1, <1>2, Induction
<1>4. Predicate = CHOOSE f : f = [n \in 0 .. (2 * Nesting) |-> Step(f, n)]
  <2>1. \A f, n : Step(f, n) = IF n = 0 THEN Flat
                               ELSE Flat \cup [kind : {"and", "or"}, parts : Seq(f[n - 1])]
                                         \cup [kind : {"not"}, inner : f[n - 1]]
    BY DEF Compound
  <2> HIDE DEF Step
  <2> QED BY <2>1 DEF Predicate
<1> HIDE DEF Step
<1>5. Predicate = [n \in 0 .. (2 * Nesting) |-> Step(Predicate, n)]
  BY <1>3, <1>4
<1>6. \A n \in 0 .. (2 * Nesting) : Predicate[n] = Step(Predicate, n)
  BY <1>5
<1>7. 0 \in 0 .. (2 * Nesting) /\ \A n \in 1 .. (2 * Nesting) : n \in 0 .. (2 * Nesting) /\ n # 0
  BY <1>0
<1> QED BY <1>6, <1>7 DEF Step

LEMMA CompoundGrows ==
  ASSUME NEW A, NEW B, A \subseteq B
  PROVE  Compound(A) \subseteq Compound(B)
<1>1. Seq(A) \subseteq Seq(B)
  <2> SUFFICES ASSUME NEW s \in Seq(A) PROVE s \in Seq(B)
    OBVIOUS
  <2>1. s \in [1 .. Len(s) -> A] /\ Len(s) \in Nat
    BY SeqDef, LenProperties
  <2>2. s \in [1 .. Len(s) -> B]
    BY <2>1
  <2> QED BY <2>1, <2>2, SeqDef
<1> QED BY <1>1 DEF Compound

\* A predicate of some nesting is one of the next, and so of all above.
LEMMA PredicateGrows ==
  ASSUME NEW n \in 1 .. (2 * Nesting)
  PROVE  Predicate[n - 1] \subseteq Predicate[n]
<1> DEFINE Good == {k \in Nat : k + 1 <= 2 * Nesting => Predicate[k] \subseteq Predicate[k + 1]}
<1>0. 2 * Nesting \in Nat
  BY QueriesAssumption
<1>1. 0 \in Good
  <2>1. 1 <= 2 * Nesting => Predicate[1] = Flat \cup Compound(Predicate[0])
    <3>1. 1 <= 2 * Nesting => 1 \in 1 .. (2 * Nesting) /\ 1 - 1 = 0
      BY <1>0
    <3> QED BY <3>1, PredicateUnfolds
  <2> QED BY <2>1, PredicateUnfolds
<1>2. ASSUME NEW k \in Nat, k \in Good PROVE k + 1 \in Good
  <2> SUFFICES ASSUME (k + 1) + 1 <= 2 * Nesting PROVE Predicate[k + 1] \subseteq Predicate[(k + 1) + 1]
    OBVIOUS
  <2>1. /\ k + 1 \in 1 .. (2 * Nesting) /\ (k + 1) + 1 \in 1 .. (2 * Nesting)
        /\ (k + 1) - 1 = k /\ ((k + 1) + 1) - 1 = k + 1 /\ k + 1 <= 2 * Nesting
    BY <1>0
  <2>2. Predicate[k] \subseteq Predicate[k + 1]
    BY <1>2, <2>1
  <2>3. /\ Predicate[k + 1] = Flat \cup Compound(Predicate[k])
        /\ Predicate[(k + 1) + 1] = Flat \cup Compound(Predicate[k + 1])
    BY <2>1, PredicateUnfolds
  <2>4. Compound(Predicate[k]) \subseteq Compound(Predicate[k + 1])
    BY <2>2, CompoundGrows
  <2> QED BY <2>3, <2>4
<1>3. n - 1 \in Good
  <2>1. n - 1 \in Nat
    BY <1>0
  <2> HIDE DEF Good
  <2> QED BY <1>1, <1>2, <2>1, Induction
<1> QED BY <1>0, <1>3

LEMMA PredicatesGrow ==
  ASSUME NEW m \in 0 .. (2 * Nesting), NEW n \in m .. (2 * Nesting)
  PROVE  Predicate[m] \subseteq Predicate[n]
<1> DEFINE Good == {k \in Nat : m + k <= 2 * Nesting => Predicate[m] \subseteq Predicate[m + k]}
<1>0. 2 * Nesting \in Nat
  BY QueriesAssumption
<1>1. 0 \in Good
  OBVIOUS
<1>2. ASSUME NEW k \in Nat, k \in Good PROVE k + 1 \in Good
  <2> SUFFICES ASSUME m + (k + 1) <= 2 * Nesting PROVE Predicate[m] \subseteq Predicate[m + (k + 1)]
    OBVIOUS
  <2>1. m + (k + 1) \in 1 .. (2 * Nesting) /\ (m + (k + 1)) - 1 = m + k /\ m + k <= 2 * Nesting
    BY <1>0
  <2>2. Predicate[m + k] \subseteq Predicate[m + (k + 1)]
    BY <2>1, PredicateGrows
  <2> QED BY <1>2, <2>1, <2>2
<1>3. n - m \in Good
  <2>1. n - m \in Nat
    BY <1>0
  <2> HIDE DEF Good
  <2> QED BY <1>1, <1>2, <2>1, Induction
<1>4. m + (n - m) = n /\ n <= 2 * Nesting
  BY <1>0
<1> QED BY <1>3, <1>4

\* What is nested in a predicate is nested less deep.
LEMMA PredicateParts ==
  ASSUME NEW n \in 0 .. (2 * Nesting), NEW p \in Predicate[n]
  PROVE  /\ p \in Predicates
         /\ p.kind \in {"always", "field", "and", "or", "not"}
         /\ p.kind = "field" => p.name \in STRING /\ p.op \in Operators /\ p.arg \in Values
         /\ p.kind \in {"and", "or"} =>
              /\ p.parts \in Seq(Predicates) /\ n # 0
              /\ \A i \in DOMAIN p.parts : p.parts[i] \in Predicate[n - 1]
         /\ p.kind = "not" => n # 0 /\ p.inner \in Predicate[n - 1]
<1>0. 2 * Nesting \in Nat
  BY QueriesAssumption
<1>1. \A m \in 0 .. (2 * Nesting) : Predicate[m] \subseteq Predicates
  <2> SUFFICES ASSUME NEW m \in 0 .. (2 * Nesting) PROVE Predicate[m] \subseteq Predicates
    OBVIOUS
  <2>1. 2 * Nesting \in m .. (2 * Nesting)
    BY <1>0
  <2> QED BY <2>1, PredicatesGrow DEF Predicates
<1>2. p \in Flat \/ (n # 0 /\ p \in Compound(Predicate[n - 1]))
  <2>1. n = 0 \/ n \in 1 .. (2 * Nesting)
    BY <1>0
  <2> QED BY <2>1, PredicateUnfolds
<1>3. CASE p \in Flat
  BY <1>1, <1>3 DEF Flat, Always
<1>4. CASE n # 0 /\ p \in [kind : {"and", "or"}, parts : Seq(Predicate[n - 1])]
  <2>1. n - 1 \in 0 .. (2 * Nesting)
    BY <1>0, <1>4
  <2>2. Predicate[n - 1] \subseteq Predicates
    BY <1>1, <2>1
  <2>3. p.kind \in {"and", "or"} /\ p.parts \in Seq(Predicate[n - 1])
    BY <1>4
  <2>4. p.parts \in [1 .. Len(p.parts) -> Predicate[n - 1]] /\ Len(p.parts) \in Nat
    BY <2>3, LenProperties, SeqDef
  <2>5. p.parts \in [1 .. Len(p.parts) -> Predicates]
    BY <2>2, <2>4
  <2>6. p.parts \in Seq(Predicates)
    BY <2>4, <2>5, SeqDef
  <2> QED BY <1>1, <1>4, <2>3, <2>4, <2>6
<1>5. CASE n # 0 /\ p \in [kind : {"not"}, inner : Predicate[n - 1]]
  BY <1>1, <1>5
<1> QED BY <1>2, <1>3, <1>4, <1>5 DEF Compound

-----------------------------------------------------------------------------
(* The recursions over values and predicates satisfy their equations.        *)
LEMMA ParseOperatorReads ==
  ASSUME NEW f, NEW g, NEW name, NEW item,
         \A i \in DOMAIN item.val.items : f[item.val.items[i]] = g[item.val.items[i]]
  PROVE  ParseOperator(f, name, item) = ParseOperator(g, name, item)
<1>1. [i \in DOMAIN item.val.items |-> f[item.val.items[i]]] = [i \in DOMAIN item.val.items |-> g[item.val.items[i]]]
  OBVIOUS
<1> QED BY <1>1, Zenon DEF ParseOperator

\* parse_query looks at the documents in a document, and in its arrays.
LEMMA ParseItemReads ==
  ASSUME NEW f, NEW g, NEW item, f[item.val] = g[item.val],
         \A i \in DOMAIN item.val.items : f[item.val.items[i].val] = g[item.val.items[i].val]
  PROVE  ParseItem(f, item) = ParseItem(g, item)
<1>1. [i \in DOMAIN item.val.items |-> f[item.val.items[i].val]] =
      [i \in DOMAIN item.val.items |-> g[item.val.items[i].val]]
  OBVIOUS
<1>2. ParseLogicalArray(f, item.val) = ParseLogicalArray(g, item.val)
  BY <1>1, Zenon DEF ParseLogicalArray
<1> QED BY <1>2, Zenon DEF ParseItem

ParseItems(f, doc) == [i \in DOMAIN doc.items |-> ParseItem(f, doc.items[i])]

\* The values that the recursions over documents look at.
LEMMA ValueInner ==
  ASSUME NEW n \in 0 .. Nesting, n + 1 <= Nesting, NEW doc \in Value[n + 1], NEW i \in DOMAIN doc.items
  PROVE  /\ doc.items[i].val \in Value[n]
         /\ \A j \in DOMAIN doc.items[i].val.items : doc.items[i].val.items[j].val \in Value[n]
<1>1. n + 1 \in 0 .. Nesting /\ (n + 1) - 1 = n
  BY QueriesAssumption
<1>2. doc.items[i].val \in Value[n]
  BY <1>1, ValueParts
<1>3. ASSUME NEW j \in DOMAIN doc.items[i].val.items
      PROVE  doc.items[i].val.items[j].val \in Value[n]
  <2>1. n # 0 /\ doc.items[i].val.items[j].val \in Value[n - 1]
    BY <1>2, ValueParts
  <2>2. Value[n - 1] \subseteq Value[n]
    <3>1. n \in 1 .. Nesting
      BY <2>1, QueriesAssumption
    <3> QED BY <3>1, ValueGrows
  <2> QED BY <2>1, <2>2
<1> QED BY <1>2, <1>3

\* parse_field_op, as a function.
FieldOpParser(name) == CHOOSE f : f = [x \in Items |-> ParseOperator(f, name, x)]

LEMMA FieldOpParserUnfolds ==
  ASSUME NEW name
  PROVE  \A x \in Items : FieldOpParser(name)[x] = ParseOperator(FieldOpParser(name), name, x)
<1> DEFINE Step(f, x) == ParseOperator(f, name, x)
           Defined == {n \in Nat : n <= Nesting => \E f : f = [x \in ItemsOf(Value[n]) |-> Step(f, x)]}
<1>0. Nesting \in Nat
  BY QueriesAssumption
<1>1. 0 \in Defined
  <2> DEFINE f == [x \in ItemsOf(Value[0]) |-> Step(<<>>, x)]
  <2>1. ASSUME NEW x \in ItemsOf(Value[0]) PROVE Step(<<>>, x) = Step(f, x)
    <3>1. 0 \in 0 .. Nesting /\ x.val \in Value[0]
      BY <1>0 DEF ItemsOf
    <3>2. DOMAIN x.val.items = {}
      BY <3>1, ValueParts
    <3> QED BY <3>2, ParseOperatorReads
  <2> HIDE DEF Step
  <2>2. f = [x \in ItemsOf(Value[0]) |-> Step(f, x)]
    BY <2>1
  <2> HIDE DEF f
  <2>3. \E h : h = [x \in ItemsOf(Value[0]) |-> Step(h, x)]
    BY <2>2, Zenon
  <2> QED BY <2>3
<1>2. ASSUME NEW n \in Nat, n \in Defined PROVE n + 1 \in Defined
  <2> SUFFICES ASSUME n + 1 <= Nesting
               PROVE  \E f : f = [x \in ItemsOf(Value[n + 1]) |-> Step(f, x)]
    OBVIOUS
  <2>1. n <= Nesting /\ n \in 0 .. Nesting /\ n + 1 \in 0 .. Nesting /\ n + 1 \in 1 .. Nesting /\ (n + 1) - 1 = n
    BY <1>0
  <2>2. PICK f : f = [x \in ItemsOf(Value[n]) |-> Step(f, x)]
    BY <1>2, <2>1
  <2> DEFINE g == [x \in ItemsOf(Value[n + 1]) |-> Step(f, x)]
  <2>3. \A x \in ItemsOf(Value[n]) : g[x] = f[x]
    <3>1. ItemsOf(Value[n]) \subseteq ItemsOf(Value[n + 1])
      BY <2>1, ValueGrows, NestedGrows
    <3> HIDE DEF Step
    <3> QED BY <2>2, <3>1
  <2>4. ASSUME NEW x \in ItemsOf(Value[n + 1]) PROVE Step(f, x) = Step(g, x)
    <3>1. x.val \in Value[n + 1]
      BY DEF ItemsOf
    <3>2. \A i \in DOMAIN x.val.items : x.val.items[i] \in ItemsOf(Value[n])
      BY <2>1, <3>1, ValueParts
    <3> HIDE DEF g
    <3> QED BY <2>3, <3>2, ParseOperatorReads
  <2> HIDE DEF Step
  <2>5. g = [x \in ItemsOf(Value[n + 1]) |-> Step(g, x)]
    BY <2>4
  <2> HIDE DEF g
  <2> QED BY <2>5, Zenon
<1>3. Nesting \in Defined
  <2> HIDE DEF Defined
  <2> QED BY <1>0, <1>1, <1>2, Induction
<1>4. FieldOpParser(name) = [x \in Items |-> Step(FieldOpParser(name), x)]
  <2>1. Nesting <= Nesting
    BY <1>0
  <2>2. FieldOpParser(name) = CHOOSE f : f = [x \in Items |-> Step(f, x)]
    BY DEF FieldOpParser
  <2> HIDE DEF Step
  <2> QED BY <1>3, <2>1, <2>2 DEF Items, Values
<1> HIDE DEF Step
<1>5. \A x \in Items : FieldOpParser(name)[x] = Step(FieldOpParser(name), x)
  BY <1>4
<1> QED BY <1>5 DEF Step

LEMMA ParseFieldOpUnfolds ==
  ASSUME NEW name, NEW item \in Items
  PROVE  ParseFieldOp(name, item) = ParseOperator(FieldOpParser(name), name, item)
<1>1. ParseFieldOp(name, item) = FieldOpParser(name)[item]
  BY DEF ParseFieldOp, FieldOpParser
<1> QED BY <1>1, FieldOpParserUnfolds

\* parse_query, as a function on documents.
Parser == CHOOSE f : f = [x \in Values |-> CollapseAnd(ParseItems(f, x))]

LEMMA ParserUnfolds ==
  \A x \in Values : Parser[x] = CollapseAnd(ParseItems(Parser, x))
<1> DEFINE Step(f, x) == CollapseAnd(ParseItems(f, x))
           Defined == {n \in Nat : n <= Nesting => \E f : f = [x \in Value[n] |-> Step(f, x)]}
<1>0. Nesting \in Nat
  BY QueriesAssumption
<1>1. 0 \in Defined
  <2> DEFINE f == [x \in Value[0] |-> Step(<<>>, x)]
  <2>1. ASSUME NEW x \in Value[0] PROVE Step(<<>>, x) = Step(f, x)
    <3>1. DOMAIN x.items = {}
      <4>1. 0 \in 0 .. Nesting
        BY <1>0
      <4> QED BY <4>1, ValueParts
    <3> QED BY <3>1 DEF ParseItems
  <2> HIDE DEF Step
  <2>2. f = [x \in Value[0] |-> Step(f, x)]
    BY <2>1
  <2> HIDE DEF f
  <2>3. \E h : h = [x \in Value[0] |-> Step(h, x)]
    BY <2>2, Zenon
  <2> QED BY <2>3
<1>2. ASSUME NEW n \in Nat, n \in Defined PROVE n + 1 \in Defined
  <2> SUFFICES ASSUME n + 1 <= Nesting
               PROVE  \E f : f = [x \in Value[n + 1] |-> Step(f, x)]
    OBVIOUS
  <2>1. n <= Nesting /\ n \in 0 .. Nesting /\ n + 1 \in 0 .. Nesting /\ n + 1 \in 1 .. Nesting /\ (n + 1) - 1 = n
    BY <1>0
  <2>2. PICK f : f = [x \in Value[n] |-> Step(f, x)]
    BY <1>2, <2>1
  <2> DEFINE g == [x \in Value[n + 1] |-> Step(f, x)]
  <2>3. \A x \in Value[n] : g[x] = f[x]
    <3>1. Value[n] \subseteq Value[n + 1]
      BY <2>1, ValueGrows
    <3> HIDE DEF Step
    <3> QED BY <2>2, <3>1
  <2>4. ASSUME NEW x \in Value[n + 1] PROVE Step(f, x) = Step(g, x)
    <3>1. ASSUME NEW i \in DOMAIN x.items
          PROVE  ParseItem(f, x.items[i]) = ParseItem(g, x.items[i])
      <4>1. /\ x.items[i].val \in Value[n]
            /\ \A j \in DOMAIN x.items[i].val.items : x.items[i].val.items[j].val \in Value[n]
        BY <2>1, ValueInner
      <4> HIDE DEF g
      <4> QED BY <2>3, <4>1, ParseItemReads
    <3> HIDE DEF g
    <3> QED BY <3>1 DEF ParseItems
  <2> HIDE DEF Step
  <2>5. g = [x \in Value[n + 1] |-> Step(g, x)]
    BY <2>4
  <2> HIDE DEF g
  <2> QED BY <2>5, Zenon
<1>3. Nesting \in Defined
  <2> HIDE DEF Defined
  <2> QED BY <1>0, <1>1, <1>2, Induction
<1>4. Parser = [x \in Values |-> Step(Parser, x)]
  <2>1. Nesting <= Nesting
    BY <1>0
  <2>2. Parser = CHOOSE f : f = [x \in Values |-> Step(f, x)]
    BY DEF Parser
  <2> HIDE DEF Step
  <2> QED BY <1>3, <2>1, <2>2 DEF Values
<1> HIDE DEF Step
<1>5. \A x \in Values : Parser[x] = Step(Parser, x)
  BY <1>4
<1> QED BY <1>5 DEF Step

LEMMA ParseQueryUnfolds ==
  ASSUME NEW query, Document(query) \in Values
  PROVE  ParseQuery(query) = CollapseAnd(ParseItems(Parser, Document(query)))
<1>1. ParseQuery(query) = Parser[Document(query)]
  BY DEF ParseQuery, Parser, ParseItems
<1> QED BY <1>1, ParserUnfolds

LEMMA HoldsReads ==
  ASSUME NEW f, NEW g, NEW p, NEW doc,
         p.kind \in {"and", "or"} => \A i \in DOMAIN p.parts : f[p.parts[i]] = g[p.parts[i]],
         p.kind = "not" => f[p.inner] = g[p.inner]
  PROVE  Holds(f, p, doc) = Holds(g, p, doc)
BY DEF Holds

\* Predicate::matches on a document, as a function.
Matcher(doc) == CHOOSE f : f = [x \in Predicates |-> Holds(f, x, doc)]

LEMMA MatcherUnfolds ==
  ASSUME NEW doc
  PROVE  \A x \in Predicates : Matcher(doc)[x] = Holds(Matcher(doc), x, doc)
<1> DEFINE Step(f, x) == Holds(f, x, doc)
           Defined == {n \in Nat : n <= 2 * Nesting => \E f : f = [x \in Predicate[n] |-> Step(f, x)]}
<1>0. 2 * Nesting \in Nat
  BY QueriesAssumption
<1>1. 0 \in Defined
  <2> DEFINE f == [x \in Predicate[0] |-> Step(<<>>, x)]
  <2>1. ASSUME NEW x \in Predicate[0] PROVE Step(<<>>, x) = Step(f, x)
    <3>1. 0 \in 0 .. (2 * Nesting)
      BY <1>0
    <3>2. x.kind \notin {"and", "or", "not"}
      BY <3>1, PredicateParts
    <3> QED BY <3>2, HoldsReads
  <2> HIDE DEF Step
  <2>2. f = [x \in Predicate[0] |-> Step(f, x)]
    BY <2>1
  <2> HIDE DEF f
  <2>3. \E h : h = [x \in Predicate[0] |-> Step(h, x)]
    BY <2>2, Zenon
  <2> QED BY <2>3
<1>2. ASSUME NEW n \in Nat, n \in Defined PROVE n + 1 \in Defined
  <2> SUFFICES ASSUME n + 1 <= 2 * Nesting
               PROVE  \E f : f = [x \in Predicate[n + 1] |-> Step(f, x)]
    OBVIOUS
  <2>1. n <= 2 * Nesting /\ n \in 0 .. (2 * Nesting) /\ n + 1 \in 0 .. (2 * Nesting) /\ n + 1 \in 1 .. (2 * Nesting) /\ (n + 1) - 1 = n
    BY <1>0
  <2>2. PICK f : f = [x \in Predicate[n] |-> Step(f, x)]
    BY <1>2, <2>1
  <2> DEFINE g == [x \in Predicate[n + 1] |-> Step(f, x)]
  <2>3. \A x \in Predicate[n] : g[x] = f[x]
    <3>1. Predicate[n] \subseteq Predicate[n + 1]
      BY <2>1, PredicateGrows
    <3> HIDE DEF Step
    <3> QED BY <2>2, <3>1
  <2>4. ASSUME NEW x \in Predicate[n + 1] PROVE Step(f, x) = Step(g, x)
    <3>1. x.kind \in {"and", "or"} => \A i \in DOMAIN x.parts : x.parts[i] \in Predicate[n]
      BY <2>1, PredicateParts
    <3>2. x.kind = "not" => x.inner \in Predicate[n]
      BY <2>1, PredicateParts
    <3> HIDE DEF g
    <3> QED BY <2>3, <3>1, <3>2, HoldsReads
  <2> HIDE DEF Step
  <2>5. g = [x \in Predicate[n + 1] |-> Step(g, x)]
    BY <2>4
  <2> HIDE DEF g
  <2> QED BY <2>5, Zenon
<1>3. 2 * Nesting \in Defined
  <2> HIDE DEF Defined
  <2> QED BY <1>0, <1>1, <1>2, Induction
<1>4. Matcher(doc) = [x \in Predicates |-> Step(Matcher(doc), x)]
  <2>1. 2 * Nesting <= 2 * Nesting
    BY <1>0
  <2>2. Matcher(doc) = CHOOSE f : f = [x \in Predicates |-> Step(f, x)]
    BY DEF Matcher
  <2> HIDE DEF Step
  <2> QED BY <1>3, <2>1, <2>2 DEF Predicates
<1> HIDE DEF Step
<1>5. \A x \in Predicates : Matcher(doc)[x] = Step(Matcher(doc), x)
  BY <1>4
<1> QED BY <1>5 DEF Step

LEMMA MatchesUnfolds ==
  ASSUME NEW p \in Predicates, NEW doc
  PROVE  Matches(p, doc) = Holds(Matcher(doc), p, doc) /\ Matches(p, doc) = Matcher(doc)[p]
<1>1. Matches(p, doc) = Matcher(doc)[p]
  BY DEF Matches, Matcher
<1> QED BY <1>1, MatcherUnfolds
-----------------------------------------------------------------------------
(* The recursions of the reference.                                          *)
LEMMA SelectedByOperatorReads ==
  ASSUME NEW f, NEW g, NEW docs, NEW name, NEW item,
         \A i \in DOMAIN item.val.items : f[item.val.items[i]] = g[item.val.items[i]]
  PROVE  SelectedByOperator(f, docs, name, item) = SelectedByOperator(g, docs, name, item)
<1>1. {d \in docs : \A i \in DOMAIN item.val.items : d \in f[item.val.items[i]]} =
      {d \in docs : \A i \in DOMAIN item.val.items : d \in g[item.val.items[i]]}
  OBVIOUS
<1> QED BY <1>1, Zenon DEF SelectedByOperator

LEMMA SelectedByItemReads ==
  ASSUME NEW f, NEW g, NEW docs, NEW item, f[item.val] = g[item.val],
         \A i \in DOMAIN item.val.items : f[item.val.items[i].val] = g[item.val.items[i].val]
  PROVE  SelectedByItem(f, docs, item) = SelectedByItem(g, docs, item)
<1>1. {d \in docs : \A i \in DOMAIN item.val.items : d \in f[item.val.items[i].val]} =
      {d \in docs : \A i \in DOMAIN item.val.items : d \in g[item.val.items[i].val]}
  OBVIOUS
<1>2. {f[item.val.items[i].val] : i \in DOMAIN item.val.items} = {g[item.val.items[i].val] : i \in DOMAIN item.val.items}
  OBVIOUS
<1> QED BY <1>1, <1>2, Zenon DEF SelectedByItem

\* The documents an operator selects, as a function.
OpSelection(docs, name) == CHOOSE f : f = [x \in Items |-> SelectedByOperator(f, docs, name, x)]

LEMMA OpSelectionUnfolds ==
  ASSUME NEW docs, NEW name
  PROVE  \A x \in Items : OpSelection(docs, name)[x] = SelectedByOperator(OpSelection(docs, name), docs, name, x)
<1> DEFINE Step(f, x) == SelectedByOperator(f, docs, name, x)
           Defined == {n \in Nat : n <= Nesting => \E f : f = [x \in ItemsOf(Value[n]) |-> Step(f, x)]}
<1>0. Nesting \in Nat
  BY QueriesAssumption
<1>1. 0 \in Defined
  <2> DEFINE f == [x \in ItemsOf(Value[0]) |-> Step(<<>>, x)]
  <2>1. ASSUME NEW x \in ItemsOf(Value[0]) PROVE Step(<<>>, x) = Step(f, x)
    <3>1. 0 \in 0 .. Nesting /\ x.val \in Value[0]
      BY <1>0 DEF ItemsOf
    <3>2. DOMAIN x.val.items = {}
      BY <3>1, ValueParts
    <3> QED BY <3>2, SelectedByOperatorReads
  <2> HIDE DEF Step
  <2>2. f = [x \in ItemsOf(Value[0]) |-> Step(f, x)]
    BY <2>1
  <2> HIDE DEF f
  <2>3. \E h : h = [x \in ItemsOf(Value[0]) |-> Step(h, x)]
    BY <2>2, Zenon
  <2> QED BY <2>3
<1>2. ASSUME NEW n \in Nat, n \in Defined PROVE n + 1 \in Defined
  <2> SUFFICES ASSUME n + 1 <= Nesting
               PROVE  \E f : f = [x \in ItemsOf(Value[n + 1]) |-> Step(f, x)]
    OBVIOUS
  <2>1. n <= Nesting /\ n \in 0 .. Nesting /\ n + 1 \in 0 .. Nesting /\ n + 1 \in 1 .. Nesting /\ (n + 1) - 1 = n
    BY <1>0
  <2>2. PICK f : f = [x \in ItemsOf(Value[n]) |-> Step(f, x)]
    BY <1>2, <2>1
  <2> DEFINE g == [x \in ItemsOf(Value[n + 1]) |-> Step(f, x)]
  <2>3. \A x \in ItemsOf(Value[n]) : g[x] = f[x]
    <3>1. ItemsOf(Value[n]) \subseteq ItemsOf(Value[n + 1])
      BY <2>1, ValueGrows, NestedGrows
    <3> HIDE DEF Step
    <3> QED BY <2>2, <3>1
  <2>4. ASSUME NEW x \in ItemsOf(Value[n + 1]) PROVE Step(f, x) = Step(g, x)
    <3>1. x.val \in Value[n + 1]
      BY DEF ItemsOf
    <3>2. \A i \in DOMAIN x.val.items : x.val.items[i] \in ItemsOf(Value[n])
      BY <2>1, <3>1, ValueParts
    <3> HIDE DEF g
    <3> QED BY <2>3, <3>2, SelectedByOperatorReads
  <2> HIDE DEF Step
  <2>5. g = [x \in ItemsOf(Value[n + 1]) |-> Step(g, x)]
    BY <2>4
  <2> HIDE DEF g
  <2> QED BY <2>5, Zenon
<1>3. Nesting \in Defined
  <2> HIDE DEF Defined
  <2> QED BY <1>0, <1>1, <1>2, Induction
<1>4. OpSelection(docs, name) = [x \in Items |-> Step(OpSelection(docs, name), x)]
  <2>1. Nesting <= Nesting
    BY <1>0
  <2>2. OpSelection(docs, name) = CHOOSE f : f = [x \in Items |-> Step(f, x)]
    BY DEF OpSelection
  <2> HIDE DEF Step
  <2> QED BY <1>3, <2>1, <2>2 DEF Items, Values
<1> HIDE DEF Step
<1>5. \A x \in Items : OpSelection(docs, name)[x] = Step(OpSelection(docs, name), x)
  BY <1>4
<1> QED BY <1>5 DEF Step

LEMMA SelectedByOpUnfolds ==
  ASSUME NEW docs, NEW name, NEW item \in Items
  PROVE  SelectedByOp(docs, name, item) = SelectedByOperator(OpSelection(docs, name), docs, name, item)
<1>1. SelectedByOp(docs, name, item) = OpSelection(docs, name)[item]
  BY DEF SelectedByOp, OpSelection
<1> QED BY <1>1, OpSelectionUnfolds

AllSelect(f, docs, doc) ==
  {d \in docs : \A i \in DOMAIN doc.items : d \in SelectedByItem(f, docs, doc.items[i])}

\* The documents a query selects, as a function.
Selection(docs) == CHOOSE f : f = [x \in Values |-> AllSelect(f, docs, x)]

LEMMA SelectionUnfolds ==
  ASSUME NEW docs
  PROVE  \A x \in Values : Selection(docs)[x] = AllSelect(Selection(docs), docs, x)
<1> DEFINE Step(f, x) == AllSelect(f, docs, x)
           Defined == {n \in Nat : n <= Nesting => \E f : f = [x \in Value[n] |-> Step(f, x)]}
<1>0. Nesting \in Nat
  BY QueriesAssumption
<1>1. 0 \in Defined
  <2> DEFINE f == [x \in Value[0] |-> Step(<<>>, x)]
  <2>1. ASSUME NEW x \in Value[0] PROVE Step(<<>>, x) = Step(f, x)
    <3>1. DOMAIN x.items = {}
      <4>1. 0 \in 0 .. Nesting
        BY <1>0
      <4> QED BY <4>1, ValueParts
    <3> QED BY <3>1 DEF AllSelect
  <2> HIDE DEF Step
  <2>2. f = [x \in Value[0] |-> Step(f, x)]
    BY <2>1
  <2> HIDE DEF f
  <2>3. \E h : h = [x \in Value[0] |-> Step(h, x)]
    BY <2>2, Zenon
  <2> QED BY <2>3
<1>2. ASSUME NEW n \in Nat, n \in Defined PROVE n + 1 \in Defined
  <2> SUFFICES ASSUME n + 1 <= Nesting
               PROVE  \E f : f = [x \in Value[n + 1] |-> Step(f, x)]
    OBVIOUS
  <2>1. n <= Nesting /\ n \in 0 .. Nesting /\ n + 1 \in 0 .. Nesting /\ n + 1 \in 1 .. Nesting /\ (n + 1) - 1 = n
    BY <1>0
  <2>2. PICK f : f = [x \in Value[n] |-> Step(f, x)]
    BY <1>2, <2>1
  <2> DEFINE g == [x \in Value[n + 1] |-> Step(f, x)]
  <2>3. \A x \in Value[n] : g[x] = f[x]
    <3>1. Value[n] \subseteq Value[n + 1]
      BY <2>1, ValueGrows
    <3> HIDE DEF Step
    <3> QED BY <2>2, <3>1
  <2>4. ASSUME NEW x \in Value[n + 1] PROVE Step(f, x) = Step(g, x)
    <3>1. ASSUME NEW i \in DOMAIN x.items
          PROVE  SelectedByItem(f, docs, x.items[i]) = SelectedByItem(g, docs, x.items[i])
      <4>1. /\ x.items[i].val \in Value[n]
            /\ \A j \in DOMAIN x.items[i].val.items : x.items[i].val.items[j].val \in Value[n]
        BY <2>1, ValueInner
      <4> HIDE DEF g
      <4> QED BY <2>3, <4>1, SelectedByItemReads
    <3> HIDE DEF g
    <3> QED BY <3>1 DEF AllSelect
  <2> HIDE DEF Step
  <2>5. g = [x \in Value[n + 1] |-> Step(g, x)]
    BY <2>4
  <2> HIDE DEF g
  <2> QED BY <2>5, Zenon
<1>3. Nesting \in Defined
  <2> HIDE DEF Defined
  <2> QED BY <1>0, <1>1, <1>2, Induction
<1>4. Selection(docs) = [x \in Values |-> Step(Selection(docs), x)]
  <2>1. Nesting <= Nesting
    BY <1>0
  <2>2. Selection(docs) = CHOOSE f : f = [x \in Values |-> Step(f, x)]
    BY DEF Selection
  <2> HIDE DEF Step
  <2> QED BY <1>3, <2>1, <2>2 DEF Values
<1> HIDE DEF Step
<1>5. \A x \in Values : Selection(docs)[x] = Step(Selection(docs), x)
  BY <1>4
<1> QED BY <1>5 DEF Step

LEMMA SelectedUnfolds ==
  ASSUME NEW docs, NEW query, Document(query) \in Values
  PROVE  Selected(docs, query) = AllSelect(Selection(docs), docs, Document(query))
<1>1. Selected(docs, query) = Selection(docs)[Document(query)]
  BY DEF Selected, Selection, AllSelect
<1> QED BY <1>1, SelectionUnfolds
-----------------------------------------------------------------------------
(* What parsing gives: a predicate, or Malformed.                            *)

\* parse_field_op on each operator.
LEMMA FieldOpCases ==
  ASSUME NEW name, NEW item \in Items
  PROVE  \/ /\ item.key \in {"$eq", "$ne", "$gt", "$gte", "$lt", "$lte", "$in", "$nin", "$exists"}
            /\ item.key \in {"$in", "$nin"} => item.val.t = "array"
            /\ item.key = "$exists" => item.val.t = "bool"
            /\ ParseFieldOp(name, item) = Field(name, item.key, item.val)
         \/ /\ item.key = "$not" /\ IsOperatorDoc(item.val)
            /\ ParseFieldOp(name, item) =
                 Not(CollapseAnd([i \in DOMAIN item.val.items |-> ParseFieldOp(name, item.val.items[i])]))
         \/ ParseFieldOp(name, item) = Malformed
<1>1. ParseFieldOp(name, item) = ParseOperator(FieldOpParser(name), name, item)
  BY ParseFieldOpUnfolds
<1>2. [i \in DOMAIN item.val.items |-> FieldOpParser(name)[item.val.items[i]]] =
      [i \in DOMAIN item.val.items |-> ParseFieldOp(name, item.val.items[i])]
  <2>1. \A x : ParseFieldOp(name, x) = FieldOpParser(name)[x]
    BY DEF ParseFieldOp, FieldOpParser
  <2> QED BY <2>1
<1>3. CASE item.key \in {"$eq", "$ne", "$gt", "$gte", "$lt", "$lte"}
  BY <1>1, <1>3 DEF ParseOperator
<1>4. CASE item.key \in {"$in", "$nin"}
  BY <1>1, <1>4 DEF ParseOperator
<1>5. CASE item.key = "$exists"
  BY <1>1, <1>5 DEF ParseOperator
<1>6. CASE item.key = "$not"
  BY <1>1, <1>2, <1>6 DEF ParseOperator
<1>7. CASE item.key \notin {"$eq", "$ne", "$gt", "$gte", "$lt", "$lte", "$in", "$nin", "$exists", "$not"}
  BY <1>1, <1>7 DEF ParseOperator
<1> QED BY <1>3, <1>4, <1>5, <1>6, <1>7

LEMMA AlwaysTyped ==
  ASSUME NEW n \in 0 .. (2 * Nesting)
  PROVE  Flat \subseteq Predicate[n] /\ Always \in Predicate[n]
<1>1. 0 \in 0 .. (2 * Nesting) /\ n \in 0 .. (2 * Nesting)
  BY QueriesAssumption
<1>2. Flat \subseteq Predicate[n]
  BY <1>1, PredicatesGrow, PredicateUnfolds
<1> QED BY <1>2 DEF Flat

\* No predicate is Malformed.
LEMMA NotMalformed ==
  ASSUME NEW n \in 0 .. (2 * Nesting), NEW p \in Predicate[n]
  PROVE  p # Malformed
BY PredicateParts DEF Malformed

\* Collapsing predicates, or taking one, or all, nests them one level deeper.
LEMMA CollapseAndTyped ==
  ASSUME NEW n \in 0 .. (2 * Nesting), NEW m \in n .. (2 * Nesting), NEW k \in Nat, NEW parts,
         DOMAIN parts = 1 .. k, parts \in Seq(Predicate[n] \cup {Malformed}),
         m = n => parts = <<>>
  PROVE  CollapseAnd(parts) \in Predicate[m] \cup {Malformed}
<1>1. Len(parts) = k
  BY LenProperties
<1>2. \A i \in 1 .. k : parts[i] \in Predicate[n] \cup {Malformed}
  BY ElementOfSeq, <1>1
<1>3. CASE AnyMalformed(parts)
  <2>1. PICK i \in 1 .. k : parts[i] = Malformed
    BY <1>3 DEF AnyMalformed
  <2>2. Len(parts) # 0 /\ (Len(parts) = 1 => parts[1] = Malformed)
    BY <1>1, <2>1
  <2>3. CollapseAnd(parts) = Malformed
    BY <1>3, <2>2 DEF CollapseAnd
  <2> QED BY <2>3
<1>4. CASE ~AnyMalformed(parts) /\ k = 0
  <2>1. CollapseAnd(parts) = Always
    BY <1>1, <1>4 DEF CollapseAnd
  <2>2. m \in 0 .. (2 * Nesting)
    OBVIOUS
  <2> QED BY <2>1, <2>2, AlwaysTyped
<1>5. CASE ~AnyMalformed(parts) /\ k # 0
  <2>1. \A i \in 1 .. k : parts[i] \in Predicate[n]
    BY <1>2, <1>5 DEF AnyMalformed
  <2>2. m # n
    BY <1>1, <1>5
  <2>3. n + 1 \in 1 .. (2 * Nesting) /\ n + 1 \in 0 .. (2 * Nesting) /\ m \in (n + 1) .. (2 * Nesting) /\ (n + 1) - 1 = n
    BY <2>2, QueriesAssumption
  <2>4. Predicate[n + 1] \subseteq Predicate[m] /\ Predicate[n] \subseteq Predicate[m]
    BY <2>3, PredicatesGrow
  <2>5. CASE k = 1
    <3>1. CollapseAnd(parts) = parts[1]
      BY <1>1, <1>5, <2>5 DEF CollapseAnd
    <3> QED BY <2>1, <2>4, <2>5, <3>1
  <2>6. CASE k # 1
    <3>1. CollapseAnd(parts) = [kind |-> "and", parts |-> parts]
      BY <1>1, <1>5, <2>6 DEF CollapseAnd
    <3>2. parts \in Seq(Predicate[n])
      <4>1. parts \in [1 .. k -> Predicate[n]]
        BY <1>1, <2>1, LenProperties, SeqDef
      <4> QED BY <4>1, SeqDef
    <3>3. CollapseAnd(parts) \in Compound(Predicate[n])
      BY <3>1, <3>2 DEF Compound
    <3> QED BY <2>3, <2>4, <3>3, PredicateUnfolds
  <2> QED BY <2>5, <2>6
<1> QED BY <1>3, <1>4, <1>5

LEMMA NotTyped ==
  ASSUME NEW n \in 0 .. (2 * Nesting), n + 1 <= 2 * Nesting, NEW p \in Predicate[n] \cup {Malformed}
  PROVE  Not(p) \in Predicate[n + 1] \cup {Malformed}
<1>1. n + 1 \in 1 .. (2 * Nesting) /\ (n + 1) - 1 = n
  BY QueriesAssumption
<1>2. CASE p = Malformed
  BY <1>2 DEF Not
<1>3. CASE p \in Predicate[n]
  <2>1. Not(p) = Malformed \/ Not(p) = [kind |-> "not", inner |-> p]
    BY DEF Not
  <2>2. [kind |-> "not", inner |-> p] \in Compound(Predicate[n])
    BY <1>3 DEF Compound
  <2> QED BY <1>1, <2>1, <2>2, PredicateUnfolds
<1> QED BY <1>2, <1>3

LEMMA OrTyped ==
  ASSUME NEW n \in 0 .. (2 * Nesting), n + 1 <= 2 * Nesting, NEW parts \in Seq(Predicate[n] \cup {Malformed})
  PROVE  Or(parts) \in Predicate[n + 1] \cup {Malformed}
<1>1. n + 1 \in 1 .. (2 * Nesting) /\ (n + 1) - 1 = n
  BY QueriesAssumption
<1>2. CASE AnyMalformed(parts)
  BY <1>2 DEF Or
<1>3. CASE ~AnyMalformed(parts)
  <2>1. parts \in [1 .. Len(parts) -> Predicate[n]] /\ Len(parts) \in Nat
    BY <1>3, LenProperties, SeqDef DEF AnyMalformed
  <2>2. parts \in Seq(Predicate[n])
    BY <2>1, SeqDef
  <2>3. Or(parts) \in Compound(Predicate[n])
    BY <1>3, <2>2 DEF Or, Compound
  <2> QED BY <1>1, <2>3, PredicateUnfolds
<1> QED BY <1>2, <1>3

\* A function on a value's items, as a sequence.
LEMMA ItemsSeq ==
  ASSUME NEW n \in 0 .. Nesting, NEW val \in Value[n], NEW f, NEW S,
         DOMAIN f = DOMAIN val.items, f = [i \in DOMAIN f |-> f[i]], \A i \in DOMAIN val.items : f[i] \in S
  PROVE  f \in Seq(S) /\ DOMAIN f = 1 .. Len(val.items) /\ Len(val.items) \in Nat /\ (n = 0 => f = <<>>)
<1>1. Len(val.items) \in Nat /\ DOMAIN val.items = 1 .. Len(val.items)
  BY ValueParts
<1>2. f \in [1 .. Len(val.items) -> S]
  BY <1>1
<1>3. f \in Seq(S)
  BY <1>1, <1>2, SeqDef
<1>4. ASSUME n = 0 PROVE f = <<>>
  <2>1. DOMAIN f = {}
    BY <1>4, ValueParts
  <2>2. Len(f) = 0
    BY <1>3, <2>1, LenProperties
  <2> QED BY <1>3, <2>2, EmptySeq
<1> QED BY <1>1, <1>2, <1>3, <1>4

\* What an operator's operand nests shows up to twice in its predicate.
LEMMA FieldOpTyped ==
  ASSUME NEW name \in STRING, NEW n \in 0 .. Nesting, NEW item \in ItemsOf(Value[n])
  PROVE  ParseFieldOp(name, item) \in Predicate[2 * n] \cup {Malformed}
<1> DEFINE Good == {k \in Nat : k <= Nesting =>
                      \A x \in ItemsOf(Value[k]) : ParseFieldOp(name, x) \in Predicate[2 * k] \cup {Malformed}}
<1>0. Nesting \in Nat
  BY QueriesAssumption
<1>1. ASSUME NEW k \in 0 .. Nesting, NEW x \in ItemsOf(Value[k]),
             x.key = "$not" => ParseFieldOp(name, x) \in Predicate[2 * k] \cup {Malformed}
      PROVE  ParseFieldOp(name, x) \in Predicate[2 * k] \cup {Malformed}
  <2>1. x.val \in Value[k] /\ x.key \in STRING /\ x.val \in Values /\ x \in Items
    <3>1. ItemsOf(Value[k]) \subseteq Items
      BY ValueIsValue, NestedGrows DEF Items
    <3> QED BY <3>1, ValueIsValue DEF ItemsOf
  <2>2. CASE /\ x.key \in {"$eq", "$ne", "$gt", "$gte", "$lt", "$lte", "$in", "$nin", "$exists"}
             /\ ParseFieldOp(name, x) = Field(name, x.key, x.val)
    <3>1. Field(name, x.key, x.val) \in Flat
      BY <2>1, <2>2 DEF Field, Flat, Operators
    <3>2. 2 * k \in 0 .. (2 * Nesting)
      BY <1>0
    <3> QED BY <2>2, <3>1, <3>2, AlwaysTyped
  <2> QED BY <1>1, <2>1, <2>2, FieldOpCases
<1>2. 0 \in Good
  <2> SUFFICES ASSUME NEW x \in ItemsOf(Value[0])
               PROVE  ParseFieldOp(name, x) \in Predicate[2 * 0] \cup {Malformed}
    OBVIOUS
  <2>1. 0 \in 0 .. Nesting
    BY <1>0
  <2>2. x.key = "$not" => ParseFieldOp(name, x) = Malformed
    <3>1. x.val.t \notin Nested /\ x \in Items
      <4>1. x.val \in Scalars
        BY ValueUnfolds DEF ItemsOf
      <4>2. ItemsOf(Value[0]) \subseteq Items
        BY <2>1, ValueIsValue, NestedGrows DEF Items
      <4> QED BY <4>1, <4>2 DEF Scalars
    <3>2. ~IsOperatorDoc(x.val)
      BY <3>1 DEF IsOperatorDoc, Nested
    <3> QED BY <3>1, <3>2, FieldOpCases
  <2> QED BY <1>1, <2>1, <2>2
<1>3. ASSUME NEW k \in Nat, k \in Good PROVE k + 1 \in Good
  <2>0. k + 1 \in Nat
    OBVIOUS
  <2> SUFFICES ASSUME k + 1 <= Nesting, NEW x \in ItemsOf(Value[k + 1])
               PROVE  ParseFieldOp(name, x) \in Predicate[2 * (k + 1)] \cup {Malformed}
    BY <2>0, Zenon
  <2>1. /\ k \in 0 .. Nesting /\ k + 1 \in 0 .. Nesting /\ (k + 1) - 1 = k /\ k <= Nesting
        /\ 2 * k \in 0 .. (2 * Nesting) /\ 2 * k + 1 \in 2 * k .. (2 * Nesting)
        /\ 2 * k + 1 \in 0 .. (2 * Nesting) /\ (2 * k + 1) + 1 <= 2 * Nesting
        /\ (2 * k + 1) + 1 = 2 * (k + 1) /\ 2 * k + 1 # 2 * k
    BY <1>0
  <2> DEFINE parts == [i \in DOMAIN x.val.items |-> ParseFieldOp(name, x.val.items[i])]
  <2>2. x.val \in Value[k + 1] /\ x \in Items
    <3>1. ItemsOf(Value[k + 1]) \subseteq Items
      BY <2>1, ValueIsValue, NestedGrows DEF Items
    <3> QED BY <3>1 DEF ItemsOf
  <2>3. \A i \in DOMAIN x.val.items : ParseFieldOp(name, x.val.items[i]) \in Predicate[2 * k] \cup {Malformed}
    <3>1. \A i \in DOMAIN x.val.items : x.val.items[i] \in ItemsOf(Value[k])
      BY <2>1, <2>2, ValueParts
    <3> QED BY <1>3, <2>1, <3>1
  <2>4. /\ parts \in Seq(Predicate[2 * k] \cup {Malformed})
        /\ DOMAIN parts = 1 .. Len(x.val.items) /\ Len(x.val.items) \in Nat
    <3>1. DOMAIN parts = DOMAIN x.val.items /\ parts = [i \in DOMAIN parts |-> parts[i]]
      OBVIOUS
    <3>2. \A i \in DOMAIN x.val.items : parts[i] \in Predicate[2 * k] \cup {Malformed}
      BY <2>3
    <3> DEFINE S == Predicate[2 * k] \cup {Malformed}
    <3>3. \A i \in DOMAIN x.val.items : parts[i] \in S
      BY <3>2
    <3> HIDE DEF parts, S
    <3>4. parts \in Seq(S) /\ DOMAIN parts = 1 .. Len(x.val.items) /\ Len(x.val.items) \in Nat
      BY <2>1, <2>2, <3>1, <3>3, ItemsSeq
    <3> QED BY <3>4 DEF S
  <2>5. CollapseAnd(parts) \in Predicate[2 * k + 1] \cup {Malformed}
    <3> HIDE DEF parts
    <3> QED BY <2>1, <2>4, CollapseAndTyped
  <2>6. Not(CollapseAnd(parts)) \in Predicate[2 * (k + 1)] \cup {Malformed}
    <3> HIDE DEF parts
    <3> QED BY <2>1, <2>5, NotTyped
  <2>7. x.key = "$not" => ParseFieldOp(name, x) \in {Not(CollapseAnd(parts)), Malformed}
    BY <2>2, FieldOpCases
  <2> HIDE DEF parts
  <2> QED BY <1>1, <2>1, <2>6, <2>7
<1>4. n \in Good
  <2>1. n \in Nat
    BY <1>0
  <2> HIDE DEF Good
  <2> QED BY <1>2, <1>3, <2>1, Induction
<1>5. n <= Nesting
  BY <1>0
<1> QED BY <1>4, <1>5, Zenon

LEMMA FieldTyped ==
  ASSUME NEW name \in STRING, NEW n \in 0 .. Nesting, NEW val \in Value[n]
  PROVE  ParseField(name, val) \in Predicate[2 * n] \cup {Malformed}
<1>0. Nesting \in Nat /\ 2 * n \in 0 .. (2 * Nesting)
  BY QueriesAssumption
<1>1. CASE ~IsOperatorDoc(val)
  <2>1. ParseField(name, val) = Field(name, "$eq", val)
    BY <1>1 DEF ParseField
  <2>2. Field(name, "$eq", val) \in Flat
    BY ValueIsValue DEF Field, Flat, Operators
  <2> QED BY <1>0, <2>1, <2>2, AlwaysTyped
<1>2. CASE IsOperatorDoc(val)
  <2> DEFINE parts == [i \in DOMAIN val.items |-> ParseFieldOp(name, val.items[i])]
  <2>1. ParseField(name, val) = CollapseAnd(parts)
    BY <1>2 DEF ParseField
  <2>2. n # 0 /\ n - 1 \in 0 .. Nesting
    <3>1. val.t \in Nested
      BY <1>2 DEF IsOperatorDoc, Nested
    <3>2. n = 0 => val \in Scalars
      BY ValueUnfolds
    <3> QED BY <1>0, <3>1, <3>2 DEF Scalars
  <2>3. /\ 2 * (n - 1) \in 0 .. (2 * Nesting) /\ 2 * n \in 2 * (n - 1) .. (2 * Nesting) /\ 2 * (n - 1) # 2 * n
    BY <1>0, <2>2
  <2>4. \A i \in DOMAIN val.items : parts[i] \in Predicate[2 * (n - 1)] \cup {Malformed}
    <3>1. \A i \in DOMAIN val.items : val.items[i] \in ItemsOf(Value[n - 1])
      BY ValueParts
    <3> QED BY <2>2, <3>1, FieldOpTyped
  <2>5. /\ parts \in Seq(Predicate[2 * (n - 1)] \cup {Malformed})
        /\ DOMAIN parts = 1 .. Len(val.items) /\ Len(val.items) \in Nat
    <3>1. DOMAIN parts = DOMAIN val.items /\ parts = [i \in DOMAIN parts |-> parts[i]]
      OBVIOUS
    <3> HIDE DEF parts
    <3> QED BY <2>4, <3>1, ItemsSeq
  <2> HIDE DEF parts
  <2> QED BY <2>1, <2>3, <2>5, CollapseAndTyped
<1> QED BY <1>1, <1>2

\* parse_query on each item of a document.
LEMMA ParseItemCases ==
  ASSUME NEW f, NEW item
  PROVE  LET val == item.val
             each == [i \in DOMAIN val.items |-> f[val.items[i].val]]
             documents == val.t = "array" /\ val.items # <<>> /\ \A i \in DOMAIN val.items : val.items[i].val.t = "document"
         IN  \/ item.key = "$and" /\ documents /\ ParseItem(f, item) = CollapseAnd(each)
             \/ item.key = "$or" /\ documents /\ ParseItem(f, item) = Or(each)
             \/ item.key = "$not" /\ val.t = "document" /\ ParseItem(f, item) = Not(f[val])
             \/ item.key \notin Operators /\ ParseItem(f, item) = ParseField(item.key, val)
             \/ ParseItem(f, item) = Malformed
<1> DEFINE val == item.val
           each == [i \in DOMAIN val.items |-> f[val.items[i].val]]
           documents == val.t = "array" /\ val.items # <<>> /\ \A i \in DOMAIN val.items : val.items[i].val.t = "document"
<1>1. CASE item.key \in {"$and", "$or"} /\ documents
  <2>1. ParseLogicalArray(f, val) = each
    BY <1>1 DEF ParseLogicalArray
  <2> HIDE DEF documents, each, val
  <2>2. item.key = "$and" => ParseItem(f, item) = CollapseAnd(each)
    BY <2>1 DEF ParseItem, val, Operators
  <2>3. item.key = "$or" => ParseItem(f, item) = Or(each)
    BY <2>1 DEF ParseItem, val, Operators
  <2>4. \/ item.key = "$and" /\ documents /\ ParseItem(f, item) = CollapseAnd(each)
        \/ item.key = "$or" /\ documents /\ ParseItem(f, item) = Or(each)
    BY <1>1, <2>2, <2>3
  <2> QED BY <2>4, Zenon DEF documents, each, val
<1>2. CASE item.key \in {"$and", "$or"} /\ ~documents
  <2>1. ParseLogicalArray(f, val) = <<Malformed>>
    BY <1>2 DEF ParseLogicalArray
  <2>2. AnyMalformed(<<Malformed>>) /\ Len(<<Malformed>>) = 1 /\ <<Malformed>>[1] = Malformed
    BY DEF AnyMalformed
  <2>3. CollapseAnd(<<Malformed>>) = Malformed /\ Or(<<Malformed>>) = Malformed
    BY <2>2 DEF CollapseAnd, Or
  <2> HIDE DEF documents
  <2>4. ParseItem(f, item) = Malformed
    BY <1>2, <2>1, <2>3 DEF ParseItem, Operators
  <2> QED BY <2>4
<1>3. CASE item.key = "$not" /\ val.t = "document"
  BY <1>3 DEF ParseItem, Operators
<1>4. CASE item.key = "$not" /\ val.t # "document"
  BY <1>4 DEF ParseItem, Operators
<1>5. CASE item.key \in Operators /\ item.key \notin {"$and", "$or", "$not"}
  BY <1>5 DEF ParseItem
<1>6. CASE item.key \notin Operators
  BY <1>6 DEF ParseItem, Operators
<1>7. item.key \in {"$and", "$or", "$not"} => item.key \in Operators
  BY DEF Operators
<1> HIDE DEF documents, each, val
<1>8. \/ item.key \in {"$and", "$or"} /\ documents
      \/ item.key \in {"$and", "$or"} /\ ~documents
      \/ item.key = "$not" /\ val.t = "document"
      \/ item.key = "$not" /\ val.t # "document"
      \/ item.key \in Operators /\ item.key \notin {"$and", "$or", "$not"}
      \/ item.key \notin Operators
  OBVIOUS
<1> QED BY <1>1, <1>2, <1>3, <1>4, <1>5, <1>6, <1>8, Zenon

\* An item is parsed into a predicate nested once more than what is inside it.
LEMMA ItemTyped ==
  ASSUME NEW k \in 0 .. Nesting, k + 1 <= Nesting, NEW item \in ItemsOf(Value[k]),
         \A j \in DOMAIN item.val.items : item.val.items[j].val \in Value[k],
         \A x \in Value[k] : Parser[x] \in Predicate[2 * k] \cup {Malformed}
  PROVE  ParseItem(Parser, item) \in Predicate[2 * k + 1] \cup {Malformed}
<1>0. /\ 2 * k \in 0 .. (2 * Nesting) /\ 2 * k + 1 \in 2 * k .. (2 * Nesting) /\ (2 * k) + 1 <= 2 * Nesting
      /\ 2 * k + 1 # 2 * k
  BY QueriesAssumption
<1>1. item.val \in Value[k] /\ item.key \in STRING
  BY DEF ItemsOf
<1> DEFINE S == Predicate[2 * k] \cup {Malformed}
           T == Predicate[2 * k + 1] \cup {Malformed}
           each == [j \in DOMAIN item.val.items |-> Parser[item.val.items[j].val]]
<1>2. S \subseteq T
  BY <1>0, PredicatesGrow
<1>3. Parser[item.val] \in S /\ \A j \in DOMAIN item.val.items : each[j] \in S
  BY <1>1
<1>4. each \in Seq(S) /\ DOMAIN each = 1 .. Len(item.val.items) /\ Len(item.val.items) \in Nat
  <2>1. DOMAIN each = DOMAIN item.val.items /\ each = [j \in DOMAIN each |-> each[j]]
    OBVIOUS
  <2> HIDE DEF each, S
  <2> QED BY <1>1, <1>3, <2>1, ItemsSeq
<1>5. CollapseAnd(each) \in T
  <2>0. DOMAIN each = 1 .. Len(item.val.items) /\ each \in Seq(Predicate[2 * k] \cup {Malformed})
    BY <1>4
  <2> HIDE DEF each
  <2> QED BY <1>0, <1>4, <2>0, CollapseAndTyped
<1>6. Or(each) \in T
  <2>0. each \in Seq(Predicate[2 * k] \cup {Malformed})
    BY <1>4
  <2> HIDE DEF each
  <2> QED BY <1>0, <2>0, OrTyped
<1>7. Not(Parser[item.val]) \in T
  BY <1>0, <1>3, NotTyped
<1>8. ParseField(item.key, item.val) \in T
  BY <1>1, <1>2, FieldTyped
<1>9. \/ ParseItem(Parser, item) = CollapseAnd(each)
      \/ ParseItem(Parser, item) = Or(each)
      \/ ParseItem(Parser, item) = Not(Parser[item.val])
      \/ ParseItem(Parser, item) = ParseField(item.key, item.val)
      \/ ParseItem(Parser, item) = Malformed
  BY ParseItemCases
<1> HIDE DEF each
<1> QED BY <1>5, <1>6, <1>7, <1>8, <1>9

LEMMA ParserTyped ==
  ASSUME NEW n \in 0 .. Nesting, NEW doc \in Value[n]
  PROVE  Parser[doc] \in Predicate[2 * n] \cup {Malformed}
<1> DEFINE Good == {k \in Nat : k <= Nesting =>
                      \A x \in Value[k] : Parser[x] \in Predicate[2 * k] \cup {Malformed}}
<1>0. Nesting \in Nat
  BY QueriesAssumption
<1>1. ASSUME NEW k \in 0 .. Nesting, NEW x \in Value[k]
      PROVE  /\ Parser[x] = CollapseAnd(ParseItems(Parser, x))
             /\ DOMAIN ParseItems(Parser, x) = DOMAIN x.items
             /\ ParseItems(Parser, x) = [i \in DOMAIN ParseItems(Parser, x) |-> ParseItems(Parser, x)[i]]
             /\ \A i \in DOMAIN x.items : ParseItems(Parser, x)[i] = ParseItem(Parser, x.items[i])
  BY ValueIsValue, ParserUnfolds DEF ParseItems
<1>2. 0 \in Good
  <2> SUFFICES ASSUME NEW x \in Value[0]
               PROVE  Parser[x] \in Predicate[2 * 0] \cup {Malformed}
    BY Zenon
  <2>1. 0 \in 0 .. Nesting /\ 0 \in 0 .. (2 * Nesting) /\ 2 * 0 = 0 /\ 0 \in Nat
    BY <1>0
  <2>2. DOMAIN x.items = {} /\ Len(x.items) \in Nat
    BY <2>1, ValueParts
  <2>3. ParseItems(Parser, x) = <<>>
    BY <1>1, <2>1, <2>2, ItemsSeq
  <2>4. CollapseAnd(<<>>) = Always
    <3>1. Len(<<>>) = 0 /\ ~AnyMalformed(<<>>)
      BY DEF AnyMalformed
    <3> QED BY <3>1 DEF CollapseAnd
  <2> QED BY <1>1, <2>1, <2>3, <2>4, AlwaysTyped
<1>3. ASSUME NEW k \in Nat, k \in Good PROVE k + 1 \in Good
  <2>0. k + 1 \in Nat
    OBVIOUS
  <2> SUFFICES ASSUME k + 1 <= Nesting, NEW x \in Value[k + 1]
               PROVE  Parser[x] \in Predicate[2 * (k + 1)] \cup {Malformed}
    BY <2>0, Zenon
  <2>1. /\ k \in 0 .. Nesting /\ k + 1 \in 0 .. Nesting /\ k <= Nesting /\ (k + 1) - 1 = k
        /\ 2 * k \in 0 .. (2 * Nesting) /\ 2 * k + 1 \in 2 * k .. (2 * Nesting) /\ (2 * k) + 1 <= 2 * Nesting
        /\ 2 * k + 1 \in 0 .. (2 * Nesting) /\ 2 * (k + 1) \in (2 * k + 1) .. (2 * Nesting)
        /\ 2 * k + 1 # 2 * k /\ 2 * k + 1 # 2 * (k + 1)
    BY <1>0
  <2> DEFINE T == Predicate[2 * k + 1] \cup {Malformed}
  <2>3. ASSUME NEW i \in DOMAIN x.items
        PROVE  ParseItem(Parser, x.items[i]) \in T
    <3>1. /\ x.items[i] \in ItemsOf(Value[k])
          /\ \A j \in DOMAIN x.items[i].val.items : x.items[i].val.items[j].val \in Value[k]
      BY <2>1, ValueParts, ValueInner
    <3> QED BY <1>3, <2>1, <3>1, ItemTyped
  <2>4. /\ ParseItems(Parser, x) \in Seq(T)
        /\ DOMAIN ParseItems(Parser, x) = 1 .. Len(x.items) /\ Len(x.items) \in Nat
    <3> DEFINE f == ParseItems(Parser, x)
    <3>1. /\ DOMAIN f = DOMAIN x.items /\ f = [i \in DOMAIN f |-> f[i]]
          /\ \A i \in DOMAIN x.items : f[i] = ParseItem(Parser, x.items[i])
      BY <1>1, <2>1
    <3> HIDE DEF T, f
    <3>2. \A i \in DOMAIN x.items : f[i] \in T
      BY <2>3, <3>1
    <3>3. f \in Seq(T) /\ DOMAIN f = 1 .. Len(x.items) /\ Len(x.items) \in Nat
      BY <2>1, <3>1, <3>2, ItemsSeq
    <3> QED BY <3>3 DEF f
  <2>5. CollapseAnd(ParseItems(Parser, x)) \in Predicate[2 * (k + 1)] \cup {Malformed}
    BY <2>1, <2>4, CollapseAndTyped
  <2> QED BY <1>1, <2>1, <2>5
<1>4. n \in Good
  <2>1. n \in Nat
    BY <1>0
  <2> HIDE DEF Good
  <2> QED BY <1>2, <1>3, <2>1, Induction
<1>5. n <= Nesting
  BY <1>0
<1> QED BY <1>4, <1>5, Zenon

LEMMA ParseItemTyped ==
  ASSUME NEW k \in 0 .. Nesting, k + 1 <= Nesting, NEW item \in ItemsOf(Value[k]),
         \A j \in DOMAIN item.val.items : item.val.items[j].val \in Value[k]
  PROVE  ParseItem(Parser, item) \in Predicates \cup {Malformed}
<1>1. 2 * k + 1 \in 0 .. (2 * Nesting)
  BY QueriesAssumption
<1>2. ParseItem(Parser, item) \in Predicate[2 * k + 1] \cup {Malformed}
  BY ParserTyped, ItemTyped
<1> QED BY <1>1, <1>2, PredicateParts

\* What a query is parsed into is a predicate.
LEMMA QueryTyped ==
  ASSUME NEW query, Document(query) \in Values
  PROVE  ParseQuery(query) \in Predicates \cup {Malformed}
<1>1. Nesting \in 0 .. Nesting
  BY QueriesAssumption
<1>2. ParseQuery(query) = Parser[Document(query)]
  BY DEF ParseQuery, Parser, ParseItems
<1> QED BY <1>1, <1>2, ParserTyped DEF Values, Predicates

LEMMA WellFormedTyped == WellFormed \subseteq Predicates
BY QueryTyped, QueriesAssumption DEF WellFormed

-----------------------------------------------------------------------------
(* Ids and their keys.                                                       *)
Taggable(id) == id.t \in DOMAIN Tag

\* the types whose ids are told apart by their keys
Binaries == {"binary0", "binary4"}

LEMMA Digits ==
  ASSUME NEW x \in Int, NEW y \in Int, NEW a \in 0 .. (Contents - 1), NEW b \in 0 .. (Contents - 1),
         x * Contents + a = y * Contents + b
  PROVE  x = y /\ a = b
<1>0. Contents \in Nat
  BY QueriesAssumption
<1>1. ASSUME NEW u \in Int, NEW v \in Int, u > v
      PROVE  u * Contents >= v * Contents + Contents
  <2>1. PICK d \in Nat : u = (v + 1) + d
    <3>1. u - (v + 1) \in Nat /\ u = (v + 1) + (u - (v + 1))
      BY <1>1
    <3> QED BY <3>1
  <2>2. d * Contents \in Nat /\ v * Contents \in Int
    BY <1>0
  <2>3. u * Contents = v * Contents + Contents + d * Contents
    BY <1>0, <2>1
  <2> QED BY <1>0, <2>2, <2>3
<1>2. x * Contents \in Int /\ y * Contents \in Int
  BY <1>0
<1>3. ~(x > y)
  BY <1>0, <1>1, <1>2
<1>4. ~(y > x)
  BY <1>0, <1>1, <1>2
<1>5. x = y
  BY <1>3, <1>4
<1>6. x * Contents = y * Contents
  BY <1>5
<1> QED BY <1>2, <1>5, <1>6

\* encode_id tells ids apart, but for the subtype of a binary.
THEOREM KeysTellApart ==
  ASSUME NEW a \in Values, NEW b \in Values, EncodeId(a) # Failed, EncodeId(a) = EncodeId(b)
  PROVE  Taggable(a) /\ Taggable(b) /\ (a = b \/ (a.t \in Binaries /\ b.t \in Binaries))
<1>1. Taggable(a) /\ Taggable(b)
  BY DEF EncodeId, Taggable
<1>2. a \in Scalars /\ b \in Scalars
  <2>1. DOMAIN Tag \cap Nested = {}
    BY DEF Tag, Nested
  <2>2. \A x \in Values : x \in Scalars \/ x.t \in Nested
    <3>1. Nesting = 0 \/ Nesting \in 1 .. Nesting
      BY QueriesAssumption
    <3> QED BY <3>1, ValueUnfolds DEF Values, NestedIn
  <2> QED BY <1>1, <2>1, <2>2 DEF Taggable
<1>3. Tag[a.t] \in Int /\ Tag[b.t] \in Int
  BY <1>1 DEF Taggable, Tag
<1>4. Tag[a.t] * Contents + a.v = Tag[b.t] * Contents + b.v
  BY <1>1 DEF EncodeId, Taggable
<1>5. Tag[a.t] = Tag[b.t] /\ a.v = b.v
  <2>1. a.v \in 0 .. (Contents - 1) /\ b.v \in 0 .. (Contents - 1)
    BY <1>2 DEF Scalars
  <2> QED BY <1>3, <1>4, <2>1, Digits
<1>6. a.t = b.t \/ (a.t \in Binaries /\ b.t \in Binaries)
  BY <1>1, <1>5 DEF Taggable, Tag, Binaries
<1>7. a.t = b.t => a = b
  BY <1>2, <1>5 DEF Scalars
<1> QED BY <1>1, <1>6, <1>7

LEMMA KeyIsInt ==
  ASSUME NEW a \in Values, EncodeId(a) # Failed
  PROVE  EncodeId(a) \in Int /\ a.t # "nan" /\ a.t \notin Nested
<1>1. Taggable(a)
  BY DEF EncodeId, Taggable
<1>2. Tag[a.t] \in Int /\ a.t # "nan" /\ a.t \notin Nested
  BY <1>1 DEF Taggable, Tag, Nested
<1>3. a.v \in 0 .. (Contents - 1)
  <2>1. Nesting \in 0 .. Nesting
    BY QueriesAssumption
  <2> QED BY <1>2, <2>1, ValueParts DEF Values
<1>4. Contents \in Nat
  BY QueriesAssumption
<1>5. Tag[a.t] * Contents \in Int
  BY <1>2, <1>4
<1> QED BY <1>1, <1>2, <1>3, <1>5 DEF EncodeId, Taggable

-----------------------------------------------------------------------------
(* The collection.                                                           *)

\* A document has an id, which is a value, when it is stored.
LEMMA StoredHasId ==
  ASSUME NEW doc \in Inserts, NEW fresh \in FreshIds
  PROVE  LET put == EnsureId(doc, fresh)
         IN  /\ put.doc \in Stored /\ "_id" \in DOMAIN put.doc /\ put.doc["_id"] = put.id /\ put.id \in Values
             /\ EncodeId(put.id) \in Keys
<1> DEFINE id == IF "_id" \in DOMAIN doc THEN doc["_id"] ELSE fresh
<1>1. id \in Values /\ EncodeId(id) \in Keys
  BY QueriesAssumption DEF Keys
<1> DEFINE put == EnsureId(doc, fresh)
<1>2. put.id = id /\ put.doc = [n \in DOMAIN doc \cup {"_id"} |-> IF n = "_id" THEN id ELSE doc[n]]
  BY DEF EnsureId
<1>3. "_id" \in DOMAIN put.doc /\ put.doc["_id"] = id
  BY <1>2
<1>4. put.doc \in Stored
  BY DEF Stored
<1> QED BY <1>1, <1>2, <1>3, <1>4

LEMMA StoredId ==
  ASSUME NEW doc \in Stored
  PROVE  "_id" \in DOMAIN doc /\ doc["_id"] \in Values
<1>1. PICK d \in Inserts, fresh \in FreshIds : doc = EnsureId(d, fresh).doc
  BY DEF Stored
<1> QED BY <1>1, StoredHasId

\* The inductive invariant: what is stored was put, under the key of its id.
IInv ==
  /\ DOMAIN store = Keys \ {Failed}
  /\ \A k \in Present(store) : store[k] \in Stored
  /\ TypeOK

LEMMA IInvInit == Init => IInv
BY DEF Init, IInv, TypeOK, Present

LEMMA IInvInsert ==
  ASSUME IInv, NEW doc \in Inserts, NEW fresh \in FreshIds, Insert(doc, fresh)
  PROVE  IInv'
<1> DEFINE put == EnsureId(doc, fresh)
           key == EncodeId(put.id)
<1>1. CASE key = Failed
  <2>1. store' = store
    BY <1>1 DEF Insert
  <2> QED BY <2>1 DEF IInv, TypeOK, Present
<1>2. CASE key # Failed
  <2>1. store' = [store EXCEPT ![key] = put.doc]
    BY <1>2 DEF Insert
  <2>2. /\ put.doc \in Stored /\ "_id" \in DOMAIN put.doc /\ put.doc["_id"] = put.id
        /\ key \in Keys \ {Failed}
    BY <1>2, StoredHasId
  <2> HIDE DEF put
  <2>3. DOMAIN store' = DOMAIN store /\ key \in DOMAIN store /\ store'[key] = put.doc
    BY <2>1, <2>2 DEF IInv
  <2>4. \A k \in DOMAIN store : k # key => store'[k] = store[k]
    BY <2>1
  <2>5. \A k \in Present(store') : k = key \/ (k \in Present(store) /\ store'[k] = store[k])
    BY <2>3, <2>4 DEF Present
  <2>6. \A k \in Present(store') : store'[k] \in Stored
    BY <2>2, <2>3, <2>5 DEF IInv
  <2>7. \A k \in Present(store') : "_id" \in DOMAIN store'[k] /\ EncodeId(store'[k]["_id"]) = k
    BY <2>2, <2>3, <2>5 DEF IInv, TypeOK
  <2> QED BY <2>3, <2>6, <2>7 DEF IInv, TypeOK
<1> QED BY <1>1, <1>2

LEMMA IInvDelete ==
  ASSUME IInv, NEW filter, NEW one, Delete(filter, one)
  PROVE  IInv'
<1>1. PICK keys : store' = [k \in DOMAIN store |-> IF k \in keys THEN Absent ELSE store[k]]
  BY Zenon DEF Delete
<1>2. DOMAIN store' = DOMAIN store /\ \A k \in Present(store') : k \in Present(store) /\ store'[k] = store[k]
  BY <1>1 DEF Present
<1> QED BY <1>2 DEF IInv, TypeOK

LEMMA IInvNext == IInv /\ [Next]_store => IInv'
<1> SUFFICES ASSUME IInv, [Next]_store PROVE IInv'
  OBVIOUS
<1>1. CASE \E doc \in Inserts, fresh \in FreshIds : Insert(doc, fresh)
  BY <1>1, IInvInsert
<1>2. CASE \E filter \in Filters, one \in BOOLEAN : Delete(filter, one)
  BY <1>2, IInvDelete
<1>3. CASE UNCHANGED store
  BY <1>3 DEF IInv, TypeOK, Present
<1> QED BY <1>1, <1>2, <1>3 DEF Next

LEMMA IInvAlways == Spec => []IInv
BY IInvInit, IInvNext, PTL DEF Spec

\* What stands under a key is a document whose _id has that key: inserts put it
\* there, and a delete leaves what it does not take away.
THEOREM TypeCorrect == Spec => []TypeOK
<1>1. IInv => TypeOK
  BY DEF IInv
<1> QED BY <1>1, IInvAlways, PTL

-----------------------------------------------------------------------------
(* Point reads.                                                              *)

\* The id of a point read is the only one the predicate names.
LEMMA PointIdOf ==
  ASSUME NEW p \in Predicates, IsPointRead(p)
  PROVE  /\ PointId(p) \in Values
         /\ \/ AsIdEq(p) /\ PointId(p) = p.arg
            \/ /\ ~AsIdEq(p) /\ p.kind = "and"
               /\ \E i \in DOMAIN p.parts :
                    p.parts[i] \in Predicates /\ AsIdEq(p.parts[i]) /\ p.parts[i].arg = PointId(p)
<1> DEFINE ids == {i \in DOMAIN p.parts : AsIdEq(p.parts[i])}
<1>0. 2 * Nesting \in 0 .. (2 * Nesting)
  BY QueriesAssumption
<1>1. \A q \in Predicates : AsIdEq(q) => q.arg \in Values
  BY <1>0, PredicateParts DEF AsIdEq, Predicates
<1>2. \A id : ExtractIdEq(p) = {id} => PointId(p) = id
  BY DEF PointId
<1>3. CASE AsIdEq(p)
  <2>1. ExtractIdEq(p) = {p.arg}
    BY <1>3 DEF ExtractIdEq, AsIdEq
  <2> QED BY <1>1, <1>2, <1>3, <2>1
<1>4. CASE ~AsIdEq(p)
  <2>1. /\ p.kind = "and" /\ Cardinality(ids) = 1
        /\ ExtractIdEq(p) = {p.parts[i].arg : i \in ids}
    BY <1>4 DEF ExtractIdEq, IsPointRead
  <2>2. p.parts \in Seq(Predicates)
    BY <1>0, <2>1, PredicateParts DEF Predicates
  <2>3. PICK i \in ids : ids = {i}
    <3>1. IsFiniteSet(DOMAIN p.parts)
      <4>1. Len(p.parts) \in Int /\ 1 \in Int /\ DOMAIN p.parts = 1 .. Len(p.parts)
        BY <2>2, LenProperties
      <4> QED BY <4>1, FS_Interval
    <3>2. IsFiniteSet(ids)
      BY <3>1, FS_Subset
    <3> HIDE DEF ids
    <3>3. \E x : ids = {x}
      BY <2>1, <3>2, FS_Singleton
    <3> QED BY <3>3
  <2>4. ExtractIdEq(p) = {p.parts[i].arg}
    BY <2>1, <2>3
  <2>5. p.parts[i] \in Predicates
    BY <2>2, <2>3, ElementOfSeq, LenProperties
  <2> QED BY <1>1, <1>2, <1>4, <2>1, <2>3, <2>4, <2>5
<1> QED BY <1>3, <1>4

\* An equality with an id is matched by the documents with that id.
LEMMA MatchesId ==
  ASSUME NEW p \in Predicates, AsIdEq(p), NEW doc
  PROVE  Matches(p, doc) <=> "_id" \in DOMAIN doc /\ Same(doc["_id"], p.arg)
<1>1. Matches(p, doc) = Holds(Matcher(doc), p, doc)
  BY MatchesUnfolds
<1>2. Holds(Matcher(doc), p, doc) = FieldMatches(doc, p.name, p.op, p.arg)
  BY DEF Holds, AsIdEq
<1>3. FieldMatches(doc, "_id", "$eq", p.arg) <=> "_id" \in DOMAIN doc /\ Same(doc["_id"], p.arg)
  BY DEF FieldMatches
<1> QED BY <1>1, <1>2, <1>3 DEF AsIdEq

\* A value that is no document and no array is equal to itself alone, NaN to nothing.
LEMMA SameIsEqual ==
  ASSUME NEW a, NEW b, b.t \notin Nested
  PROVE  Same(a, b) <=> a = b /\ a.t # "nan"
<1> DEFINE same[x \in Values \X Values] == SameValue(same, x[1], x[2])
<1>1. Same(a, b) <=> SameValue(same, a, b)
  BY DEF Same
<1> HIDE DEF same
<1>2. SameValue(same, a, b) <=> a = b /\ a.t # "nan"
  BY DEF SameValue
<1> QED BY <1>1, <1>2

\* What matches the predicate of a point read has its id.
LEMMA MatchesHaveId ==
  ASSUME NEW p \in Predicates, IsPointRead(p), PointId(p).t \notin Nested,
         NEW doc, Matches(p, doc)
  PROVE  "_id" \in DOMAIN doc /\ doc["_id"] = PointId(p)
<1>1. CASE AsIdEq(p) /\ PointId(p) = p.arg
  BY <1>1, MatchesId, SameIsEqual
<1>2. CASE /\ p.kind = "and"
           /\ \E i \in DOMAIN p.parts :
                p.parts[i] \in Predicates /\ AsIdEq(p.parts[i]) /\ p.parts[i].arg = PointId(p)
  <2>1. PICK i \in DOMAIN p.parts :
          p.parts[i] \in Predicates /\ AsIdEq(p.parts[i]) /\ p.parts[i].arg = PointId(p)
    BY <1>2
  <2>2. Holds(Matcher(doc), p, doc)
    BY MatchesUnfolds
  <2>3. Matcher(doc)[p.parts[i]]
    BY <1>2, <2>1, <2>2 DEF Holds
  <2>4. Matches(p.parts[i], doc)
    BY <2>1, <2>3, MatchesUnfolds
  <2> QED BY <2>1, <2>4, MatchesId, SameIsEqual
<1> QED BY <1>1, <1>2, PointIdOf

\* Under an id's key stands the only document that can match; a predicate that is
\* the id alone is matched by it, if no other binary has that key.
LEMMA PointHits ==
  ASSUME IInv, NEW p \in Predicates, IsPointRead(p), ~Excepted(p)
  PROVE  LET key == EncodeId(PointId(p))
             hits == {k \in Present(store) : Matches(p, store[k])}
         IN  /\ key \in Int /\ hits \subseteq {key}
             /\ PointRead(p) = {store[k] : k \in hits} /\ PointRead(p) # Failed
<1> DEFINE id == PointId(p)
           key == EncodeId(id)
           hits == {k \in Present(store) : Matches(p, store[k])}
<1>1. id \in Values /\ key # Failed /\ key \in Int /\ id.t # "nan" /\ id.t \notin Nested
  BY PointIdOf, KeyIsInt DEF Excepted
<1>2. \A k \in Present(store) :
        /\ store[k] \in Stored /\ "_id" \in DOMAIN store[k] /\ store[k]["_id"] \in Values
        /\ EncodeId(store[k]["_id"]) = k
  BY StoredId DEF IInv, TypeOK
<1>3. hits \subseteq {key}
  <2> SUFFICES ASSUME NEW k \in hits PROVE k = key
    OBVIOUS
  <2>1. k \in Present(store) /\ Matches(p, store[k])
    OBVIOUS
  <2>2. store[k]["_id"] = id
    BY <1>1, <2>1, MatchesHaveId
  <2> QED BY <1>2, <2>1, <2>2
<1>4. Get(id) = {store[k] : k \in {key} \cap Present(store)}
  <2>1. key \in Present(store) => {store[k] : k \in {key} \cap Present(store)} = {store[key]}
    OBVIOUS
  <2>2. key \notin Present(store) => {store[k] : k \in {key} \cap Present(store)} = {}
    OBVIOUS
  <2> QED BY <1>1, <2>1, <2>2 DEF Get
<1>5. ASSUME AsIdEq(p) PROVE PointRead(p) = {store[k] : k \in hits}
  <2>1. id = p.arg /\ id.t \notin Binaries
    BY <1>5, PointIdOf DEF Excepted, Binaries
  <2>2. ASSUME NEW k \in {key} \cap Present(store) PROVE k \in hits
    <3>1. EncodeId(store[k]["_id"]) = EncodeId(id)
      BY <1>2
    <3>2. store[k]["_id"] = id
      BY <1>1, <1>2, <2>1, <3>1, KeysTellApart
    <3>3. Matches(p, store[k])
      BY <1>1, <1>2, <1>5, <2>1, <3>2, MatchesId, SameIsEqual
    <3> QED BY <3>3
  <2>3. hits = {key} \cap Present(store)
    BY <1>3, <2>2
  <2>4. Get(id) = {store[k] : k \in hits}
    BY <1>4, <2>3
  <2>5. PointRead(p) = Get(id)
    BY <1>5 DEF PointRead
  <2> HIDE DEF hits
  <2> QED BY <2>4, <2>5
<1>6. ASSUME ~AsIdEq(p) PROVE PointRead(p) = {store[k] : k \in hits}
  <2>1. Get(id) # Failed
    <3>1. \A k \in Present(store) : {store[k]} # Failed
      BY <1>2, FailedAssumption
    <3> QED BY <1>1, <3>1, FailedAssumption DEF Get
  <2>2. PointRead(p) = {doc \in Get(id) : Matches(p, doc)}
    BY <1>6, <2>1 DEF PointRead
  <2>3. {doc \in {store[k] : k \in {key} \cap Present(store)} : Matches(p, doc)} = {store[k] : k \in hits}
    <3>1. \A k \in hits : k \in {key} \cap Present(store) /\ Matches(p, store[k])
      BY <1>3
    <3>2. \A k \in {key} \cap Present(store) : Matches(p, store[k]) => k \in hits
      OBVIOUS
    <3> HIDE DEF hits
    <3> QED BY <3>1, <3>2
  <2> HIDE DEF hits
  <2> QED BY <1>4, <2>2, <2>3
<1>7. {store[k] : k \in hits} # Failed
  <2>1. hits = {} \/ (hits = {key} /\ key \in Present(store))
    BY <1>3
  <2> HIDE DEF hits, key
  <2>2. hits = {key} => {store[k] : k \in hits} = {store[key]}
    OBVIOUS
  <2>3. hits = {} => {store[k] : k \in hits} = {}
    OBVIOUS
  <2> QED BY <1>2, <2>1, <2>2, <2>3, FailedAssumption
<1> QED BY <1>1, <1>3, <1>5, <1>6, <1>7

\* An update or delete finds by a point read exactly the documents the scan
\* would have found.
LEMMA PointReadsInv == IInv => PointReadsLikeScans
<1> SUFFICES ASSUME IInv, NEW p \in WellFormed, IsPointRead(p), ~Excepted(p), NEW one \in BOOLEAN
             PROVE  Collect(p, one) = ScanFor(p, one)
  BY DEF PointReadsLikeScans
<1> DEFINE key == EncodeId(PointId(p))
           hits == {k \in Present(store) : Matches(p, store[k])}
<1>1. /\ key \in Int /\ hits \subseteq {key} /\ PointRead(p) = {store[k] : k \in hits}
  BY WellFormedTyped, PointHits
<1>2. hits # {} => {Min(hits)} = hits
  <2> SUFFICES ASSUME hits # {} PROVE {Min(hits)} = hits
    OBVIOUS
  <2>1. hits = {key}
    BY <1>1
  <2> HIDE DEF hits, key
  <2> QED BY <1>1, <2>1 DEF Min
<1>3. ScanFor(p, one) = {store[k] : k \in IF one /\ hits # {} THEN {Min(hits)} ELSE hits}
  BY DEF ScanFor
<1>4. Collect(p, one) = PointRead(p)
  BY DEF Collect
<1> HIDE DEF hits
<1> QED BY <1>1, <1>2, <1>3, <1>4

THEOREM PointReadsScan == Spec => []PointReadsLikeScans
BY PointReadsInv, IInvAlways, PTL

\* A find by a point read gives the answer that the pages of a scan would give.
LEMMA PointFindsInv == IInv => PointFindsAnswer
<1> SUFFICES ASSUME IInv, NEW p \in WellFormed, IsPointRead(p), ~Excepted(p),
                    NEW skip \in Skips, NEW limit \in Limits,
                    skip <= 0, IF limit = NoLimit THEN TRUE ELSE limit >= 0
             PROVE  LET docs == {store[k] : k \in Present(store)}
                        found == {d \in docs : Matches(p, d)}
                    IN  PointFind(p, limit) = {store[k] : k \in Answer(store, found, skip, limit)}
  BY DEF PointFindsAnswer
<1> DEFINE key == EncodeId(PointId(p))
           hits == {k \in Present(store) : Matches(p, store[k])}
           docs == {store[k] : k \in Present(store)}
           found == {d \in docs : Matches(p, d)}
           rank(k) == Cardinality({j \in hits : j <= k})
           answer == Answer(store, found, skip, limit)
<1>1. key \in Int /\ hits \subseteq {key} /\ PointRead(p) = {store[k] : k \in hits} /\ PointRead(p) # Failed
  BY WellFormedTyped, PointHits
<1>2. skip \in Int /\ (limit # NoLimit => limit \in Int)
  BY QueriesAssumption
<1>3. {k \in Present(store) : store[k] \in found} = hits
  OBVIOUS
<1>4. answer = {k \in hits : /\ rank(k) > skip
                             /\ Unlimited(limit) \/ rank(k) <= Max({0, skip}) + limit}
  <2> HIDE DEF found, hits
  <2> QED BY <1>3 DEF Answer
<1>5. \A k \in hits : rank(k) = 1
  <2> SUFFICES ASSUME NEW k \in hits PROVE rank(k) = 1
    OBVIOUS
  <2>1. {j \in hits : j <= k} = {k}
    <3>1. \A j \in hits : j = k /\ j \in Int
      BY <1>1
    <3> HIDE DEF hits
    <3> QED BY <3>1
  <2> HIDE DEF hits
  <2> QED BY <2>1, FS_Singleton
<1>6. Max({0, skip}) = 0
  BY <1>2 DEF Max
<1> HIDE DEF hits, rank, answer, found
<1>7. CASE limit = NoLimit
  <2>1. answer = hits
    BY <1>2, <1>4, <1>5, <1>7 DEF Unlimited
  <2>2. PointFind(p, limit) = PointRead(p)
    BY <1>1, <1>7 DEF PointFind
  <2> QED BY <1>1, <2>1, <2>2 DEF answer, found
<1>8. CASE limit # NoLimit /\ limit = 0
  <2>1. answer = {}
    BY <1>2, <1>4, <1>5, <1>6, <1>8 DEF Unlimited
  <2>2. PointFind(p, limit) = {}
    BY <1>1, <1>8 DEF PointFind
  <2>3. {store[k] : k \in answer} = {}
    BY <2>1
  <2> QED BY <2>2, <2>3 DEF answer, found
<1>9. CASE limit # NoLimit /\ limit > 0
  <2>1. answer = hits
    BY <1>2, <1>4, <1>5, <1>6, <1>9 DEF Unlimited
  <2>2. PointFind(p, limit) = PointRead(p)
    BY <1>1, <1>2, <1>9 DEF PointFind
  <2> QED BY <1>1, <2>1, <2>2 DEF answer, found
<1>10. limit = NoLimit \/ (limit # NoLimit /\ limit = 0) \/ (limit # NoLimit /\ limit > 0)
  BY <1>2
<1> QED BY <1>7, <1>8, <1>9, <1>10, Zenon

THEOREM PointFindsSame == Spec => []PointFindsAnswer
BY PointFindsInv, IInvAlways, PTL

-----------------------------------------------------------------------------
(* Matching is selection.                                                    *)

\* Collapsing keeps what its parts match, together.
LEMMA CollapseAndMatches ==
  ASSUME NEW parts \in Seq(Predicates \cup {Malformed}), CollapseAnd(parts) # Malformed,
         CollapseAnd(parts) \in Predicates, NEW doc
  PROVE  /\ \A i \in DOMAIN parts : parts[i] # Malformed
         /\ Matches(CollapseAnd(parts), doc) <=> \A i \in DOMAIN parts : Matches(parts[i], doc)
<1>1. Len(parts) \in Nat /\ DOMAIN parts = 1 .. Len(parts)
  BY LenProperties
<1>2. ~AnyMalformed(parts)
  <2> SUFFICES ASSUME AnyMalformed(parts) PROVE FALSE
    OBVIOUS
  <2>1. PICK i \in DOMAIN parts : parts[i] = Malformed
    BY DEF AnyMalformed
  <2>2. Len(parts) # 0 /\ (Len(parts) = 1 => parts[1] = Malformed)
    BY <1>1, <2>1
  <2> QED BY <2>2 DEF CollapseAnd
<1>3. \A i \in DOMAIN parts : parts[i] # Malformed /\ parts[i] \in Predicates
  <2>1. \A i \in DOMAIN parts : parts[i] \in Predicates \cup {Malformed}
    BY <1>1, ElementOfSeq
  <2> QED BY <1>2, <2>1 DEF AnyMalformed
<1>4. Matches(CollapseAnd(parts), doc) = Holds(Matcher(doc), CollapseAnd(parts), doc)
  BY MatchesUnfolds
<1>5. CASE Len(parts) = 0
  <2>1. CollapseAnd(parts) = Always
    BY <1>2, <1>5 DEF CollapseAnd
  <2>2. Holds(Matcher(doc), Always, doc)
    BY DEF Holds, Always
  <2> QED BY <1>1, <1>4, <1>5, <2>1, <2>2
<1>6. CASE Len(parts) = 1
  <2>1. CollapseAnd(parts) = parts[1]
    BY <1>2, <1>6 DEF CollapseAnd
  <2>2. DOMAIN parts = {1}
    BY <1>1, <1>6
  <2> QED BY <1>3, <2>1, <2>2
<1>7. CASE Len(parts) \notin {0, 1}
  <2>1. CollapseAnd(parts) = [kind |-> "and", parts |-> parts]
    BY <1>2, <1>7 DEF CollapseAnd
  <2>2. Holds(Matcher(doc), CollapseAnd(parts), doc) <=> \A i \in DOMAIN parts : Matcher(doc)[parts[i]]
    BY <2>1 DEF Holds
  <2>3. \A i \in DOMAIN parts : Matcher(doc)[parts[i]] = Matches(parts[i], doc)
    BY <1>3, MatchesUnfolds
  <2> QED BY <1>3, <1>4, <2>2, <2>3
<1> QED BY <1>5, <1>6, <1>7

LEMMA OrMatches ==
  ASSUME NEW parts \in Seq(Predicates \cup {Malformed}), Or(parts) # Malformed,
         Or(parts) \in Predicates, NEW doc
  PROVE  /\ \A i \in DOMAIN parts : parts[i] # Malformed
         /\ Matches(Or(parts), doc) <=> \E i \in DOMAIN parts : Matches(parts[i], doc)
<1>1. ~AnyMalformed(parts) /\ Or(parts) = [kind |-> "or", parts |-> parts]
  BY DEF Or
<1>2. \A i \in DOMAIN parts : parts[i] # Malformed /\ parts[i] \in Predicates
  <2>1. \A i \in DOMAIN parts : parts[i] \in Predicates \cup {Malformed}
    BY LenProperties, ElementOfSeq
  <2> QED BY <1>1, <2>1 DEF AnyMalformed
<1>3. Matches(Or(parts), doc) = Holds(Matcher(doc), Or(parts), doc)
  BY MatchesUnfolds
<1>4. Holds(Matcher(doc), Or(parts), doc) <=> \E i \in DOMAIN parts : Matcher(doc)[parts[i]]
  BY <1>1 DEF Holds
<1>5. \A i \in DOMAIN parts : Matcher(doc)[parts[i]] = Matches(parts[i], doc)
  BY <1>2, MatchesUnfolds
<1> QED BY <1>2, <1>3, <1>4, <1>5

LEMMA NotMatches ==
  ASSUME NEW p \in Predicates \cup {Malformed}, Not(p) # Malformed, Not(p) \in Predicates, NEW doc
  PROVE  p # Malformed /\ (Matches(Not(p), doc) <=> ~Matches(p, doc))
<1>1. p # Malformed /\ p \in Predicates /\ Not(p) = [kind |-> "not", inner |-> p]
  BY DEF Not
<1>2. Matches(Not(p), doc) = Holds(Matcher(doc), Not(p), doc)
  BY MatchesUnfolds
<1>3. Holds(Matcher(doc), Not(p), doc) <=> ~Matcher(doc)[p]
  BY <1>1 DEF Holds
<1>4. Matcher(doc)[p] = Matches(p, doc)
  BY <1>1, MatchesUnfolds
<1> QED BY <1>1, <1>2, <1>3, <1>4

\* The operators that nest nothing.
LEMMA FieldSelects ==
  ASSUME NEW f, NEW docs, NEW doc \in docs, NEW name \in STRING, NEW item \in Items,
         item.key \in {"$eq", "$ne", "$gt", "$gte", "$lt", "$lte", "$in", "$nin", "$exists"}
  PROVE  Matches(Field(name, item.key, item.val), doc) <=> doc \in SelectedByOperator(f, docs, name, item)
<1> DEFINE op == item.key
           val == item.val
           p == Field(name, op, val)
           has == name \in DOMAIN doc
           equal(v) == With(docs, name, LAMBDA a : Same(a, v))
           level(v) == With(docs, name, LAMBDA a : Level(a, v))
           listed == UNION {equal(val.items[i].val) : i \in DOMAIN val.items}
           above == With(docs, name, LAMBDA a : Greater(a, val))
           below == With(docs, name, LAMBDA a : Greater(val, a))
<1>1. Matches(p, doc) <=> FieldMatches(doc, name, op, val)
  <2>1. p \in Flat /\ p.kind = "field" /\ p.name = name /\ p.op = op /\ p.arg = val
    BY DEF Field, Flat, Operators, Items, ItemsOf
  <2>2. p \in Predicates
    <3>1. 2 * Nesting \in 0 .. (2 * Nesting)
      BY QueriesAssumption
    <3> QED BY <2>1, <3>1, AlwaysTyped DEF Predicates
  <2>3. Matches(p, doc) = Holds(Matcher(doc), p, doc)
    BY <2>2, MatchesUnfolds
  <2> HIDE DEF p
  <2>4. Holds(Matcher(doc), p, doc) = FieldMatches(doc, name, op, val)
    BY <2>1 DEF Holds
  <2> QED BY <2>3, <2>4
<1>2. \A v : doc \in equal(v) <=> has /\ Same(doc[name], v)
  BY DEF With
<1>3. \A v : doc \in level(v) <=> has /\ Level(doc[name], v)
  BY DEF With
<1>4. doc \in above <=> has /\ Greater(doc[name], val)
  BY DEF With
<1>5. doc \in below <=> has /\ Greater(val, doc[name])
  BY DEF With
<1>6. doc \in listed <=> has /\ Among(doc[name], val)
  <2> HIDE DEF equal
  <2>1. doc \in listed <=> \E i \in DOMAIN val.items : doc \in equal(val.items[i].val)
    OBVIOUS
  <2> QED BY <1>2, <2>1 DEF Among
<1> HIDE DEF equal, level, listed, above, below
<1>7. SelectedByOperator(f, docs, name, item) =
        CASE op = "$eq" -> equal(val)
          [] op = "$ne" -> docs \ equal(val)
          [] op = "$in" -> listed
          [] op = "$nin" -> docs \ listed
          [] op = "$gt" -> above
          [] op = "$gte" -> above \cup level(val)
          [] op = "$lt" -> below
          [] op = "$lte" -> below \cup level(val)
          [] op = "$exists" -> {d \in docs : (name \in DOMAIN d) = (val.v = 1)}
          [] op = "$not" -> docs \ {d \in docs : \A i \in DOMAIN val.items : d \in f[val.items[i]]}
  BY DEF SelectedByOperator, equal, level, listed, above, below
<1> DEFINE selected == SelectedByOperator(f, docs, name, item)
<1>8. CASE op = "$eq"
  <2>1. FieldMatches(doc, name, op, val) <=> has /\ Same(doc[name], val)
    BY <1>8 DEF FieldMatches
  <2>2. selected = equal(val)
    BY <1>7, <1>8
  <2> QED BY <1>1, <1>2, <2>1, <2>2
<1>9. CASE op = "$ne"
  <2>1. FieldMatches(doc, name, op, val) <=> (has => ~Same(doc[name], val))
    BY <1>9 DEF FieldMatches
  <2>2. selected = docs \ equal(val)
    BY <1>7, <1>9
  <2> QED BY <1>1, <1>2, <2>1, <2>2
<1>10. CASE op = "$in"
  <2>1. FieldMatches(doc, name, op, val) <=> has /\ Among(doc[name], val)
    BY <1>10 DEF FieldMatches
  <2>2. selected = listed
    BY <1>7, <1>10
  <2> QED BY <1>1, <1>6, <2>1, <2>2
<1>11. CASE op = "$nin"
  <2>1. FieldMatches(doc, name, op, val) <=> (has => ~Among(doc[name], val))
    BY <1>11 DEF FieldMatches, NinMatches
  <2>2. selected = docs \ listed
    BY <1>7, <1>11
  <2> QED BY <1>1, <1>6, <2>1, <2>2
<1>12. CASE op = "$gt"
  <2>1. FieldMatches(doc, name, op, val) <=> has /\ Greater(doc[name], val)
    BY <1>12 DEF FieldMatches
  <2>2. selected = above
    BY <1>7, <1>12
  <2> QED BY <1>1, <1>4, <2>1, <2>2
<1>13. CASE op = "$gte"
  <2>1. FieldMatches(doc, name, op, val) <=> has /\ (Greater(doc[name], val) \/ Level(doc[name], val))
    BY <1>13 DEF FieldMatches
  <2>2. selected = above \cup level(val)
    BY <1>7, <1>13
  <2> QED BY <1>1, <1>3, <1>4, <2>1, <2>2
<1>14. CASE op = "$lt"
  <2>1. FieldMatches(doc, name, op, val) <=> has /\ Greater(val, doc[name])
    BY <1>14 DEF FieldMatches
  <2>2. selected = below
    BY <1>7, <1>14
  <2> QED BY <1>1, <1>5, <2>1, <2>2
<1>15. CASE op = "$lte"
  <2>1. FieldMatches(doc, name, op, val) <=> has /\ (Greater(val, doc[name]) \/ Level(doc[name], val))
    BY <1>15 DEF FieldMatches
  <2>2. selected = below \cup level(val)
    BY <1>7, <1>15
  <2> QED BY <1>1, <1>3, <1>5, <2>1, <2>2
<1>16. CASE op = "$exists"
  <2>1. FieldMatches(doc, name, op, val) <=> (has <=> val.v = 1)
    BY <1>16 DEF FieldMatches
  <2>2. selected = {d \in docs : (name \in DOMAIN d) = (val.v = 1)}
    BY <1>7, <1>16
  <2> QED BY <1>1, <2>1, <2>2
<1> QED BY <1>8, <1>9, <1>10, <1>11, <1>12, <1>13, <1>14, <1>15, <1>16

LEMMA NotSelects ==
  ASSUME NEW f, NEW docs, NEW name, NEW item, item.key = "$not"
  PROVE  SelectedByOperator(f, docs, name, item) =
           docs \ {d \in docs : \A i \in DOMAIN item.val.items : d \in f[item.val.items[i]]}
<1> DEFINE others == docs \ {d \in docs : \A i \in DOMAIN item.val.items : d \in f[item.val.items[i]]}
           op == item.key
           val == item.val
           equal(v) == With(docs, name, LAMBDA a : Same(a, v))
           level(v) == With(docs, name, LAMBDA a : Level(a, v))
           listed == UNION {equal(val.items[i].val) : i \in DOMAIN val.items}
           above == With(docs, name, LAMBDA a : Greater(a, val))
           below == With(docs, name, LAMBDA a : Greater(val, a))
           exists == {d \in docs : (name \in DOMAIN d) = (val.v = 1)}
<1>1. SelectedByOperator(f, docs, name, item) =
        CASE op = "$eq" -> equal(val)
          [] op = "$ne" -> docs \ equal(val)
          [] op = "$in" -> listed
          [] op = "$nin" -> docs \ listed
          [] op = "$gt" -> above
          [] op = "$gte" -> above \cup level(val)
          [] op = "$lt" -> below
          [] op = "$lte" -> below \cup level(val)
          [] op = "$exists" -> exists
          [] op = "$not" -> others
  BY DEF SelectedByOperator
<1> HIDE DEF equal, level, listed, above, below, others, exists
<1>2. SelectedByOperator(f, docs, name, item) = others
  BY <1>1
<1> QED BY <1>2 DEF others

\* What an operator's predicate matches is what the operator selects: by
\* induction on the nesting, $not being the only one to nest.
LEMMA FieldOpMatches ==
  ASSUME NEW docs, NEW doc \in docs, NEW name \in STRING,
         NEW n \in 0 .. Nesting, NEW item \in ItemsOf(Value[n]), ParseFieldOp(name, item) # Malformed
  PROVE  Matches(ParseFieldOp(name, item), doc) <=> doc \in SelectedByOp(docs, name, item)
<1> DEFINE Agree(x) == ParseFieldOp(name, x) # Malformed =>
                         (Matches(ParseFieldOp(name, x), doc) <=> doc \in SelectedByOp(docs, name, x))
           Good == {k \in Nat : k <= Nesting => \A x \in ItemsOf(Value[k]) : Agree(x)}
<1>0. Nesting \in Nat
  BY QueriesAssumption
<1>1. ASSUME NEW x \in Items, x.key = "$not" => Agree(x) PROVE Agree(x)
  <2>1. CASE /\ x.key \in {"$eq", "$ne", "$gt", "$gte", "$lt", "$lte", "$in", "$nin", "$exists"}
             /\ ParseFieldOp(name, x) = Field(name, x.key, x.val)
    <3>1. SelectedByOp(docs, name, x) = SelectedByOperator(OpSelection(docs, name), docs, name, x)
      BY SelectedByOpUnfolds
    <3> QED BY <2>1, <3>1, FieldSelects
  <2> QED BY <1>1, <2>1, FieldOpCases
<1>2. \A k \in 0 .. Nesting : ItemsOf(Value[k]) \subseteq Items
  BY ValueIsValue, NestedGrows DEF Items
<1>3. 0 \in Good
  <2> SUFFICES ASSUME NEW x \in ItemsOf(Value[0]) PROVE Agree(x)
    OBVIOUS
  <2>1. x \in Items
    BY <1>0, <1>2
  <2>2. ParseFieldOp(name, x) = Malformed \/ x.key # "$not"
    <3>1. x.val.t \notin Nested
      BY ValueUnfolds DEF ItemsOf, Scalars
    <3>2. ~IsOperatorDoc(x.val)
      BY <3>1 DEF IsOperatorDoc, Nested
    <3> QED BY <2>1, <3>2, FieldOpCases
  <2>3. x.key = "$not" => Agree(x)
    BY <2>2
  <2> HIDE DEF Agree
  <2> QED BY <1>1, <2>1, <2>3
<1>4. ASSUME NEW k \in Nat, k \in Good PROVE k + 1 \in Good
  <2>0. k + 1 \in Nat
    OBVIOUS
  <2> SUFFICES ASSUME k + 1 <= Nesting, NEW x \in ItemsOf(Value[k + 1]) PROVE Agree(x)
    BY <2>0, Zenon
  <2>1. k \in 0 .. Nesting /\ k + 1 \in 0 .. Nesting /\ (k + 1) - 1 = k /\ k <= Nesting
    BY <1>0
  <2> DEFINE val == x.val
             parts == [i \in DOMAIN val.items |-> ParseFieldOp(name, val.items[i])]
  <2>2. x \in Items /\ val \in Value[k + 1]
    BY <1>2, <2>1 DEF ItemsOf
  <2>3. \A i \in DOMAIN val.items : val.items[i] \in ItemsOf(Value[k])
    BY <2>1, <2>2, ValueParts
  <2>4. \A i \in DOMAIN val.items : Agree(val.items[i])
    <3> HIDE DEF Agree
    <3> QED BY <1>4, <2>1, <2>3
  <2>5. ASSUME x.key = "$not", ParseFieldOp(name, x) # Malformed
        PROVE  Matches(ParseFieldOp(name, x), doc) <=> doc \in SelectedByOp(docs, name, x)
    <3> DEFINE all == CollapseAnd(parts)
    <3>1. ParseFieldOp(name, x) = Not(all)
      BY <2>2, <2>5, FieldOpCases
    <3>2. 2 * k \in 0 .. (2 * Nesting) /\ 2 * (k + 1) \in 0 .. (2 * Nesting) /\ 2 * k + 1 \in 2 * k .. (2 * Nesting)
          /\ 2 * k + 1 \in 0 .. (2 * Nesting) /\ 2 * k + 1 # 2 * k
      BY <1>0, <2>1
    <3>3. parts \in Seq(Predicate[2 * k] \cup {Malformed}) /\ DOMAIN parts = 1 .. Len(val.items) /\ Len(val.items) \in Nat
      <4> DEFINE S == Predicate[2 * k] \cup {Malformed}
      <4>1. \A i \in DOMAIN val.items : parts[i] \in S
        BY <2>1, <2>3, FieldOpTyped
      <4>2. DOMAIN parts = DOMAIN val.items /\ parts = [i \in DOMAIN parts |-> parts[i]]
        OBVIOUS
      <4> HIDE DEF parts, S, val
      <4>3. parts \in Seq(S) /\ DOMAIN parts = 1 .. Len(val.items) /\ Len(val.items) \in Nat
        BY <2>1, <2>2, <4>1, <4>2, ItemsSeq
      <4> QED BY <4>3 DEF S
    <3>4. all \in Predicate[2 * k + 1] \cup {Malformed}
      <4> HIDE DEF parts
      <4> QED BY <3>2, <3>3, CollapseAndTyped
    <3>5. all \in Predicates \cup {Malformed}
      BY <3>2, <3>4, PredicateParts
    <3>6. Not(all) \in Predicates
      <4>1. Not(all) \in Predicate[2 * (k + 1)]
        BY <2>1, <2>5, <3>1, FieldOpTyped
      <4> HIDE DEF all
      <4> QED BY <3>2, <4>1, PredicateParts
    <3>7. parts \in Seq(Predicates \cup {Malformed})
      <4>1. Len(parts) = Len(val.items)
        <5> HIDE DEF parts
        <5> QED BY <3>3, LenProperties
      <4>2. \A i \in 1 .. Len(val.items) : parts[i] \in Predicate[2 * k] \cup {Malformed}
        <5> HIDE DEF parts
        <5> QED BY <3>3, <4>1, ElementOfSeq
      <4>3. \A i \in 1 .. Len(val.items) : parts[i] \in Predicates \cup {Malformed}
        BY <3>2, <4>2, PredicateParts
      <4>4. parts \in [1 .. Len(val.items) -> Predicates \cup {Malformed}]
        BY <3>3, <4>3
      <4> HIDE DEF parts
      <4> QED BY <3>3, <4>4, SeqDef
    <3> HIDE DEF all
    <3>8. all # Malformed /\ (Matches(Not(all), doc) <=> ~Matches(all, doc))
      BY <2>5, <3>1, <3>5, <3>6, NotMatches
    <3>9. /\ \A i \in DOMAIN val.items : ParseFieldOp(name, val.items[i]) # Malformed
          /\ Matches(all, doc) <=> \A i \in DOMAIN val.items : Matches(ParseFieldOp(name, val.items[i]), doc)
      <4>1. DOMAIN parts = DOMAIN val.items /\ \A i \in DOMAIN val.items : parts[i] = ParseFieldOp(name, val.items[i])
        OBVIOUS
      <4> HIDE DEF parts
      <4>2. /\ \A i \in DOMAIN parts : parts[i] # Malformed
            /\ Matches(all, doc) <=> \A i \in DOMAIN parts : Matches(parts[i], doc)
        BY <3>5, <3>7, <3>8, CollapseAndMatches DEF all
      <4> QED BY <4>1, <4>2
    <3>10. Matches(all, doc) <=> \A i \in DOMAIN val.items : doc \in SelectedByOp(docs, name, val.items[i])
      BY <2>4, <3>9
    <3>11. SelectedByOp(docs, name, x) = docs \ {d \in docs : \A i \in DOMAIN val.items : d \in OpSelection(docs, name)[val.items[i]]}
      BY <2>2, <2>5, SelectedByOpUnfolds, NotSelects
    <3>12. \A y : OpSelection(docs, name)[y] = SelectedByOp(docs, name, y)
      BY DEF SelectedByOp, OpSelection
    <3> QED BY <3>1, <3>8, <3>10, <3>11, <3>12
  <2>6. x.key = "$not" => Agree(x)
    BY <2>5
  <2> HIDE DEF Agree
  <2> QED BY <1>1, <2>2, <2>6
<1>5. n \in Good
  <2>1. n \in Nat
    BY <1>0
  <2> HIDE DEF Good
  <2> QED BY <1>3, <1>4, <2>1, Induction
<1>6. n <= Nesting
  BY <1>0
<1>7. Agree(item)
  <2> HIDE DEF Agree
  <2> QED BY <1>5, <1>6, Zenon
<1> QED BY <1>7

\* What a field's predicate matches is what all its operators select.
LEMMA FieldMatchesSelected ==
  ASSUME NEW docs, NEW doc \in docs, NEW f, NEW n \in 0 .. Nesting, NEW item \in ItemsOf(Value[n]),
         item.key \notin Operators, ParseField(item.key, item.val) # Malformed
  PROVE  Matches(ParseField(item.key, item.val), doc) <=> doc \in SelectedByItem(f, docs, item)
<1> DEFINE name == item.key
           val == item.val
<1>0. Nesting \in Nat
  BY QueriesAssumption
<1>1. name \in STRING /\ val \in Value[n] /\ val \in Values
  BY ValueIsValue DEF ItemsOf
<1>2. SelectedByItem(f, docs, item) =
        IF IsOperatorDoc(val)
          THEN {d \in docs : \A i \in DOMAIN val.items : d \in SelectedByOp(docs, name, val.items[i])}
          ELSE With(docs, name, LAMBDA a : Same(a, val))
  BY DEF SelectedByItem, Operators
<1>3. CASE ~IsOperatorDoc(val)
  <2> DEFINE p == Field(name, "$eq", val)
  <2>1. ParseField(name, val) = p
    BY <1>3 DEF ParseField
  <2>2. p \in Flat /\ p.kind = "field" /\ p.name = name /\ p.op = "$eq" /\ p.arg = val
    BY <1>1 DEF Field, Flat, Operators
  <2>3. p \in Predicates
    <3>1. 2 * Nesting \in 0 .. (2 * Nesting)
      BY <1>0
    <3> QED BY <2>2, <3>1, AlwaysTyped DEF Predicates
  <2>4. Matches(p, doc) = Holds(Matcher(doc), p, doc)
    BY <2>3, MatchesUnfolds
  <2> HIDE DEF p
  <2>5. Holds(Matcher(doc), p, doc) = FieldMatches(doc, name, "$eq", val)
    BY <2>2 DEF Holds
  <2>6. FieldMatches(doc, name, "$eq", val) <=> name \in DOMAIN doc /\ Same(doc[name], val)
    BY DEF FieldMatches
  <2>7. doc \in SelectedByItem(f, docs, item) <=> name \in DOMAIN doc /\ Same(doc[name], val)
    BY <1>2, <1>3 DEF With
  <2> QED BY <2>1, <2>4, <2>5, <2>6, <2>7
<1>4. CASE IsOperatorDoc(val)
  <2> DEFINE parts == [i \in DOMAIN val.items |-> ParseFieldOp(name, val.items[i])]
  <2>1. ParseField(name, val) = CollapseAnd(parts)
    BY <1>4 DEF ParseField
  <2>2. \A i \in DOMAIN val.items : n - 1 \in 0 .. Nesting /\ val.items[i] \in ItemsOf(Value[n - 1])
    BY <1>1, ValueParts
  <2>3. 2 * Nesting \in Nat /\ 2 * n \in 0 .. (2 * Nesting) /\ \A k \in 0 .. Nesting : 2 * k \in 0 .. (2 * Nesting)
    BY <1>0
  <2>4. \A i \in DOMAIN val.items : parts[i] \in Predicates \cup {Malformed}
    <3> SUFFICES ASSUME NEW i \in DOMAIN val.items PROVE parts[i] \in Predicates \cup {Malformed}
      OBVIOUS
    <3>1. parts[i] \in Predicate[2 * (n - 1)] \cup {Malformed}
      BY <1>1, <2>2, FieldOpTyped
    <3> HIDE DEF parts
    <3> QED BY <2>2, <2>3, <3>1, PredicateParts
  <2>5. parts \in Seq(Predicates \cup {Malformed}) /\ DOMAIN parts = DOMAIN val.items
    <3>1. DOMAIN parts = DOMAIN val.items /\ parts = [i \in DOMAIN parts |-> parts[i]]
      OBVIOUS
    <3> HIDE DEF parts, val
    <3> QED BY <1>1, <2>4, <3>1, ItemsSeq
  <2>6. CollapseAnd(parts) # Malformed /\ CollapseAnd(parts) \in Predicates
    <3>1. ParseField(name, val) \in Predicate[2 * n]
      BY <1>1, FieldTyped
    <3> HIDE DEF parts
    <3> QED BY <2>1, <2>3, <3>1, PredicateParts
  <2>7. /\ \A i \in DOMAIN val.items : ParseFieldOp(name, val.items[i]) # Malformed
        /\ Matches(CollapseAnd(parts), doc) <=> \A i \in DOMAIN val.items : Matches(ParseFieldOp(name, val.items[i]), doc)
    <3>1. \A i \in DOMAIN val.items : parts[i] = ParseFieldOp(name, val.items[i])
      OBVIOUS
    <3> HIDE DEF parts
    <3>2. /\ \A i \in DOMAIN parts : parts[i] # Malformed
          /\ Matches(CollapseAnd(parts), doc) <=> \A i \in DOMAIN parts : Matches(parts[i], doc)
      BY <2>5, <2>6, CollapseAndMatches
    <3> QED BY <2>5, <3>1, <3>2
  <2>8. \A i \in DOMAIN val.items :
          Matches(ParseFieldOp(name, val.items[i]), doc) <=> doc \in SelectedByOp(docs, name, val.items[i])
    BY <1>1, <2>2, <2>7, FieldOpMatches
  <2>9. doc \in SelectedByItem(f, docs, item) <=> \A i \in DOMAIN val.items : doc \in SelectedByOp(docs, name, val.items[i])
    BY <1>2, <1>4
  <2> HIDE DEF parts
  <2> QED BY <2>1, <2>7, <2>8, <2>9
<1> QED BY <1>3, <1>4

\* What an item of a query matches is what it selects, if that holds of the
\* documents inside it.
LEMMA ItemMatches ==
  ASSUME NEW docs, NEW doc \in docs, NEW n \in 0 .. Nesting, n + 1 <= Nesting, NEW item \in ItemsOf(Value[n]),
         \A x \in Value[n] : Parser[x] # Malformed =>
           (Matches(Parser[x], doc) <=> doc \in Selection(docs)[x]),
         \A j \in DOMAIN item.val.items : item.val.items[j].val \in Value[n],
         ParseItem(Parser, item) # Malformed, ParseItem(Parser, item) \in Predicates
  PROVE  Matches(ParseItem(Parser, item), doc) <=> doc \in SelectedByItem(Selection(docs), docs, item)
<1> DEFINE val == item.val
           each == [i \in DOMAIN val.items |-> Parser[val.items[i].val]]
           selected == SelectedByItem(Selection(docs), docs, item)
<1>0. Nesting \in Nat /\ 2 * n \in 0 .. (2 * Nesting)
  BY QueriesAssumption
<1>1. val \in Value[n] /\ val \in Values
  BY ValueIsValue DEF ItemsOf
<1>2. \A x \in Value[n] : Parser[x] \in Predicates \cup {Malformed}
  <2> SUFFICES ASSUME NEW x \in Value[n] PROVE Parser[x] \in Predicates \cup {Malformed}
    OBVIOUS
  <2>1. Parser[x] \in Predicate[2 * n] \cup {Malformed}
    BY ParserTyped
  <2> QED BY <1>0, <2>1, PredicateParts
<1>3. /\ each \in Seq(Predicates \cup {Malformed}) /\ DOMAIN each = DOMAIN val.items
      /\ \A i \in DOMAIN val.items : each[i] = Parser[val.items[i].val]
  <2>1. DOMAIN each = DOMAIN val.items /\ each = [i \in DOMAIN each |-> each[i]]
    OBVIOUS
  <2>2. \A i \in DOMAIN val.items : each[i] = Parser[val.items[i].val]
    OBVIOUS
  <2>3. \A i \in DOMAIN val.items : each[i] \in Predicates \cup {Malformed}
    BY <1>2, <2>2
  <2> HIDE DEF each, val
  <2> QED BY <1>1, <2>1, <2>2, <2>3, ItemsSeq
<1>4. \A i \in DOMAIN val.items : each[i] # Malformed =>
        (Matches(each[i], doc) <=> doc \in Selection(docs)[val.items[i].val])
  BY <1>3
<1> HIDE DEF each
<1>5. CASE item.key = "$and" /\ ParseItem(Parser, item) = CollapseAnd(each)
  <2>1. /\ \A i \in DOMAIN each : each[i] # Malformed
        /\ Matches(CollapseAnd(each), doc) <=> \A i \in DOMAIN each : Matches(each[i], doc)
    BY <1>3, <1>5, CollapseAndMatches
  <2>2. selected = {d \in docs : \A i \in DOMAIN val.items : d \in Selection(docs)[val.items[i].val]}
    BY <1>5 DEF SelectedByItem
  <2>3. doc \in selected <=> \A i \in DOMAIN val.items : doc \in Selection(docs)[val.items[i].val]
    BY <2>2
  <2> HIDE DEF selected
  <2>4. Matches(CollapseAnd(each), doc) <=> doc \in selected
    BY <1>3, <1>4, <2>1, <2>3
  <2> QED BY <1>5, <2>4 DEF selected
<1>6. CASE item.key = "$or" /\ ParseItem(Parser, item) = Or(each)
  <2>1. /\ \A i \in DOMAIN each : each[i] # Malformed
        /\ Matches(Or(each), doc) <=> \E i \in DOMAIN each : Matches(each[i], doc)
    BY <1>3, <1>6, OrMatches
  <2>2. selected = UNION {Selection(docs)[val.items[i].val] : i \in DOMAIN val.items}
    BY <1>6 DEF SelectedByItem
  <2>3. doc \in selected <=> \E i \in DOMAIN val.items : doc \in Selection(docs)[val.items[i].val]
    BY <2>2
  <2> HIDE DEF selected
  <2>4. Matches(Or(each), doc) <=> doc \in selected
    BY <1>3, <1>4, <2>1, <2>3
  <2> QED BY <1>6, <2>4 DEF selected
<1>7. CASE item.key = "$not" /\ ParseItem(Parser, item) = Not(Parser[val])
  <2>1. Parser[val] # Malformed /\ (Matches(Not(Parser[val]), doc) <=> ~Matches(Parser[val], doc))
    BY <1>1, <1>2, <1>7, NotMatches
  <2>2. selected = docs \ Selection(docs)[val]
    BY <1>7 DEF SelectedByItem
  <2>3. Matches(Parser[val], doc) <=> doc \in Selection(docs)[val]
    BY <1>1, <2>1
  <2> QED BY <1>7, <2>1, <2>2, <2>3
<1>8. CASE item.key \notin Operators /\ ParseItem(Parser, item) = ParseField(item.key, val)
  BY <1>8, FieldMatchesSelected
<1>9. \/ item.key = "$and" /\ ParseItem(Parser, item) = CollapseAnd(each)
      \/ item.key = "$or" /\ ParseItem(Parser, item) = Or(each)
      \/ item.key = "$not" /\ ParseItem(Parser, item) = Not(Parser[val])
      \/ item.key \notin Operators /\ ParseItem(Parser, item) = ParseField(item.key, val)
  BY ParseItemCases DEF each
<1> QED BY <1>5, <1>6, <1>7, <1>8, <1>9

LEMMA QueryMatches ==
  ASSUME NEW docs, NEW doc \in docs, NEW n \in 0 .. Nesting, NEW x \in Value[n], Parser[x] # Malformed
  PROVE  Matches(Parser[x], doc) <=> doc \in Selection(docs)[x]
<1> DEFINE Agree(y) == Parser[y] # Malformed => (Matches(Parser[y], doc) <=> doc \in Selection(docs)[y])
           Good == {k \in Nat : k <= Nesting => \A y \in Value[k] : Agree(y)}
<1>0. Nesting \in Nat
  BY QueriesAssumption
<1>1. ASSUME NEW k \in 0 .. Nesting, NEW y \in Value[k], Parser[y] # Malformed,
             \A i \in DOMAIN y.items :
               ParseItem(Parser, y.items[i]) # Malformed /\ ParseItem(Parser, y.items[i]) \in Predicates =>
                 (Matches(ParseItem(Parser, y.items[i]), doc) <=> doc \in SelectedByItem(Selection(docs), docs, y.items[i])),
             \A i \in DOMAIN y.items : ParseItem(Parser, y.items[i]) \in Predicates \cup {Malformed}
      PROVE  Matches(Parser[y], doc) <=> doc \in Selection(docs)[y]
  <2> DEFINE parts == ParseItems(Parser, y)
  <2>1. y \in Values /\ 2 * k \in 0 .. (2 * Nesting)
    BY <1>0, ValueIsValue
  <2>2. Parser[y] = CollapseAnd(parts)
    BY <2>1, ParserUnfolds
  <2>3. DOMAIN parts = DOMAIN y.items /\ parts = [i \in DOMAIN parts |-> parts[i]]
    BY DEF ParseItems
  <2>4. \A i \in DOMAIN y.items : parts[i] = ParseItem(Parser, y.items[i])
    BY DEF ParseItems
  <2> HIDE DEF parts
  <2>5. parts \in Seq(Predicates \cup {Malformed})
    BY <1>1, <2>3, <2>4, ItemsSeq
  <2>6. CollapseAnd(parts) \in Predicates
    <3>1. Parser[y] \in Predicate[2 * k]
      BY <1>1, ParserTyped
    <3> QED BY <2>1, <2>2, <3>1, PredicateParts
  <2>7. /\ \A i \in DOMAIN parts : parts[i] # Malformed
        /\ Matches(CollapseAnd(parts), doc) <=> \A i \in DOMAIN parts : Matches(parts[i], doc)
    BY <1>1, <2>2, <2>5, <2>6, CollapseAndMatches
  <2>8. \A i \in DOMAIN y.items : Matches(parts[i], doc) <=> doc \in SelectedByItem(Selection(docs), docs, y.items[i])
    BY <1>1, <2>3, <2>4, <2>7
  <2>9. Selection(docs)[y] = AllSelect(Selection(docs), docs, y)
    BY <2>1, SelectionUnfolds
  <2>10. doc \in Selection(docs)[y] <=> \A i \in DOMAIN y.items : doc \in SelectedByItem(Selection(docs), docs, y.items[i])
    BY <2>9 DEF AllSelect
  <2> QED BY <2>2, <2>3, <2>7, <2>8, <2>10
<1>2. 0 \in Good
  <2> SUFFICES ASSUME NEW y \in Value[0] PROVE Agree(y)
    BY Zenon
  <2>1. 0 \in 0 .. Nesting
    BY <1>0
  <2>2. DOMAIN y.items = {}
    BY <2>1, ValueParts
  <2> QED BY <1>1, <2>1, <2>2
<1>3. ASSUME NEW k \in Nat, k \in Good PROVE k + 1 \in Good
  <2>0. k + 1 \in Nat
    OBVIOUS
  <2> SUFFICES ASSUME k + 1 <= Nesting, NEW y \in Value[k + 1] PROVE Agree(y)
    BY <2>0, Zenon
  <2>1. k \in 0 .. Nesting /\ k + 1 \in 0 .. Nesting /\ (k + 1) - 1 = k /\ k <= Nesting
    BY <1>0
  <2>2. \A z \in Value[k] : Agree(z)
    BY <1>3, <2>1
  <2>3. \A i \in DOMAIN y.items :
          /\ y.items[i] \in ItemsOf(Value[k])
          /\ \A j \in DOMAIN y.items[i].val.items : y.items[i].val.items[j].val \in Value[k]
    BY <2>1, ValueParts, ValueInner
  <2>4. \A i \in DOMAIN y.items :
          ParseItem(Parser, y.items[i]) # Malformed /\ ParseItem(Parser, y.items[i]) \in Predicates =>
            (Matches(ParseItem(Parser, y.items[i]), doc) <=> doc \in SelectedByItem(Selection(docs), docs, y.items[i]))
    BY <2>1, <2>2, <2>3, ItemMatches
  <2>5. \A i \in DOMAIN y.items : ParseItem(Parser, y.items[i]) \in Predicates \cup {Malformed}
    BY <2>1, <2>3, ParseItemTyped
  <2> QED BY <1>1, <2>1, <2>4, <2>5
<1>4. n \in Good
  <2>1. n \in Nat
    BY <1>0
  <2> HIDE DEF Good
  <2> QED BY <1>2, <1>3, <2>1, Induction
<1>5. n <= Nesting
  BY <1>0
<1>6. Agree(x)
  <2> HIDE DEF Agree
  <2> QED BY <1>4, <1>5, Zenon
<1> QED BY <1>6

\* A parsed query matches what its operators mean, for any documents.
LEMMA MatchesSelected ==
  ASSUME NEW docs, NEW query, Document(query) \in Values, ParseQuery(query) # Malformed
  PROVE  {d \in docs : Matches(ParseQuery(query), d)} = Selected(docs, query)
<1>1. Nesting \in 0 .. Nesting
  BY QueriesAssumption
<1>2. ParseQuery(query) = Parser[Document(query)]
  BY DEF ParseQuery, Parser, ParseItems
<1>3. Selected(docs, query) = Selection(docs)[Document(query)]
  BY DEF Selected, Selection, AllSelect
<1>4. ASSUME NEW d \in docs
      PROVE  Matches(ParseQuery(query), d) <=> d \in Selected(docs, query)
  BY <1>1, <1>2, <1>3, QueryMatches DEF Values
<1>5. Selected(docs, query) \subseteq docs
  BY SelectedUnfolds DEF AllSelect
<1> QED BY <1>4, <1>5

\* Whatever the collection holds, a query that parses matches the documents its
\* operators select: the negative ones are complements, nothing of a query is
\* dropped when its predicates are collapsed.
THEOREM Selects == Spec => []MatchesIsSelection
<1>1. MatchesIsSelection
  BY MatchesSelected, QueriesAssumption DEF MatchesIsSelection
<1> QED BY <1>1, PTL

=============================================================================
