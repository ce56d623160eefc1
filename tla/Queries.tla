------------------------------ MODULE Queries ------------------------------
(* Queries of mona-db: predicate.rs (parsing and matching), filter.rs (the
   point reads that replace a scan), storage/id.rs (keys of documents), and the
   answer of a find that is a point read.

   A BSON value has a type, a number that stands for a scalar's content (in
   the order of its type), and the items of a document or an array.  A query is
   the items of a document; a stored document a function from names to values.
   Values nest, and with them predicates: what recurses over them is a function
   on all values up to some nesting.

   Inserts and deletes only bring the collection into its states: what they do
   in steps is in module Documents.                                          *)
EXTENDS ScanBatch, Sequences

CONSTANTS
  Contents,     \* how many contents of a type are told apart
  Nesting,      \* how deep values nest
  Inserts,      \* documents that are inserted, some without _id
  FreshIds,     \* what ObjectId::new may return
  Filters,      \* queries
  OtherNames,   \* names that begin with $ and are no operator of this code
  Skips, Limits,
  Failed        \* the command ends in an error

Bson(t, v) == [t |-> t, v |-> v, items |-> <<>>]
Item(key, val) == [key |-> key, val |-> val]
Document(items) == [t |-> "document", v |-> 0, items |-> items]
Array(vals) == [t |-> "array", v |-> 0, items |-> [i \in DOMAIN vals |-> Item("", vals[i])]]
Undefined == Bson("undefined", 0)

Nested == {"document", "array"}
Scalars == [t : STRING \ Nested, v : 0 .. (Contents - 1), items : {<<>>}]
ItemsOf(values) == [key : STRING, val : values]

Value[n \in 0 .. Nesting] ==
  IF n = 0 THEN Scalars
  ELSE Scalars \cup [t : Nested, v : {0}, items : Seq(ItemsOf(Value[n - 1]))]
Values == Value[Nesting]
Items == ItemsOf(Values)

ASSUME QueriesAssumption ==
  /\ Failed \notin Int /\ Skips \subseteq Int /\ Limits \subseteq Int \cup {NoLimit}
  /\ Contents \in Nat /\ Nesting \in Nat /\ OtherNames \subseteq STRING
  /\ \A id \in FreshIds : id.t = "objectId" /\ id \in Values
  /\ \A query \in Filters : Document(query) \in Values
  /\ \A doc \in Inserts : DOMAIN doc \subseteq STRING /\ \A name \in DOMAIN doc : doc[name] \in Values

VARIABLE store  \* the collection: [Keys -> documents, or Absent]

-----------------------------------------------------------------------------
(* encode_id: a tag for the type, and the content.  Numbers are keyed in
   little-endian order, which no property is about.                          *)
Tag == [string |-> 2, binary0 |-> 5, binary4 |-> 5, objectId |-> 7, bool |-> 8, int32 |-> 16, int64 |-> 18]

\* a binary's subtype is not part of its key
EncodeId(id) == IF id.t \in DOMAIN Tag THEN Tag[id.t] * Contents + id.v ELSE Failed

\* broken: the id is returned, the document stays without
EnsureIdReturned(doc, fresh) ==
  [id |-> IF "_id" \in DOMAIN doc THEN doc["_id"] ELSE fresh, doc |-> doc]

EnsureId(doc, fresh) ==
  LET id == IF "_id" \in DOMAIN doc THEN doc["_id"] ELSE fresh
  IN  [id |-> id, doc |-> [n \in DOMAIN doc \cup {"_id"} |-> IF n = "_id" THEN id ELSE doc[n]]]

\* the documents a collection may hold
Stored == {EnsureId(doc, fresh).doc : doc \in Inserts, fresh \in FreshIds}

\* what a read by id gives is told from the error
ASSUME FailedAssumption == Failed # {} /\ \A doc \in Stored : Failed # {doc}

-----------------------------------------------------------------------------
(* Predicate::parse                                                          *)
\* the names that begin with $
Operators == {"$and", "$or", "$not", "$eq", "$ne", "$gt", "$gte", "$lt", "$lte", "$in", "$nin",
              "$exists"} \cup OtherNames

Malformed == [kind |-> "malformed"]
Always == [kind |-> "always"]
Field(name, op, arg) == [kind |-> "field", name |-> name, op |-> op, arg |-> arg]

AnyMalformed(parts) == \E i \in DOMAIN parts : parts[i] = Malformed

CollapseAnd(parts) ==
  CASE AnyMalformed(parts) -> Malformed
    [] Len(parts) = 0 -> Always
    [] Len(parts) = 1 -> parts[1]
    [] OTHER -> [kind |-> "and", parts |-> parts]

Or(parts) == IF AnyMalformed(parts) THEN Malformed ELSE [kind |-> "or", parts |-> parts]

Not(p) == IF p = Malformed THEN Malformed ELSE [kind |-> "not", inner |-> p]

IsOperatorDoc(val) ==
  val.t = "document" /\ val.items # <<>> /\ \A i \in DOMAIN val.items : val.items[i].key \in Operators

\* parse_field_op of an operator and its operand; `parse` is its recursion
ParseOperator(parse, name, item) ==
  LET op == item.key
      val == item.val
  IN  CASE op \in {"$eq", "$ne", "$gt", "$gte", "$lt", "$lte"} -> Field(name, op, val)
        [] op \in {"$in", "$nin"} /\ val.t = "array" -> Field(name, op, val)
        [] op = "$exists" /\ val.t = "bool" -> Field(name, op, val)
        [] op = "$not" /\ IsOperatorDoc(val) ->
             Not(CollapseAnd([i \in DOMAIN val.items |-> parse[val.items[i]]]))
        [] OTHER -> Malformed

ParseFieldOp(name, item) ==
  LET parse[x \in Items] == ParseOperator(parse, name, x) IN parse[item]

\* a document with operators and other names is taken for a value
ParseField(name, val) ==
  IF IsOperatorDoc(val)
    THEN CollapseAnd([i \in DOMAIN val.items |-> ParseFieldOp(name, val.items[i])])
    ELSE Field(name, "$eq", val)

\* `parse` is the recursion of parse_query
ParseLogicalArray(parse, val) ==
  IF val.t # "array" \/ val.items = <<>> \/ \E i \in DOMAIN val.items : val.items[i].val.t # "document"
    THEN <<Malformed>>
    ELSE [i \in DOMAIN val.items |-> parse[val.items[i].val]]

ParseItem(parse, item) ==
  CASE item.key = "$and" -> CollapseAnd(ParseLogicalArray(parse, item.val))
    [] item.key = "$or" -> Or(ParseLogicalArray(parse, item.val))
    [] item.key = "$not" /\ item.val.t = "document" -> Not(parse[item.val])
    [] item.key \notin Operators -> ParseField(item.key, item.val)
    [] OTHER -> Malformed

ParseQuery(query) ==
  LET parse[doc \in Values] == CollapseAnd([i \in DOMAIN doc.items |-> ParseItem(parse, doc.items[i])])
  IN  parse[Document(query)]

-----------------------------------------------------------------------------
(* Predicate::matches                                                        *)
\* `same` is the recursion of Bson's equality: NaN differs from itself, wherever
\* it stands, and the order of a document's fields makes no difference
SameValue(same, a, b) ==
  /\ a.t = b.t
  /\ IF a.t \notin Nested THEN a = b /\ a.t # "nan"
     ELSE /\ Len(a.items) = Len(b.items)
          /\ \A i \in DOMAIN a.items :
               \E j \in IF a.t = "document" THEN DOMAIN b.items ELSE {i} :
                 a.items[i].key = b.items[j].key /\ same[<<a.items[i].val, b.items[j].val>>]

Same(a, b) ==
  LET same[x \in Values \X Values] == SameValue(same, x[1], x[2]) IN SameValue(same, a, b)

Numbers == {"int32", "int64", "double"}

\* the pairs of types cmp_bson orders
Ordered(a, b) ==
  {a.t, b.t} \subseteq Numbers \/ (a.t = b.t /\ a.t \in {"string", "bool", "objectId"})

Greater(a, b) == Ordered(a, b) /\ a.v > b.v

\* cmp_bson gives Equal; to numbers a and b the first line applies alone
Level(a, b) == IF Ordered(a, b) THEN a.v = b.v ELSE Same(a, b)

Among(a, list) == \E i \in DOMAIN list.items : Same(a, list.items[i].val)

\* broken: $nin wants the field to be there
NinMatchesPresent(has, actual, list) == has /\ ~Among(actual, list)

NinMatches(has, actual, list) == has => ~Among(actual, list)

FieldMatches(doc, name, op, arg) ==
  LET has == name \in DOMAIN doc
      actual == IF has THEN doc[name] ELSE Undefined
  IN  CASE op = "$exists" -> has <=> arg.v = 1
        [] op = "$eq" -> has /\ Same(actual, arg)
        [] op = "$ne" -> has => ~Same(actual, arg)
        [] op = "$in" -> has /\ Among(actual, arg)
        [] op = "$nin" -> NinMatches(has, actual, arg)
        [] op = "$gt" -> has /\ Greater(actual, arg)
        [] op = "$gte" -> has /\ (Greater(actual, arg) \/ Level(actual, arg))
        [] op = "$lt" -> has /\ Greater(arg, actual)
        [] op = "$lte" -> has /\ (Greater(arg, actual) \/ Level(actual, arg))

\* what is parsed: a value's nesting shows twice, in $not and in what it negates
Flat == {Always} \cup [kind : {"field"}, name : STRING, op : Operators, arg : Values]

Predicate[n \in 0 .. (2 * Nesting)] ==
  IF n = 0 THEN Flat
  ELSE Flat \cup [kind : {"and", "or"}, parts : Seq(Predicate[n - 1])]
            \cup [kind : {"not"}, inner : Predicate[n - 1]]
Predicates == Predicate[2 * Nesting]

\* `holds` is the recursion of Predicate::matches
Holds(holds, p, doc) ==
  CASE p.kind = "always" -> TRUE
    [] p.kind = "and" -> \A i \in DOMAIN p.parts : holds[p.parts[i]]
    [] p.kind = "or" -> \E i \in DOMAIN p.parts : holds[p.parts[i]]
    [] p.kind = "not" -> ~holds[p.inner]
    [] p.kind = "field" -> FieldMatches(doc, p.name, p.op, p.arg)

Matches(p, doc) ==
  LET holds[q \in Predicates] == Holds(holds, q, doc) IN holds[p]

-----------------------------------------------------------------------------
(* Point reads.                                                              *)
AsIdEq(p) == p.kind = "field" /\ p.name = "_id" /\ p.op = "$eq"

\* broken: an alternative of $or is taken for a conjunct
ExtractIdEqOfOr(p) ==
  LET ids == {i \in DOMAIN p.parts : AsIdEq(p.parts[i])}
  IN  CASE AsIdEq(p) -> {p.arg}
        [] p.kind \in {"and", "or"} -> IF Cardinality(ids) = 1 THEN {p.parts[i].arg : i \in ids} ELSE {}
        [] OTHER -> {}

\* extract_id_eq: the only conjunct on _id, or nothing
ExtractIdEq(p) ==
  LET ids == {i \in DOMAIN p.parts : AsIdEq(p.parts[i])}
  IN  CASE AsIdEq(p) -> {p.arg}
        [] p.kind = "and" -> IF Cardinality(ids) = 1 THEN {p.parts[i].arg : i \in ids} ELSE {}
        [] OTHER -> {}

IsPointRead(p) == ExtractIdEq(p) # {}
PointId(p) == CHOOSE id \in ExtractIdEq(p) : TRUE

Get(id) ==
  LET key == EncodeId(id)
  IN  IF key = Failed THEN Failed
      ELSE IF key \in Present(store) THEN {store[key]} ELSE {}

\* broken: what is found under the key is not looked at again
PointReadUnchecked(p) == Get(PointId(p))

\* what ById finds under its key is not compared with the id
PointRead(p) ==
  LET found == Get(PointId(p))
  IN  IF found = Failed \/ AsIdEq(p) THEN found ELSE {doc \in found : Matches(p, doc)}

ScanFor(p, one) ==
  LET hits == {k \in Present(store) : Matches(p, store[k])}
  IN  {store[k] : k \in IF one /\ hits # {} THEN {Min(hits)} ELSE hits}

\* QueryFilter::collect, up to the first document or all of them
Collect(p, one) == IF IsPointRead(p) THEN PointRead(p) ELSE ScanFor(p, one)

\* FindCmd::execute on a point read; skip is not looked at
PointFind(p, limit) ==
  IF PointRead(p) = Failed THEN Failed
  ELSE IF (IF limit = NoLimit THEN FALSE ELSE limit <= 0) THEN {} ELSE PointRead(p)

-----------------------------------------------------------------------------
Keys == {EncodeId(doc["_id"]) : doc \in {d \in Inserts : "_id" \in DOMAIN d}} \cup
        {EncodeId(id) : id \in FreshIds}

Init == store = [k \in Keys \ {Failed} |-> Absent]

\* put overwrites; a document whose _id cannot be a key fails the command
Insert(doc, fresh) ==
  LET put == EnsureId(doc, fresh)
      key == EncodeId(put.id)
  IN  /\ "_id" \notin DOMAIN doc => store[EncodeId(fresh)] = Absent
      /\ IF key = Failed THEN UNCHANGED store ELSE store' = [store EXCEPT ![key] = put.doc]

Delete(filter, one) ==
  LET p == ParseQuery(filter)
  IN  /\ p # Malformed /\ Collect(p, one) # Failed
      /\ LET keys == {EncodeId(doc["_id"]) : doc \in Collect(p, one)}
         IN  store' = [k \in DOMAIN store |-> IF k \in keys THEN Absent ELSE store[k]]

Next ==
  \/ \E doc \in Inserts, fresh \in FreshIds : Insert(doc, fresh)
  \/ \E filter \in Filters, one \in BOOLEAN : Delete(filter, one)

Spec == Init /\ [][Next]_store

-----------------------------------------------------------------------------
(* What a query selects from a set of documents, in terms of sets: only $eq,
   $gt and $exists speak of values, all else is intersection, union and
   complement.                                                               *)
With(docs, name, Test(_)) == {d \in docs : name \in DOMAIN d /\ Test(d[name])}

\* by an operator and its operand; `selected` is the recursion
SelectedByOperator(selected, docs, name, item) ==
  LET op == item.key
      val == item.val
      equal(v) == With(docs, name, LAMBDA a : Same(a, v))
      level(v) == With(docs, name, LAMBDA a : Level(a, v))
      listed == UNION {equal(val.items[i].val) : i \in DOMAIN val.items}
      above == With(docs, name, LAMBDA a : Greater(a, val))
      below == With(docs, name, LAMBDA a : Greater(val, a))
  IN  CASE op = "$eq" -> equal(val)
        [] op = "$ne" -> docs \ equal(val)
        [] op = "$in" -> listed
        [] op = "$nin" -> docs \ listed
        [] op = "$gt" -> above
        [] op = "$gte" -> above \cup level(val)
        [] op = "$lt" -> below
        [] op = "$lte" -> below \cup level(val)
        [] op = "$exists" -> {d \in docs : (name \in DOMAIN d) = (val.v = 1)}
        [] op = "$not" -> docs \ {d \in docs : \A i \in DOMAIN val.items : d \in selected[val.items[i]]}

SelectedByOp(docs, name, item) ==
  LET selected[x \in Items] == SelectedByOperator(selected, docs, name, x) IN selected[item]

SelectedByItem(selected, docs, item) ==
  LET val == item.val
  IN  CASE item.key = "$and" ->
             {d \in docs : \A i \in DOMAIN val.items : d \in selected[val.items[i].val]}
        [] item.key = "$or" -> UNION {selected[val.items[i].val] : i \in DOMAIN val.items}
        [] item.key = "$not" -> docs \ selected[val]
        [] OTHER ->
             IF IsOperatorDoc(val)
               THEN {d \in docs : \A i \in DOMAIN val.items : d \in SelectedByOp(docs, item.key, val.items[i])}
               ELSE With(docs, item.key, LAMBDA a : Same(a, val))

Selected(docs, query) ==
  LET selected[doc \in Values] ==
        {d \in docs : \A i \in DOMAIN doc.items : d \in SelectedByItem(selected, docs, doc.items[i])}
  IN  selected[Document(query)]

-----------------------------------------------------------------------------
(* Properties.                                                               *)
WellFormed == {p \in {ParseQuery(q) : q \in Filters} : p # Malformed}

\* what stands under a key is a document whose _id has that key
TypeOK ==
  \A k \in Present(store) : "_id" \in DOMAIN store[k] /\ EncodeId(store[k]["_id"]) = k

\* A parsed query matches what its operators mean, whatever they are nested in
\* and whatever a document lacks: the negative ones are complements, nothing of
\* a query is dropped when its predicates are collapsed.
MatchesIsSelection ==
  LET docs == {store[k] : k \in Present(store)}
  IN  \A q \in Filters : ParseQuery(q) # Malformed =>
        {d \in docs : Matches(ParseQuery(q), d)} = Selected(docs, q)

\* What a point read may do otherwise than the scan it replaces: end in an error
\* for an id that cannot be a key, or return a binary id of another subtype.
Excepted(p) == EncodeId(PointId(p)) = Failed \/ (AsIdEq(p) /\ PointId(p).t \in {"binary0", "binary4"})

\* An update or delete finds by a point read exactly the documents the scan
\* would have found: Int32, Int64 and string ids are told apart, and other
\* conjuncts, a second _id among them, are not forgotten.
PointReadsLikeScans ==
  \A p \in WellFormed : IsPointRead(p) /\ ~Excepted(p) =>
    \A one \in BOOLEAN : Collect(p, one) = ScanFor(p, one)

\* A find by a point read gives the answer that the pages of a scan would give,
\* as long as it does not skip and its limit is not negative.
PointFindsAnswer ==
  \A p \in WellFormed : IsPointRead(p) /\ ~Excepted(p) =>
    \A skip \in Skips, limit \in Limits :
      (skip <= 0 /\ (IF limit = NoLimit THEN TRUE ELSE limit >= 0)) =>
        LET docs == {store[k] : k \in Present(store)}
            hits == {d \in docs : Matches(p, d)}
        IN  PointFind(p, limit) = {store[k] : k \in Answer(store, hits, skip, limit)}
=============================================================================
