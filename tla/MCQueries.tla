----------------------------- MODULE MCQueries -----------------------------
(* TLC instance of Queries: ids of every type that can be a key, and one that
   cannot; values that are equal, ordered or neither across types; documents
   with and without the field.                                               *)
EXTENDS Queries, TLC

I(n) == Bson("int32", n)
L(n) == Bson("int64", n)
D(n) == Bson("double", n)
S(n) == Bson("string", n)
True == Bson("bool", 1)
False == Bson("bool", 0)
NaN == Bson("nan", 0)
Null == Bson("null", 0)
Date(n) == Bson("date", n)

Ids == {I(1), I(2), L(1), D(1), S(1), Bson("binary0", 1), Bson("binary4", 1)}

McInserts ==
  {"_id" :> I(1), "_id" :> I(1) @@ "a" :> L(2),
   "_id" :> I(2) @@ "a" :> I(1), "_id" :> I(2) @@ "a" :> NaN,
   "_id" :> L(1) @@ "a" :> D(1), "_id" :> L(1) @@ "a" :> Array(<<I(1)>>),
   "_id" :> S(1) @@ "a" :> S(1), "_id" :> S(1) @@ "a" :> Date(1),
   "_id" :> Bson("binary0", 1) @@ "a" :> Null, "_id" :> Bson("binary4", 1) @@ "a" :> True,
   "_id" :> D(1), "a" :> I(2), "a" :> Array(<<I(1), NaN>>)}

McOtherNames == {"$mod", "$regex"}

McFreshIds == {Bson("objectId", 1)}

One(key, val) == <<Item(key, val)>>
Op(op, val) == Document(One(op, val))

Args == {I(1), I(2), D(1), S(1), NaN, Null, Date(1), Array(<<I(1), NaN>>)}

Simple ==
  {<<>>} \cup {One("_id", id) : id \in Ids} \cup
  {One("a", Op(op, val)) : op \in {"$eq", "$ne", "$gt", "$gte", "$lt", "$lte"}, val \in Args} \cup
  {One("a", Op(op, Array(<<I(1), Null>>))) : op \in {"$in", "$nin"}} \cup
  {One("a", Op("$exists", val)) : val \in {True, False}}

Combined ==
  {<<Item("_id", I(1)), Item("a", L(2))>>,
   <<Item("_id", Op("$eq", I(2))), Item("a", Op("$gt", I(0)))>>,
   <<Item("_id", L(1)), Item("$or", Array(<<Document(One("a", D(1))), Document(One("_id", I(1)))>>))>>,
   One("_id", Document(<<Item("$eq", I(1)), Item("$ne", I(2))>>)),
   One("$and", Array(<<Document(One("_id", I(1))), Document(One("_id", L(1)))>>)),
   One("$and", Array(<<Document(One("_id", S(1))), Document(One("a", S(1)))>>)),
   One("$and", Array(<<Document(<<Item("_id", I(1)), Item("a", I(1))>>)>>)),
   One("$or", Array(<<Document(One("_id", I(1))), Document(One("a", I(1)))>>)),
   One("$or", Array(<<Document(<<>>)>>)),
   One("$not", Document(One("_id", I(1)))),
   One("$not", Document(<<Item("a", I(1)), Item("_id", I(2))>>)),
   One("a", Op("$not", Document(<<Item("$gte", I(1)), Item("$lt", I(2))>>))),
   One("a", Op("$not", Op("$not", Op("$in", Array(<<L(2)>>))))),
   One("a", Document(<<Item("$gt", I(0)), Item("b", I(1))>>)),
   <<Item("a", Op("$gte", I(1))), Item("a", Op("$lte", I(1)))>>}

Bad ==
  {One("$mod", I(1)), One("a", Op("$mod", I(1))), One("a", Op("$regex", S(1))), One("$and", Array(<<>>)), One("$or", I(1)),
   One("a", Op("$in", I(1))), One("a", Op("$exists", I(1))), One("a", Op("$not", I(1))),
   One("$not", Document(One("$or", Array(<<I(1)>>)))),
   <<Item("_id", I(1)), Item("a", Op("$not", Op("$mod", I(1))))>>}

McFilters == Simple \cup Combined \cup Bad

McSkips == -1 .. 1
McLimits == {NoLimit, -1, 0, 1}
=============================================================================
