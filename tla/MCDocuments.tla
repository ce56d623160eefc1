---------------------------- MODULE MCDocuments ----------------------------
(* TLC instances of Documents.  Clients are interchangeable.  The commands
   have every shape of query, and fail at every place they can.             *)
EXTENDS Documents, TLC

CONSTANTS a, b, x, y

Symmetry == Permutations(Clients)

Empty == [f \in {} |-> x]
Q(id, where) == [id |-> id, where |-> where]

Ins(id, doc) == [id |-> id, doc |-> doc, bad |-> FALSE]
Up(q, set) ==
  [q |-> q, set |-> set, setId |-> NoId, upsert |-> FALSE, multi |-> FALSE, bad |-> FALSE]
Del(q, limit) == [q |-> q, limit |-> limit, bad |-> FALSE]
Bad(op) == [op EXCEPT !.bad = TRUE]

Inserts == {<<Ins(1, a :> x @@ b :> x), Ins(2, a :> y)>>,
            <<Ins(2, a :> x), Bad(Ins(1, Empty)), Ins(1, Empty)>>}

Updates == {
  <<Up(Q(1, Empty), a :> y)>>,
  <<Up(Q(1, a :> x), b :> y)>>,
  <<Up(Q(NoId, a :> x), a :> y), Up(Q(NoId, a :> x), b :> x)>>,
  <<[Up(Q(NoId, Empty), b :> y) EXCEPT !.multi = TRUE], Bad(Up(Q(1, Empty), a :> x))>>,
  <<[Up(Q(NoId, Empty), a :> y) EXCEPT !.multi = TRUE, !.setId = 1]>>,
  <<[Up(Q(2, Empty), b :> y) EXCEPT !.upsert = TRUE]>>,
  <<[Up(Q(2, Empty), b :> x) EXCEPT !.upsert = TRUE, !.setId = 1]>>,
  <<[Up(Q(NoId, b :> y), a :> x) EXCEPT !.upsert = TRUE]>>}

Deletes == {
  <<Del(Q(1, Empty), 1), Del(Q(NoId, a :> y), 1)>>,
  <<Del(Q(NoId, Empty), 0)>>,
  <<Del(Q(2, a :> x), 0), Bad(Del(Q(2, Empty), 1))>>}

McCommands ==
  UNION {{[kind |-> "insert", ops |-> s] : s \in Inserts},
         {[kind |-> "update", ops |-> s] : s \in Updates},
         {[kind |-> "delete", ops |-> s] : s \in Deletes}}
=============================================================================
