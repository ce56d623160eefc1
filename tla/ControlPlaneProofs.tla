------------------------- MODULE ControlPlaneProofs -------------------------
(* Proofs, for any number of databases and edge connections, any timeout and
   any bounds, of the safety properties of ControlPlane.

   The properties are inductive together with two facts more.  The sets of
   requests nobody waits for and of rows under way are finite (Finite): their
   size is bounded, and a size is only known to change by one when the set is
   finite.  And a row under way has an id of its own, one that no row has or had
   (FreshIds): its statement could else bring a deleted database back.       *)
EXTENDS ControlPlane, FiniteSetTheorems, TLAPS

Finite == IsFiniteSet(late) /\ IsFiniteSet(inserts)

FreshIds ==
  /\ \A r \in inserts : ~Exists(r.db) /\ r.db \notin deleted
  /\ \A r, s \in inserts : r.db = s.db => r = s

IInv == TypeOK /\ Finite /\ FreshIds /\ DeletedStaysDeleted /\ SleepingIsIdle

RowSet == {NoRow} \cup [name : Names, status : Status, active : 0 .. now]
WaitingSet == [step : {"routing", "touching"}, db : Dbs, at : 0 .. now]
OtherSet == [step : {"routed", "serving"}, db : Dbs, at : {NoTime}]
EdgeSet == {Closed} \cup WaitingSet \cup OtherSet
LateSet == [db : Dbs, at : {NoTime} \cup 0 .. now]

\* the steps by which a database is used
Use ==
  \/ \E e \in Edges : RouteUpdate(e) \/ TouchUpdate(e)
  \/ \E u \in late : LateUpdate(u)

\* the other steps of an edge and of the requests it left
Move ==
  \/ \E e \in Edges : (\E d \in Dbs : Route(e, d)) \/ Touch(e) \/ GiveUp(e) \/ Disconnect(e)
  \/ \E u \in late : LateTouch(u)

\* the steps of the sleeper that change no row
Look == SleepStart \/ SleepList \/ SleepFails

\* the steps by which an id gets its row
Making ==
  \/ \E d \in Dbs, name \in Names : Create(d, name)
  \/ \E r \in inserts : InsertRow(r)

\* What a step may be.
LEMMA Steps ==
  ASSUME [Next]_vars
  PROVE  \/ Tick \/ Use \/ Move \/ Look \/ Making \/ UNCHANGED vars
         \/ \E d \in Dbs : Delete(d) \/ SleepRow(d) \/ \E name \in Names : Rename(d, name)
  BY DEF Next, Use, Move, Look, Making

\* What a step leaves alone.
LEMMA Unmoved ==
         /\ Move => UNCHANGED <<rows, now, inserts, sleeper, deleted, raced>>
         /\ Look => UNCHANGED <<rows, now, edge, late, inserts, deleted, raced>>
         /\ Making => UNCHANGED <<now, edge, late, sleeper, deleted, raced>>
         /\ Use => UNCHANGED <<now, inserts, sleeper, deleted>>
  BY DEF Move, Look, Making, Use, Route, Touch, GiveUp, Disconnect, LateTouch, SleepStart, SleepList, SleepFails,
         Create, InsertRow, RouteUpdate, TouchUpdate, LateUpdate, sleeper

-----------------------------------------------------------------------------
(* The requests nobody waits for, and the rows under way.                    *)
\* A bounded set that gets an element while it is below its bound, or loses one.
LEMMA Bounded ==
  ASSUME NEW S, NEW T, NEW max \in Nat, IsFiniteSet(S), Cardinality(S) <= max, NEW x,
         \/ T = S \/ (Cardinality(S) < max /\ T = S \cup {x}) \/ T = S \ {x}
  PROVE  IsFiniteSet(T) /\ Cardinality(T) <= max
<1>1. Cardinality(S) \in Nat
  BY FS_CardinalityType
<1>2. CASE T = S
  BY <1>2
<1>3. CASE Cardinality(S) < max /\ T = S \cup {x}
  <2>1. IsFiniteSet(T) /\ (Cardinality(T) = Cardinality(S) \/ Cardinality(T) = Cardinality(S) + 1)
    BY <1>3, FS_AddElement
  <2> QED BY <1>1, <1>3, <2>1
<1>4. CASE T = S \ {x}
  <2>1. IsFiniteSet(T) /\ (Cardinality(T) = Cardinality(S) \/ Cardinality(T) = Cardinality(S) - 1)
    BY <1>4, FS_RemoveElement
  <2> QED BY <1>1, <2>1
<1> QED BY <1>2, <1>3, <1>4

LEMMA LateStep ==
  ASSUME TypeOK, Finite, [Next]_vars
  PROVE  IsFiniteSet(late') /\ Cardinality(late') <= MaxLate /\ late' \subseteq LateSet'
<1> USE ControlPlaneAssumption
<1>1. IsFiniteSet(late) /\ Cardinality(late) <= MaxLate /\ MaxLate \in Nat /\ late \subseteq LateSet
  BY DEF TypeOK, Finite, LateSet
<1>2. CASE late' = late
  <2>1. now' = now \/ now' = now + 1
    BY DEF Next, vars, Tick, Create, InsertRow, Rename, Delete, SleepRow, Route, RouteUpdate, Touch, TouchUpdate,
           GiveUp, LateTouch, LateUpdate, Disconnect, SleepStart, SleepList, SleepFails
  <2>2. 0 .. now \subseteq 0 .. now'
    BY <2>1 DEF TypeOK
  <2> QED BY <1>1, <1>2, <2>2 DEF LateSet
<1>3. ASSUME NEW e \in Edges, GiveUp(e), late' # late
      PROVE  IsFiniteSet(late') /\ Cardinality(late') <= MaxLate /\ late' \subseteq LateSet'
  <2> DEFINE u == [db |-> edge[e].db, at |-> edge[e].at]
  <2>1. Cardinality(late) < MaxLate /\ late' = late \cup {u} /\ now' = now
    BY <1>3 DEF GiveUp
  <2>2. u \in LateSet
    BY <1>3 DEF GiveUp, LateSet, TypeOK
  <2> HIDE DEF u
  <2>3. IsFiniteSet(late') /\ Cardinality(late') <= MaxLate
    BY <1>1, <2>1, Bounded
  <2> QED BY <1>1, <2>1, <2>2, <2>3 DEF LateSet
<1>4. ASSUME NEW u \in late, LateUpdate(u)
      PROVE  IsFiniteSet(late') /\ Cardinality(late') <= MaxLate /\ late' \subseteq LateSet'
  <2>1. late' = late \ {u} /\ now' = now
    BY <1>4 DEF LateUpdate
  <2>2. IsFiniteSet(late') /\ Cardinality(late') <= MaxLate
    BY <1>1, <2>1, Bounded
  <2> QED BY <1>1, <2>1, <2>2 DEF LateSet
<1>5. ASSUME NEW u \in late, LateTouch(u)
      PROVE  IsFiniteSet(late') /\ Cardinality(late') <= MaxLate /\ late' \subseteq LateSet'
  <2> DEFINE v == [db |-> u.db, at |-> Stamp]
             rest == late \ {u}
  <2>1. late' = rest \cup {v} /\ now' = now
    BY <1>5 DEF LateTouch
  <2>2. v \in LateSet /\ rest \subseteq LateSet
    BY <1>1 DEF LateSet, Stamp, TypeOK
  <2>3. IsFiniteSet(rest) /\ Cardinality(rest) = Cardinality(late) - 1
    BY <1>1, FS_RemoveElement
  <2>4. Cardinality(late) \in Nat
    BY <1>1, FS_CardinalityType
  <2>5. IsFiniteSet(rest) /\ Cardinality(rest) <= MaxLate /\ Cardinality(rest) < MaxLate
    BY <1>1, <2>3, <2>4
  <2> HIDE DEF v, rest
  <2>6. IsFiniteSet(late') /\ Cardinality(late') <= MaxLate
    BY <1>1, <2>1, <2>5, Bounded
  <2> QED BY <2>1, <2>2, <2>6 DEF LateSet
<1> QED
  BY <1>2, <1>3, <1>4, <1>5 DEF Next, vars, Tick, Create, InsertRow, Rename, Delete, Route, RouteUpdate, Touch,
                                TouchUpdate, Disconnect, SleepStart, SleepList, SleepRow, SleepFails

LEMMA InsertsStep ==
  ASSUME TypeOK, Finite, [Next]_vars
  PROVE  /\ IsFiniteSet(inserts') /\ Cardinality(inserts') <= MaxInserts
         /\ inserts' \subseteq [db : Dbs, name : Names, at : 0 .. now']
<1> USE ControlPlaneAssumption
<1>1. /\ IsFiniteSet(inserts) /\ Cardinality(inserts) <= MaxInserts /\ MaxInserts \in Nat
      /\ inserts \subseteq [db : Dbs, name : Names, at : 0 .. now]
  BY DEF TypeOK, Finite
<1>2. CASE inserts' = inserts
  <2>1. now' = now \/ now' = now + 1
    BY DEF Next, vars, Tick, Create, InsertRow, Rename, Delete, SleepRow, Route, RouteUpdate, Touch, TouchUpdate,
           GiveUp, LateTouch, LateUpdate, Disconnect, SleepStart, SleepList, SleepFails
  <2>2. 0 .. now \subseteq 0 .. now'
    BY <2>1 DEF TypeOK
  <2> QED BY <1>1, <1>2, <2>2
<1>3. ASSUME NEW d \in Dbs, NEW name \in Names, Create(d, name)
      PROVE  /\ IsFiniteSet(inserts') /\ Cardinality(inserts') <= MaxInserts
             /\ inserts' \subseteq [db : Dbs, name : Names, at : 0 .. now']
  <2> DEFINE r == [db |-> d, name |-> name, at |-> Stamp]
  <2>1. Cardinality(inserts) < MaxInserts /\ inserts' = inserts \cup {r} /\ now' = now
    BY <1>3 DEF Create
  <2>2. r \in [db : Dbs, name : Names, at : 0 .. now]
    BY DEF Stamp, TypeOK
  <2> HIDE DEF r
  <2>3. IsFiniteSet(inserts') /\ Cardinality(inserts') <= MaxInserts
    BY <1>1, <2>1, Bounded
  <2> QED BY <1>1, <2>1, <2>2, <2>3
<1>4. ASSUME NEW r \in inserts, InsertRow(r)
      PROVE  /\ IsFiniteSet(inserts') /\ Cardinality(inserts') <= MaxInserts
             /\ inserts' \subseteq [db : Dbs, name : Names, at : 0 .. now']
  <2>1. inserts' = inserts \ {r} /\ now' = now
    BY <1>4 DEF InsertRow
  <2>2. IsFiniteSet(inserts') /\ Cardinality(inserts') <= MaxInserts
    BY <1>1, <2>1, Bounded
  <2> QED BY <1>1, <2>1, <2>2
<1> QED
  BY <1>2, <1>3, <1>4 DEF Next, vars, Tick, Rename, Delete, Route, RouteUpdate, Touch, TouchUpdate, GiveUp, LateTouch,
                          LateUpdate, Disconnect, SleepStart, SleepList, SleepRow, SleepFails

-----------------------------------------------------------------------------
(* Types.                                                                    *)
\* What is written by an activity update is a row.
LEMMA ActivityTyped ==
  ASSUME TypeOK, NEW d \in Dbs, NEW at \in 0 .. now
  PROVE  Activity(d, at) \in [Dbs -> RowSet]
  BY DEF TypeOK, Activity, Row, Exists, RowSet, Status

\* A step of an edge connection leaves every connection well typed.
LEMMA EdgeStep ==
  ASSUME TypeOK, NEW e \in Edges,
         (\E d \in Dbs : Route(e, d)) \/ RouteUpdate(e) \/ Touch(e) \/ TouchUpdate(e) \/ GiveUp(e) \/ Disconnect(e)
  PROVE  edge' \in [Edges -> EdgeSet]
<1>1. edge \in [Edges -> EdgeSet] /\ Stamp \in 0 .. now
  BY DEF TypeOK, EdgeSet, WaitingSet, OtherSet, Stamp
<1>2. \A c \in EdgeSet : [edge EXCEPT ![e] = c] \in [Edges -> EdgeSet]
  BY <1>1
<1>3. Closed \in EdgeSet
  BY DEF EdgeSet
<1>4. ASSUME NEW d \in Dbs, NEW step \in {"routing", "touching"} PROVE At(step, d, Stamp) \in EdgeSet
  BY <1>1 DEF At, EdgeSet, WaitingSet
<1>5. ASSUME NEW d \in Dbs, NEW step \in {"routed", "serving"} PROVE At(step, d, NoTime) \in EdgeSet
  BY DEF At, EdgeSet, OtherSet
<1>6. edge[e] # Closed => edge[e].db \in Dbs
  BY <1>1 DEF EdgeSet, WaitingSet, OtherSet
<1>7. \E c \in EdgeSet : edge' = [edge EXCEPT ![e] = c]
  <2>1. ASSUME NEW d \in Dbs, Route(e, d) PROVE \E c \in EdgeSet : edge' = [edge EXCEPT ![e] = c]
    BY <1>4, <2>1 DEF Route
  <2>2. CASE RouteUpdate(e)
    BY <1>3, <1>5, <1>6, <2>2 DEF RouteUpdate
  <2>3. CASE Touch(e)
    BY <1>4, <1>6, <2>3 DEF Touch
  <2>4. CASE TouchUpdate(e)
    BY <1>5, <1>6, <2>4 DEF TouchUpdate
  <2>5. CASE GiveUp(e)
    BY <1>3, <1>5, <1>6, <2>5 DEF GiveUp
  <2>6. CASE Disconnect(e)
    BY <1>3, <2>6 DEF Disconnect
  <2> QED BY <2>1, <2>2, <2>3, <2>4, <2>5, <2>6
<1> QED BY <1>2, <1>7

\* The rows and histories after an activity update.
LEMMA UseEffect ==
  ASSUME TypeOK, Use
  PROVE  \E d \in Dbs, at \in 0 .. now : rows' = Activity(d, at) /\ raced' = raced \ {d}
<1>1. ASSUME NEW e \in Edges, RouteUpdate(e) \/ TouchUpdate(e)
      PROVE  edge[e].db \in Dbs /\ edge[e].at \in 0 .. now
  BY <1>1 DEF RouteUpdate, TouchUpdate, TypeOK
<1>2. ASSUME NEW u \in late, LateUpdate(u) PROVE u.db \in Dbs /\ u.at \in 0 .. now
  BY <1>2 DEF TypeOK, LateUpdate
<1> QED BY <1>1, <1>2 DEF Use, RouteUpdate, TouchUpdate, LateUpdate

LEMMA TypeStep ==
  ASSUME TypeOK, Finite, [Next]_vars
  PROVE  TypeOK'
<1> USE ControlPlaneAssumption
<1>1. /\ late' \subseteq LateSet' /\ Cardinality(late') <= MaxLate
      /\ inserts' \subseteq [db : Dbs, name : Names, at : 0 .. now'] /\ Cardinality(inserts') <= MaxInserts
  BY LateStep, InsertsStep
<1> DEFINE Others == /\ rows' \in [Dbs -> RowSet'] /\ now' \in 0 .. MaxTime /\ edge' \in [Edges -> EdgeSet']
                     /\ cutoff' \in {NoTime} \cup 0 .. now'
                     /\ todo' \subseteq Dbs /\ deleted' \subseteq Dbs /\ raced' \subseteq Dbs
<1>2. Others => TypeOK'
  BY <1>1 DEF TypeOK, LateSet, RowSet, EdgeSet, WaitingSet, OtherSet
<1>3. /\ rows \in [Dbs -> RowSet] /\ edge \in [Edges -> EdgeSet] /\ now \in 0 .. MaxTime
      /\ cutoff \in {NoTime} \cup 0 .. now /\ todo \subseteq Dbs /\ deleted \subseteq Dbs /\ raced \subseteq Dbs
  BY DEF TypeOK, RowSet, EdgeSet, WaitingSet, OtherSet
<1>4. now' = now => RowSet' = RowSet /\ EdgeSet' = EdgeSet
  BY DEF RowSet, EdgeSet, WaitingSet, OtherSet
<1>5. CASE Tick
  <2>1. now' = now + 1 /\ now' \in 0 .. MaxTime /\ 0 .. now \subseteq 0 .. now'
    BY <1>3, <1>5 DEF Tick
  <2>2. RowSet \subseteq RowSet' /\ EdgeSet \subseteq EdgeSet'
    BY <2>1 DEF RowSet, EdgeSet, WaitingSet, OtherSet
  <2>3. UNCHANGED <<rows, edge, cutoff, todo, deleted, raced>>
    BY <1>5 DEF Tick, sleeper
  <2>4. rows' \in [Dbs -> RowSet'] /\ edge' \in [Edges -> EdgeSet']
    BY <1>3, <2>2, <2>3
  <2> QED BY <1>2, <1>3, <2>1, <2>3, <2>4
<1>6. CASE Use
  <2>1. PICK d \in Dbs, at \in 0 .. now : rows' = Activity(d, at) /\ raced' = raced \ {d}
    BY <1>6, UseEffect
  <2>2. rows' \in [Dbs -> RowSet]
    BY <2>1, ActivityTyped
  <2>3. edge' \in [Edges -> EdgeSet]
    BY <1>3, <1>6, EdgeStep DEF Use, LateUpdate
  <2> QED BY <1>2, <1>3, <1>4, <1>6, <2>1, <2>2, <2>3, Unmoved DEF sleeper
<1>7. CASE Move
  <2>1. edge' \in [Edges -> EdgeSet]
    BY <1>3, <1>7, EdgeStep DEF Move, LateTouch
  <2> QED BY <1>2, <1>3, <1>4, <1>7, <2>1, Unmoved DEF sleeper
<1>8. CASE Look
  <2>1. cutoff' \in {NoTime} \cup 0 .. now /\ todo' \subseteq Dbs
    BY <1>3, <1>8 DEF Look, SleepStart, SleepList, SleepFails
  <2> QED BY <1>2, <1>3, <1>4, <1>8, <2>1, Unmoved
<1>9. CASE Making
  <2>1. rows' \in [Dbs -> RowSet]
    <3>1. CASE \E d \in Dbs, name \in Names : Create(d, name)
      BY <1>3, <3>1 DEF Create
    <3>2. ASSUME NEW r \in inserts, InsertRow(r) PROVE rows' \in [Dbs -> RowSet]
      <4>1. r.name \in Names /\ r.at \in 0 .. now
        BY DEF TypeOK
      <4>2. Row(r.name, "ready", r.at) \in RowSet
        BY <4>1 DEF Row, RowSet, Status
      <4> QED BY <1>3, <3>2, <4>2 DEF InsertRow
    <3> QED BY <1>9, <3>1, <3>2 DEF Making
  <2> QED BY <1>2, <1>3, <1>4, <1>9, <2>1, Unmoved DEF sleeper
<1>10. ASSUME NEW d \in Dbs, Delete(d) \/ SleepRow(d) \/ \E name \in Names : Rename(d, name) PROVE TypeOK'
  <2>1. rows' \in [Dbs -> RowSet]
    BY <1>3, <1>10 DEF Delete, SleepRow, Mark, Rename, Exists, RowSet, Status
  <2>2. /\ now' = now /\ edge' = edge /\ cutoff' = cutoff
        /\ todo' \subseteq Dbs /\ deleted' \subseteq Dbs /\ raced' \subseteq Dbs
    BY <1>3, <1>10 DEF Delete, SleepRow, Rename, sleeper
  <2> QED BY <1>2, <1>3, <1>4, <2>1, <2>2
<1>11. CASE UNCHANGED vars
  BY <1>11 DEF vars, TypeOK
<1> HIDE DEF Others
<1> QED BY <1>5, <1>6, <1>7, <1>8, <1>9, <1>10, <1>11, Steps

-----------------------------------------------------------------------------
(* The properties.                                                           *)
LEMMA FreshStep ==
  ASSUME TypeOK, FreshIds, [Next]_vars
  PROVE  FreshIds'
<1>1. CASE Tick \/ Move \/ Look \/ UNCHANGED vars
  <2>1. rows' = rows /\ inserts' = inserts /\ deleted' = deleted
    BY <1>1, Unmoved DEF Tick, vars
  <2> QED BY <2>1 DEF FreshIds, Exists
<1>2. CASE Use
  <2>1. PICK d \in Dbs, at \in 0 .. now : rows' = Activity(d, at)
    BY <1>2, UseEffect
  <2>2. \A k \in Dbs : Exists(k)' => Exists(k)
    BY <2>1 DEF Activity, Exists, TypeOK
  <2>3. \A r \in inserts : r.db \in Dbs
    BY DEF TypeOK
  <2> QED BY <1>2, <2>2, <2>3, Unmoved DEF FreshIds
<1>3. ASSUME NEW d \in Dbs, Delete(d) \/ SleepRow(d) \/ \E name \in Names : Rename(d, name) PROVE FreshIds'
  <2>1. \A k \in Dbs : Exists(k)' => Exists(k)
    BY <1>3 DEF Delete, SleepRow, Rename, Mark, Exists, TypeOK
  <2>2. inserts' = inserts /\ deleted' \subseteq deleted \cup {d} /\ (deleted' # deleted => Exists(d))
    BY <1>3 DEF Delete, SleepRow, Rename
  <2>3. \A r \in inserts : r.db \in Dbs
    BY DEF TypeOK
  <2> QED BY <2>1, <2>2, <2>3 DEF FreshIds
<1>4. ASSUME NEW d \in Dbs, NEW name \in Names, Create(d, name) PROVE FreshIds'
  <2> DEFINE new == [db |-> d, name |-> name, at |-> Stamp]
  <2>1. /\ inserts' = inserts \cup {new} /\ rows' = rows /\ deleted' = deleted
        /\ ~Exists(d) /\ d \notin deleted /\ \A r \in inserts : r.db # d
    BY <1>4 DEF Create
  <2>2. new.db = d
    OBVIOUS
  <2> HIDE DEF new
  <2> QED BY <2>1, <2>2 DEF FreshIds, Exists
<1>5. ASSUME NEW r \in inserts, InsertRow(r) PROVE FreshIds'
  <2>1. inserts' = inserts \ {r} /\ deleted' = deleted
    BY <1>5 DEF InsertRow
  <2>2. \A k \in Dbs : k # r.db => rows'[k] = rows[k]
    BY <1>5 DEF InsertRow, TypeOK
  <2>3. \A q \in inserts' : q.db \in Dbs /\ q.db # r.db
    BY <2>1 DEF TypeOK, FreshIds
  <2> QED BY <2>1, <2>2, <2>3 DEF FreshIds, Exists
<1> QED BY <1>1, <1>2, <1>3, <1>4, <1>5, Steps DEF Making

LEMMA DeletedStep ==
  ASSUME TypeOK, FreshIds, DeletedStaysDeleted, [Next]_vars
  PROVE  DeletedStaysDeleted'
<1>1. CASE Use
  <2>1. PICK d \in Dbs, at \in 0 .. now : rows' = Activity(d, at)
    BY <1>1, UseEffect
  <2> QED BY <1>1, <2>1, Unmoved DEF Activity, Exists, DeletedStaysDeleted, TypeOK
<1>2. ASSUME NEW d \in Dbs, Delete(d) \/ SleepRow(d) \/ \E name \in Names : Rename(d, name)
      PROVE  DeletedStaysDeleted'
  BY <1>2 DEF Delete, SleepRow, Mark, Rename, Exists, DeletedStaysDeleted, TypeOK
<1>3. ASSUME NEW d \in Dbs, NEW name \in Names, Create(d, name) PROVE DeletedStaysDeleted'
  BY <1>3 DEF Create, Exists, DeletedStaysDeleted
<1>4. ASSUME NEW r \in inserts, InsertRow(r) PROVE DeletedStaysDeleted'
  BY <1>4 DEF InsertRow, Exists, FreshIds, DeletedStaysDeleted, TypeOK
<1>5. CASE Tick \/ Move \/ Look \/ UNCHANGED vars
  BY <1>5, Unmoved DEF Tick, vars, Exists, DeletedStaysDeleted
<1> QED BY <1>1, <1>2, <1>3, <1>4, <1>5, Steps DEF Making

LEMMA SleepingStep ==
  ASSUME TypeOK, SleepingIsIdle, [Next]_vars
  PROVE  SleepingIsIdle'
<1> USE ControlPlaneAssumption DEF IdleRow, Before
<1>1. CASE Use
  <2>1. PICK d \in Dbs, at \in 0 .. now : rows' = Activity(d, at) /\ raced' = raced \ {d}
    BY <1>1, UseEffect
  <2>2. now' = now
    BY <1>1, Unmoved
  <2>3. \A k \in Dbs : k # d => rows'[k] = rows[k]
    BY <2>1 DEF Activity, TypeOK
  <2>4. (Exists(d) /\ rows[d].status = "sleeping")' => FALSE
    BY <2>1 DEF Activity, Row, Exists, TypeOK
  <2> QED BY <2>1, <2>2, <2>3, <2>4 DEF SleepingIsIdle, Exists
<1>2. ASSUME NEW r \in inserts, InsertRow(r) PROVE SleepingIsIdle'
  <2>1. r.db \in Dbs /\ \A k \in Dbs : k # r.db => rows'[k] = rows[k]
    BY <1>2 DEF InsertRow, TypeOK
  <2>2. rows' = rows \/ ((Exists(r.db) /\ rows[r.db].status = "sleeping")' => FALSE)
    BY <1>2, <2>1 DEF InsertRow, Row, Exists, TypeOK
  <2>3. now' = now /\ raced' = raced
    BY <1>2 DEF InsertRow
  <2> QED BY <2>1, <2>2, <2>3 DEF SleepingIsIdle, Exists
<1>3. ASSUME NEW d \in Dbs, SleepRow(d) PROVE SleepingIsIdle'
  <2>1. \A k \in Dbs : k # d => rows'[k] = rows[k]
    BY <1>3 DEF SleepRow, Mark, TypeOK
  <2>2. Exists(d)' => Exists(d) /\ rows'[d].active = rows[d].active
    BY <1>3 DEF SleepRow, Mark, Exists, TypeOK
  <2>3. Exists(d) => IdleRow(d) \/ d \in raced'
    BY <1>3 DEF SleepRow
  <2>4. raced \subseteq raced' /\ now' = now
    BY <1>3 DEF SleepRow
  <2> QED BY <2>1, <2>2, <2>3, <2>4 DEF SleepingIsIdle, Exists
<1>4. ASSUME NEW d \in Dbs, NEW name \in Names, Rename(d, name) PROVE SleepingIsIdle'
  <2>1. \A k \in Dbs : k # d => rows'[k] = rows[k]
    BY <1>4 DEF Rename, TypeOK
  <2>2. Exists(d) /\ rows'[d].status = rows[d].status /\ rows'[d].active = rows[d].active
    BY <1>4 DEF Rename, Exists, TypeOK
  <2>3. raced' = raced /\ now' = now
    BY <1>4 DEF Rename
  <2> QED BY <2>1, <2>2, <2>3 DEF SleepingIsIdle, Exists
<1>5. ASSUME NEW d \in Dbs, Delete(d) PROVE SleepingIsIdle'
  <2>1. now' = now /\ raced' = raced /\ ~Exists(d)' /\ \A k \in Dbs : k # d => rows'[k] = rows[k]
    BY <1>5 DEF Delete, Exists, TypeOK
  <2> QED BY <2>1 DEF SleepingIsIdle, Exists
<1>6. CASE Tick
  <2>1. now \in Nat /\ now' = now + 1 /\ rows' = rows /\ raced' = raced
    BY <1>6 DEF Tick, TypeOK
  <2>2. \A k \in Dbs : Exists(k) => rows[k].active \in Nat
    BY <2>1 DEF Exists, TypeOK
  <2> QED BY <2>1, <2>2 DEF SleepingIsIdle, Exists
<1>7. CASE Move \/ Look \/ UNCHANGED vars \/ \E d \in Dbs, name \in Names : Create(d, name)
  <2>1. rows' = rows /\ now' = now /\ raced' = raced
    BY <1>7, Unmoved DEF Create, vars
  <2> QED BY <2>1 DEF SleepingIsIdle, Exists
<1> QED BY <1>1, <1>2, <1>3, <1>4, <1>5, <1>6, <1>7, Steps DEF Making

LEMMA InvInit == Init => IInv
<1> SUFFICES ASSUME Init PROVE IInv
  OBVIOUS
<1>1. /\ IsFiniteSet(late) /\ Cardinality(late) = 0
      /\ IsFiniteSet(inserts) /\ Cardinality(inserts) = 0
  BY FS_EmptySet DEF Init
<1>2. TypeOK
  BY <1>1, ControlPlaneAssumption DEF Init, TypeOK
<1> QED BY <1>1, <1>2 DEF Init, IInv, Finite, FreshIds, DeletedStaysDeleted, SleepingIsIdle, Exists

LEMMA InvStep == IInv /\ [Next]_vars => IInv'
<1>1. ASSUME TypeOK, Finite, [Next]_vars PROVE Finite'
  BY <1>1, LateStep, InsertsStep DEF Finite
<1> QED BY <1>1, TypeStep, FreshStep, DeletedStep, SleepingStep DEF IInv

\* The inductive invariant holds throughout.
THEOREM Invariance == Spec => []IInv
  BY InvInit, InvStep, PTL DEF Spec

\* Rows, requests under way and the sleeper's list keep their types, and no
\* stored time lies in the future.
THEOREM TypeCorrect == Spec => []TypeOK
<1>1. IInv => TypeOK
  BY DEF IInv
<1> QED BY <1>1, Invariance, PTL

\* No late statement brings back the row of a deleted database.
THEOREM DeletedForGood == Spec => []DeletedStaysDeleted
<1>1. IInv => DeletedStaysDeleted
  BY DEF IInv
<1> QED BY <1>1, Invariance, PTL

\* A database that is marked sleeping is idle, but for the sleeper's race.
THEOREM SleepersIdle == Spec => []SleepingIsIdle
<1>1. IInv => SleepingIsIdle
  BY DEF IInv
<1> QED BY <1>1, Invariance, PTL
=============================================================================
