---------------------------- MODULE ControlPlane ----------------------------
(* The control plane (mona-api) over its table of databases, the idle sleeper,
   and the edge proxies (mona-edge) that ask it where a client goes.

   Every query is one atomic statement of Postgres; a handler reads the clock
   and then awaits its query, so another handler, the sleeper or a deletion may
   come in between.  An edge gives up waiting after a timeout; the request it
   left may still be handled.                                                *)
EXTENDS Integers, FiniteSets

CONSTANTS
  Dbs,          \* ids of databases
  Names,        \* names of databases
  Edges,        \* client connections at the edge
  IDLE_TIMEOUT, \* config.idle_timeout_seconds
  MaxTime,      \* bound on the clock
  MaxLate,      \* bound on requests the edge no longer waits for
  MaxInserts,   \* bound on rows being created at a time
  NoRow,        \* no row of this id
  Closed        \* an edge connection without a client

ASSUME ControlPlaneAssumption ==
  /\ IDLE_TIMEOUT \in Nat \ {0} /\ MaxTime \in Nat /\ MaxLate \in Nat
  /\ MaxInserts \in Nat

Status == {"ready", "sleeping"}

VARIABLES
  rows,         \* [Dbs -> NoRow or name, status and last_active_at]
  now,          \* Utc::now()
  edge,         \* where each client connection is in handle_client
  late,         \* activity updates under way that nobody waits for
  inserts,      \* rows under way
  cutoff,       \* the sleeper's, while it waits for its list
  todo,         \* ids the sleeper has listed and not marked yet
  deleted,      \* history: ids whose row was deleted
  raced         \* history: ids marked sleeping although no longer idle, not used since

vars == <<rows, now, edge, late, inserts, cutoff, todo, deleted, raced>>
sleeper == <<cutoff, todo>>

\* no clock read yet
NoTime == -1

Row(name, status, at) == [name |-> name, status |-> status, active |-> at]
Exists(d) == rows[d] # NoRow

Init ==
  /\ rows = [d \in Dbs |-> NoRow]
  /\ now = 0
  /\ edge = [e \in Edges |-> Closed]
  /\ late = {} /\ inserts = {} /\ cutoff = NoTime
  /\ todo = {} /\ deleted = {} /\ raced = {}

Tick ==
  /\ now < MaxTime
  /\ now' = now + 1
  /\ UNCHANGED <<rows, edge, late, inserts, sleeper, deleted, raced>>

\* broken: the time until which the database counts as active
StampExpiry == now + IDLE_TIMEOUT

\* the time bound to a statement, before it is awaited
Stamp == now

\* new_id does not come up with an id that was used before
Create(d, name) ==
  /\ ~Exists(d) /\ d \notin deleted /\ \A r \in inserts : r.db # d
  /\ Cardinality(inserts) < MaxInserts
  /\ inserts' = inserts \cup {[db |-> d, name |-> name, at |-> Stamp]}
  /\ UNCHANGED <<rows, now, edge, late, sleeper, deleted, raced>>

\* the statement, which may fail
InsertRow(r) ==
  /\ inserts' = inserts \ {r}
  /\ rows' \in {rows, [rows EXCEPT ![r.db] = Row(r.name, "ready", r.at)]}
  /\ UNCHANGED <<now, edge, late, sleeper, deleted, raced>>

\* sets the name of the row as it is by then
Rename(d, name) ==
  /\ Exists(d)
  /\ rows' = [rows EXCEPT ![d].name = name]
  /\ UNCHANGED <<now, edge, late, inserts, sleeper, deleted, raced>>

\* the row only: storage and open connections stay
Delete(d) ==
  /\ Exists(d)
  /\ rows' = [rows EXCEPT ![d] = NoRow]
  /\ deleted' = deleted \cup {d}
  /\ UNCHANGED <<now, edge, late, inserts, sleeper, raced>>

-----------------------------------------------------------------------------
(* Routing and activity.                                                     *)

\* broken: stamps the row and leaves its status
Stamped(d, at) == IF Exists(d) THEN [rows EXCEPT ![d].active = at] ELSE rows

\* update_status_and_activity, and touch_activity that promotes a sleeping
\* row: no row of a deleted database comes back
Activity(d, at) ==
  IF Exists(d) THEN [rows EXCEPT ![d] = Row(@.name, "ready", at)] ELSE rows

At(step, d, at) == [step |-> step, db |-> d, at |-> at]

\* resolve_routing: get_database; without a row the client is sent away
Route(e, d) ==
  /\ edge[e] = Closed /\ Exists(d)
  /\ edge' = [edge EXCEPT ![e] = At("routing", d, Stamp)]
  /\ UNCHANGED <<rows, now, late, inserts, sleeper, deleted, raced>>

\* its update fails when the row was deleted since; else the edge sends a touch
RouteUpdate(e) ==
  /\ edge[e] # Closed /\ edge[e].step = "routing"
  /\ rows' = Activity(edge[e].db, edge[e].at)
  /\ edge' = [edge EXCEPT ![e] =
                IF Exists(edge[e].db) THEN At("routed", edge[e].db, NoTime) ELSE Closed]
  /\ raced' = raced \ {edge[e].db}
  /\ UNCHANGED <<now, late, inserts, sleeper, deleted>>

\* touch_activity reads the clock
Touch(e) ==
  /\ edge[e] # Closed /\ edge[e].step = "routed"
  /\ edge' = [edge EXCEPT ![e] = At("touching", edge[e].db, Stamp)]
  /\ UNCHANGED <<rows, now, late, inserts, sleeper, deleted, raced>>

\* whatever its answer is, the edge goes on
TouchUpdate(e) ==
  /\ edge[e] # Closed /\ edge[e].step = "touching"
  /\ rows' = Activity(edge[e].db, edge[e].at)
  /\ edge' = [edge EXCEPT ![e] = At("serving", edge[e].db, NoTime)]
  /\ raced' = raced \ {edge[e].db}
  /\ UNCHANGED <<now, late, inserts, sleeper, deleted>>

\* the edge stops waiting: a routing ends the client, a touch does not
GiveUp(e) ==
  /\ edge[e] # Closed /\ edge[e].step \in {"routing", "routed", "touching"}
  /\ \/ UNCHANGED late
     \/ /\ Cardinality(late) < MaxLate
        /\ late' = late \cup {[db |-> edge[e].db, at |-> edge[e].at]}
  /\ edge' = [edge EXCEPT ![e] =
                IF edge[e].step = "routing" THEN Closed ELSE At("serving", edge[e].db, NoTime)]
  /\ UNCHANGED <<rows, now, inserts, sleeper, deleted, raced>>

LateTouch(u) ==
  /\ u.at = NoTime
  /\ late' = (late \ {u}) \cup {[db |-> u.db, at |-> Stamp]}
  /\ UNCHANGED <<rows, now, edge, inserts, sleeper, deleted, raced>>

LateUpdate(u) ==
  /\ u.at # NoTime
  /\ rows' = Activity(u.db, u.at)
  /\ late' = late \ {u}
  /\ raced' = raced \ {u.db}
  /\ UNCHANGED <<now, edge, inserts, sleeper, deleted>>

\* the gateway cannot be reached, or the client or the gateway closes
Disconnect(e) ==
  /\ edge[e] # Closed /\ edge[e].step = "serving"
  /\ edge' = [edge EXCEPT ![e] = Closed]
  /\ UNCHANGED <<rows, now, late, inserts, sleeper, deleted, raced>>

-----------------------------------------------------------------------------
(* sleep_idle_databases                                                      *)
Before(d, time) == Exists(d) /\ rows[d].active < time
IdleRow(d) == Before(d, now - IDLE_TIMEOUT)

\* broken: compares the wrong way round
IdleReadyAfter(d, time) == Exists(d) /\ rows[d].status = "ready" /\ rows[d].active > time

IdleReady(d, time) == Before(d, time) /\ rows[d].status = "ready"

\* cutoff is kept as the time it is taken from
SleepStart ==
  /\ todo = {} /\ cutoff = NoTime
  /\ cutoff' = now
  /\ UNCHANGED <<rows, now, edge, late, inserts, todo, deleted, raced>>

SleepList ==
  /\ cutoff # NoTime
  /\ cutoff' = NoTime
  /\ todo' = {d \in Dbs : IdleReady(d, cutoff - IDLE_TIMEOUT)}
  /\ UNCHANGED <<rows, now, edge, late, inserts, deleted, raced>>

\* broken: puts a row in place of one that is gone
Marked(d) ==
  IF Exists(d) THEN [rows EXCEPT ![d].status = "sleeping"]
  ELSE [rows EXCEPT ![d] = Row(CHOOSE name \in Names : TRUE, "sleeping", now)]

\* UPDATE ... SET status, whatever the row has become
Mark(d) == IF Exists(d) THEN [rows EXCEPT ![d].status = "sleeping"] ELSE rows

SleepRow(d) ==
  /\ d \in todo
  /\ rows' = Mark(d)
  /\ todo' = todo \ {d}
  /\ raced' = IF Exists(d) /\ ~IdleRow(d) THEN raced \cup {d} ELSE raced
  /\ UNCHANGED <<now, edge, late, inserts, cutoff, deleted>>

\* an error ends the pass, or mona-api restarts; the next pass lists anew
SleepFails ==
  /\ todo # {} \/ cutoff # NoTime
  /\ todo' = {} /\ cutoff' = NoTime
  /\ UNCHANGED <<rows, now, edge, late, inserts, deleted, raced>>

Next ==
  \/ Tick
  \/ \E d \in Dbs :
       \/ \E name \in Names : Create(d, name) \/ Rename(d, name)
       \/ Delete(d) \/ SleepRow(d)
  \/ \E e \in Edges :
       \/ \E d \in Dbs : Route(e, d)
       \/ RouteUpdate(e) \/ Touch(e) \/ TouchUpdate(e) \/ GiveUp(e) \/ Disconnect(e)
  \/ \E r \in inserts : InsertRow(r)
  \/ \E u \in late : LateTouch(u) \/ LateUpdate(u)
  \/ SleepStart \/ SleepList \/ SleepFails

Spec == Init /\ [][Next]_vars

\* sleep_loop runs for ever; its passes may fail, but not every one before it has
\* its list, and not every one before it gets to d
FairSpec == Spec /\ WF_vars(SleepStart) /\ SF_vars(SleepList) /\ \A d \in Dbs : SF_vars(SleepRow(d))

-----------------------------------------------------------------------------
(* Properties.                                                               *)
TypeOK ==
  /\ rows \in [Dbs -> {NoRow} \cup [name : Names, status : Status, active : 0 .. now]]
  /\ now \in 0 .. MaxTime
  /\ edge \in [Edges -> {Closed} \cup [step : {"routing", "touching"}, db : Dbs, at : 0 .. now]
                           \cup [step : {"routed", "serving"}, db : Dbs, at : {NoTime}]]
  /\ late \subseteq [db : Dbs, at : {NoTime} \cup 0 .. now] /\ Cardinality(late) <= MaxLate
  /\ inserts \subseteq [db : Dbs, name : Names, at : 0 .. now] /\ Cardinality(inserts) <= MaxInserts
  /\ cutoff \in {NoTime} \cup 0 .. now
  /\ todo \subseteq Dbs /\ deleted \subseteq Dbs /\ raced \subseteq Dbs

\* Neither a late update nor a sleeper that listed it earlier brings a deleted
\* database back.
DeletedStaysDeleted == \A d \in deleted : ~Exists(d)

\* A database is shown sleeping only while its last activity is older than the
\* idle timeout: every route and touch wakes it.  The one exception is a row
\* that became active between the sleeper's list and its update.
SleepingIsIdle ==
  \A d \in Dbs : Exists(d) /\ rows[d].status = "sleeping" => IdleRow(d) \/ d \in raced

\* A row the sleeper is about to mark has been idle for the timeout.
SleepsOnlyIdle == \A d \in todo : Exists(d) => IdleRow(d)

\* An idle database falls asleep unless it is used or deleted, provided that not
\* every pass of the sleeper fails before it gets to its row: an error on another
\* row ends a pass, and that the rows behind it get their turn is assumed.
IdleFallsAsleep ==
  \A d \in Dbs : IdleRow(d) ~> (~IdleRow(d) \/ rows[d].status = "sleeping")
=============================================================================
