----------------------------- MODULE Documents -----------------------------
(* The write commands of mona-db (commands/write.rs, and insert in
   commands/mod.rs) on one collection.

   Connections of a tenant run at the same time, and nothing excludes their
   commands from each other: every point read, scan and put is an await of its
   own.  An update or a delete first collects copies of the documents it is
   about and then writes them back, or deletes them, one after the other.  Any
   of these awaits may err, and the command then ends without a reply: its
   connection is closed, and what it wrote before stays.

   Documents are in the order of their ids; fields but _id are a function.  An
   insert without _id is one of an id that nobody else uses.                 *)
EXTENDS Integers, FiniteSetsExt, SequencesExt

CONSTANTS
  Clients,      \* connections to the tenant
  Ids,          \* values of _id, a finite set of integers
  Fields, Vals, \* fields of documents, and their values
  Commands,     \* the commands clients may send
  MaxCommands,  \* bound on the commands begun
  Absent,       \* no document under an id
  NoId,         \* a query, or a $set, without _id
  Idle          \* a connection that is not running a command

Docs == UNION {[F -> Vals] : F \in SUBSET Fields}

\* a query: equality on _id, and on other fields
Query == [id : Ids \cup {NoId}, where : Docs]
InsertOp == [id : Ids, doc : Docs, bad : BOOLEAN]
UpdateOp ==
  [q : Query, set : Docs, setId : Ids \cup {NoId}, upsert : BOOLEAN, multi : BOOLEAN, bad : BOOLEAN]
DeleteOp == [q : Query, limit : {0, 1}, bad : BOOLEAN]
ASSUME CommandsAssumption ==
  \A cmd \in Commands :
    \/ cmd \in [kind : {"insert"}, ops : Seq(InsertOp)]
    \/ cmd \in [kind : {"update"}, ops : Seq(UpdateOp)]
    \/ cmd \in [kind : {"delete"}, ops : Seq(DeleteOp)]
ASSUME IdsAssumption ==
  IsFiniteSet(Ids) /\ Ids \subseteq Int /\ NoId \notin Ids /\ Absent \notin Docs /\ MaxCommands \in Nat

VARIABLES
  store,        \* the document under each id
  run,          \* the command each connection executes, RunType
  stale,        \* [Clients -> SUBSET Ids], history: the documents a connection
                \* has left to write and another one changed meanwhile
  begun         \* number of commands begun

vars == <<store, run, stale, begun>>

None == [k \in {} |-> Absent]
Stored(st) == {k \in Ids : st[k] # Absent}

ById(q) == q.id # NoId /\ DOMAIN q.where = {}

\* broken: _id is left out of the match
MatchesAnyId(q, k, doc) ==
  \A f \in DOMAIN q.where : f \in DOMAIN doc /\ doc[f] = q.where[f]

Matches(q, k, doc) ==
  /\ q.id \in {NoId, k}
  /\ \A f \in DOMAIN q.where : f \in DOMAIN doc /\ doc[f] = q.where[f]

\* broken: replaces the document
Replace(doc, set) == set

ApplySet(doc, set) ==
  [f \in DOMAIN doc \cup DOMAIN set |-> IF f \in DOMAIN set THEN set[f] ELSE doc[f]]

\* apply_set refuses to change _id
SetAllowed(op, k) == op.setId \in {NoId, k}

\* update without multi and delete with limit 1 take the first match only
TakesOne(kind, op) == IF kind = "update" THEN ~op.multi ELSE op.limit = 1

\* QueryFilter::collect
Collect(kind, op) ==
  LET hits == {k \in Stored(store) : Matches(op.q, k, store[k])}
      taken == IF TakesOne(kind, op) /\ hits # {} THEN {Min(hits)} ELSE hits
  IN  [k \in taken |-> store[k]]

-----------------------------------------------------------------------------
(* What the operations of a command do when nobody interferes: each one what
   it says on all its documents at once, unless it fails.                    *)
Outcome(st, n, nModified, failed) ==
  [store |-> st, n |-> n, nModified |-> nModified, failed |-> failed]

Hits(st, kind, op) ==
  LET all == {k \in Stored(st) : Matches(op.q, k, st[k])}
  IN  {k \in all : TakesOne(kind, op) => \A j \in all : k <= j}

InsertEffect(o, op) ==
  IF op.bad THEN [o EXCEPT !.failed = TRUE]
  ELSE Outcome([o.store EXCEPT ![op.id] = op.doc], o.n + 1, o.nModified, FALSE)

DeleteEffect(o, op) ==
  LET hits == Hits(o.store, "delete", op)
  IN  IF op.bad THEN [o EXCEPT !.failed = TRUE]
      ELSE Outcome([k \in Ids |-> IF k \in hits THEN Absent ELSE o.store[k]],
                   o.n + Cardinality(hits), o.nModified, FALSE)

UpsertEffect(o, op) ==
  IF ById(op.q) /\ SetAllowed(op, op.q.id)
    THEN Outcome([o.store EXCEPT ![op.q.id] = op.set], o.n + 1, o.nModified, FALSE)
    ELSE [o EXCEPT !.failed = TRUE]

\* a $set of _id stops at the first document with another _id
UpdateEffect(o, op) ==
  LET all == Hits(o.store, "update", op)
      hits == {k \in all : \A j \in all : j <= k => SetAllowed(op, j)}
      new == [k \in Ids |-> IF k \in hits THEN ApplySet(o.store[k], op.set) ELSE o.store[k]]
  IN  IF op.bad THEN [o EXCEPT !.failed = TRUE]
      ELSE IF all = {} /\ op.upsert THEN UpsertEffect(o, op)
      ELSE Outcome(new, o.n + Cardinality(hits),
                   o.nModified + Cardinality({k \in hits : new[k] # o.store[k]}), hits # all)

OpEffect(kind, o, op) ==
  CASE kind = "insert" -> InsertEffect(o, op)
    [] kind = "update" -> UpdateEffect(o, op)
    [] kind = "delete" -> DeleteEffect(o, op)

-----------------------------------------------------------------------------
(* The ids a command reads or writes: all of them when it scans.             *)
Addressed(cmd) ==
  UNION {IF cmd.kind = "insert" THEN {cmd.ops[i].id}
         ELSE IF cmd.ops[i].q.id = NoId THEN Ids ELSE {cmd.ops[i].q.id} : i \in DOMAIN cmd.ops}

Overlap(cmd, other) == Addressed(cmd) \cap Addressed(other) # {}

StoreType == [Ids -> Docs \cup {Absent}]
OutcomeType == [store : StoreType, n : Nat, nModified : Nat, failed : BOOLEAN]
LeftType == UNION {[S -> Docs] : S \in SUBSET Ids}

\* a command, the operation after the one it is in (at), the copies that are
\* left to write, and whether they are of an upsert (fresh), and the counts of
\* its reply.  ideal, before and alone are history: what the operations begun so
\* far do at once to the store the command found, the store without the last of
\* them, and whether no other command addressed a document of it while it ran.
RunType ==
  [cmd : Commands, at : Nat, left : LeftType, fresh : BOOLEAN, n : Nat, nModified : Nat,
   ideal : OutcomeType, before : StoreType, alone : BOOLEAN]
ASSUME IdleAssumption == Idle \notin RunType

Running == {c \in Clients : run[c] # Idle}

Init ==
  /\ store \in StoreType
  /\ run = [c \in Clients |-> Idle]
  /\ stale = [c \in Clients |-> {}]
  /\ begun = 0

Begin(c, cmd) ==
  /\ run[c] = Idle /\ begun < MaxCommands
  /\ begun' = begun + 1
  /\ LET met == {d \in Running : Overlap(cmd, run[d].cmd)}
     IN  run' = [d \in Clients |->
           IF d = c THEN [cmd |-> cmd, at |-> 1, left |-> None, fresh |-> FALSE,
                          n |-> 0, nModified |-> 0, ideal |-> Outcome(store, 0, 0, FALSE),
                          before |-> store, alone |-> met = {}]
           ELSE IF d \in met THEN [run[d] EXCEPT !.alone = FALSE] ELSE run[d]]
  /\ UNCHANGED <<store, stale>>

\* the op a running command is at, once the documents of the last are done
Ready(r, kinds) == r.cmd.kind \in kinds /\ DOMAIN r.left = {} /\ r.at <= Len(r.cmd.ops)

\* documents that are changed while d has them left to write
Raced(d) == IF run[d] = Idle THEN {} ELSE {k \in DOMAIN run[d].left : store'[k] # store[k]}
Races(c) == [d \in Clients |-> IF d = c THEN stale[c] ELSE stale[d] \cup Raced(d)]

Insert(c) ==
  /\ run[c] # Idle /\ Ready(run[c], {"insert"})
  /\ LET r == run[c]
         op == r.cmd.ops[r.at]
     IN  /\ ~op.bad
         /\ store' = [store EXCEPT ![op.id] = op.doc]
         /\ run' = [run EXCEPT ![c] = [r EXCEPT !.at = r.at + 1, !.n = r.n + 1,
                                                !.ideal = OpEffect("insert", r.ideal, op)]]
  /\ stale' = Races(c)
  /\ UNCHANGED begun

\* reads copies of the documents; an upsert starts from an empty document
CollectDocs(c) ==
  /\ run[c] # Idle /\ Ready(run[c], {"update", "delete"})
  /\ LET r == run[c]
         kind == r.cmd.kind
         op == r.cmd.ops[r.at]
         docs == Collect(kind, op)
         upsert == docs = None /\ kind = "update" /\ op.upsert
     IN  /\ ~op.bad
         /\ upsert => ById(op.q)
         /\ run' = [run EXCEPT ![c] = [r EXCEPT
              !.at = r.at + 1, !.fresh = upsert,
              !.ideal = OpEffect(kind, r.ideal, op), !.before = r.ideal.store,
              !.left = IF upsert THEN [k \in {op.q.id} |-> [f \in {} |-> Absent]] ELSE docs]]
  /\ stale' = [stale EXCEPT ![c] = {}]
  /\ UNCHANGED <<store, begun>>

\* broken: starts with the last document
LastId(r) == Max(DOMAIN r.left)

NextId(r) == Min(DOMAIN r.left)
Op(r) == r.cmd.ops[r.at - 1]
DropNext(r) == [k \in DOMAIN r.left \ {NextId(r)} |-> r.left[k]]

\* broken: counts every matched document as modified
ModifiedAlways(r) == IF r.fresh THEN 0 ELSE 1

\* nModified counts the documents $set changed, upserts aside
Modified(r) ==
  IF r.fresh \/ ApplySet(r.left[NextId(r)], Op(r).set) = r.left[NextId(r)] THEN 0 ELSE 1

\* the next document may be written, and what is written: an update puts the
\* copy back with its $set fields
Writable(r) == DOMAIN r.left # {} /\ (r.cmd.kind = "update" => SetAllowed(Op(r), NextId(r)))
New(r, k) == IF r.cmd.kind = "update" THEN ApplySet(r.left[k], Op(r).set) ELSE Absent

Update(c) ==
  /\ run[c] # Idle /\ run[c].cmd.kind = "update" /\ Writable(run[c])
  /\ LET r == run[c]
     IN  /\ store' = [store EXCEPT ![NextId(r)] = New(r, NextId(r))]
         /\ run' = [run EXCEPT ![c] = [r EXCEPT !.left = DropNext(r), !.n = r.n + 1,
                                                !.nModified = r.nModified + Modified(r)]]
  /\ stale' = Races(c)
  /\ UNCHANGED begun

Delete(c) ==
  /\ run[c] # Idle /\ run[c].cmd.kind = "delete" /\ Writable(run[c])
  /\ LET r == run[c]
     IN  /\ store' = [store EXCEPT ![NextId(r)] = New(r, NextId(r))]
         /\ run' = [run EXCEPT ![c] = [r EXCEPT !.left = DropNext(r), !.n = r.n + 1]]
  /\ stale' = Races(c)
  /\ UNCHANGED begun

Done(r) == DOMAIN r.left = {} /\ r.at > Len(r.cmd.ops)

\* `?` ends the connection without a reply: an operation that cannot be parsed
\* or stored, an upsert without equality on _id alone, a $set of another _id, or
\* storage that errs in a read, a put or a delete.  A put or delete that errs
\* may have been stored.
Fail(c) ==
  /\ run[c] # Idle /\ ~Done(run[c])
  /\ LET r == run[c]
     IN  \/ store' = store
         \/ /\ Ready(r, {"insert"})
            /\ LET op == r.cmd.ops[r.at]
               IN  ~op.bad /\ store' = [store EXCEPT ![op.id] = op.doc]
         \/ Writable(r) /\ store' = [store EXCEPT ![NextId(r)] = New(r, NextId(r))]
  /\ run' = [run EXCEPT ![c] = Idle]
  /\ stale' = [Races(c) EXCEPT ![c] = {}]
  /\ UNCHANGED begun

Reply(c) ==
  /\ run[c] # Idle /\ Done(run[c])
  /\ run' = [run EXCEPT ![c] = Idle]
  /\ stale' = [stale EXCEPT ![c] = {}]
  /\ UNCHANGED <<store, begun>>

\* the gateway is killed; puts were awaited until they were durable
Restart ==
  /\ Running # {}
  /\ run' = [c \in Clients |-> Idle]
  /\ stale' = [c \in Clients |-> {}]
  /\ UNCHANGED <<store, begun>>

Next ==
  \/ \E c \in Clients :
       \/ \E cmd \in Commands : Begin(c, cmd)
       \/ Insert(c) \/ CollectDocs(c) \/ Update(c) \/ Delete(c)
       \/ Fail(c) \/ Reply(c)
  \/ Restart

Spec == Init /\ [][Next]_vars

-----------------------------------------------------------------------------
(* Properties.                                                               *)
TypeOK ==
  /\ store \in StoreType
  /\ run \in [Clients -> RunType \cup {Idle}]
  /\ stale \in [Clients -> SUBSET Ids]
  /\ begun \in 0 .. MaxCommands
  /\ \A c \in Running :
       /\ run[c].at \in 1 .. (Len(run[c].cmd.ops) + 1)
       /\ DOMAIN run[c].left \subseteq Addressed(run[c].cmd)
       /\ run[c].nModified \in 0 .. run[c].n

\* A command none of whose documents another command addressed while it ran is
\* atomic, whatever else was written meanwhile: when it is done, its documents
\* and the counts of its reply are those of its operations applied at once to
\* the store it found, and none of them is one that fails.
UndisturbedCommandIsAtomic ==
  \A c \in Running : run[c].alone /\ Done(run[c]) =>
    LET o == run[c].ideal
    IN  /\ \A k \in Addressed(run[c].cmd) : store[k] = o.store[k]
        /\ run[c].n = o.n /\ run[c].nModified = o.nModified
        /\ ~o.failed

\* the stores without and with the operation a command is in
Before(r) == IF Ready(r, {"insert", "update", "delete"}) THEN r.ideal.store ELSE r.before
After(r) ==
  IF Ready(r, {"insert", "update", "delete"})
    THEN OpEffect(r.cmd.kind, r.ideal, r.cmd.ops[r.at]).store ELSE r.ideal.store

\* the documents up to some id are those of the store to, the others those of from
PrefixApplied(st, ids, from, to) ==
  \E done \in SUBSET ids :
    /\ \A k \in done, j \in ids : j <= k => j \in done
    /\ \A k \in ids : st[k] = IF k \in done THEN to[k] ELSE from[k]

\* However a command ends that no other command disturbed, by its reply, an
\* error in the middle of its writes or a restart, what it leaves is what its
\* operations before the one it is in do at once, and of that operation a
\* prefix of the documents, in the order of their ids: never a later document
\* without an earlier one, and nothing of a later operation.
UndisturbedCommandStopsAtAPrefix ==
  [][\A c \in Running : run[c].alone /\ run'[c] = Idle =>
       PrefixApplied(store', Addressed(run[c].cmd), Before(run[c]), After(run[c]))]_vars

\* new is doc but for the fields of set
SetApplied(doc, set, new) ==
  /\ DOMAIN new = DOMAIN doc \cup DOMAIN set
  /\ \A f \in DOMAIN new : new[f] = IF f \in DOMAIN set THEN set[f] ELSE doc[f]

\* Commands may overlap in any way and collect long before they write: a
\* document that nobody else changed since it was collected still matches the
\* query when it is written, an update changes no field of the stored document
\* but those of its $set, and an upsert replaces none.
UnracedWriteMeetsItsQuery ==
  [][\A c \in Running : run'[c] # run[c] =>
       \A k \in DOMAIN run[c].left \ stale[c] : store'[k] # store[k] =>
         LET op == Op(run[c])
         IN  IF run[c].fresh THEN store[k] = Absent
             ELSE /\ store[k] # Absent /\ Matches(op.q, k, store[k])
                  /\ run[c].cmd.kind = "update" => SetApplied(store[k], op.set, store'[k])]_vars

\* Once a delete has deleted its documents and has only its reply left, none of
\* them comes back but by an insert or an upsert.
DeletedComesBackOnlyByInsert ==
  [][\A d \in Running : run[d].cmd.kind = "delete" /\ Done(run[d]) =>
       \A k \in Addressed(run[d].cmd) : store[k] = Absent /\ store'[k] # Absent =>
         \E c \in Running : run'[c] # run[c] /\ (run[c].cmd.kind = "insert" \/ run[c].fresh)]_vars
=============================================================================
