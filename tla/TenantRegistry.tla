--------------------------- MODULE TenantRegistry ---------------------------
(* mona-gateway's TenantRegistry (tenant.rs): the in-process LRU of open
   tenants that all connection tasks share.

   Every connection the gateway accepts is a task (main.rs, handle_client)
   that acquires its tenant, works on the tenant's AppState and, when its
   guard is dropped, spawns a second task that releases it.  Between two
   `.await`s of one task any step of the others may happen; what runs under
   the `inner` mutex is one step, except where the code awaits something else
   while it holds the mutex: then `holder` names the task that has it.

   An AppState (collection handles and cursors) is named after the connection
   whose acquire built it, so that a tenant that is evicted and opened again
   has another AppState.  SlateDB is external: opening a collection's path
   fences every handle opened on it before.                                  *)
EXTENDS Naturals, FiniteSets

CONSTANTS
  Conns,        \* the TCP connections the gateway accepts, and the AppStates they build
  DbIds,        \* tenants (the <db_id> of a connection's preamble)
  Colls,        \* collections of a tenant
  MaxTenants,   \* LRU_MAX_TENANTS
  MaxCursors,   \* bound on the cursors open on one AppState
  IoErrors,     \* whether the object store may fail by itself
  NoConn,       \* no AppState, no lock holder
  NoDb          \* no victim

ASSUME ConnsAssumption == IsFiniteSet(Conns) /\ NoConn \notin Conns
ASSUME DbIdsAssumption == NoDb \notin DbIds
ASSUME BoundsAssumption == MaxTenants \in Nat /\ MaxCursors \in Nat /\ IoErrors \in BOOLEAN

VARIABLES
  pc,           \* where a connection's task is
  db,           \* the tenant a connection asks for
  held,         \* the AppState a task has in hand (guard, fresh one, evicted one)
  victim,       \* local of evict_if_needed
  draining,     \* local `handles` of close_all: collections still to close
  inner,        \* the map: tenant -> [state, active]
  usedBefore,   \* order of the entries' last_used: {<<older, newer>>}
  holder,       \* the task that keeps `inner` locked across an await
  handles,      \* CollectionRegistry.open of each AppState
  cursors,      \* number of cursors in each AppState's CursorRegistry
  writer        \* SlateDB: the AppState with the newest handle on a path

locals == <<pc, db, held, victim, draining>>
vars == <<locals, inner, usedBefore, holder, handles, cursors, writer>>

-----------------------------------------------------------------------------
(* The map.                                                                  *)

Capacity == IF MaxTenants < 1 THEN 1 ELSE MaxTenants

Entry(s, n) == [state |-> s, active |-> n]

SetEntry(d, e) == inner' = [k \in DOMAIN inner \cup {d} |-> IF k = d THEN e ELSE inner[k]]

\* last_used = Instant::now()
Touch(d) ==
  usedBefore' = {p \in usedBefore : p[1] # d /\ p[2] # d} \cup ((DOMAIN inner \ {d}) \X {d})

\* broken: a warm acquire forgets active_connections += 1
JoinEntryUncounted(w, d) ==
  /\ SetEntry(d, inner[d])
  /\ Touch(d)
  /\ held' = [held EXCEPT ![w] = inner[d].state]

\* entry.last_used = now; entry.active_connections += 1; the guard shares entry.state
JoinEntry(w, d) ==
  /\ SetEntry(d, Entry(inner[d].state, inner[d].active + 1))
  /\ Touch(d)
  /\ held' = [held EXCEPT ![w] = inner[d].state]

RemoveEntry(d) ==
  /\ inner' = [k \in DOMAIN inner \ {d} |-> inner[k]]
  /\ usedBefore' = {p \in usedBefore : p[1] # d /\ p[2] # d}

Goto(w, to) == pc' = [pc EXCEPT ![w] = to]

At(w, here) == pc[w] = here

Unlocked == holder = NoConn

-----------------------------------------------------------------------------
Init ==
  /\ pc = [w \in Conns |-> "evict"]
  /\ db \in [Conns -> DbIds]
  /\ held = [w \in Conns |-> NoConn]
  /\ victim = [w \in Conns |-> NoDb]
  /\ draining = [w \in Conns |-> {}]
  /\ inner = [d \in {} |-> Entry(NoConn, 0)]
  /\ usedBefore = {}
  /\ holder = NoConn
  /\ handles = [s \in Conns |-> {}]
  /\ cursors = [s \in Conns |-> 0]
  /\ writer = [d \in DbIds |-> [c \in Colls |-> NoConn]]

-----------------------------------------------------------------------------
(* evict_if_needed(db[w])                                                    *)

RoomFor(d) == Cardinality(DOMAIN inner) < Capacity \/ d \in DOMAIN inner

Idle(d) == {k \in DOMAIN inner \ {d} : inner[k].active = 0}

\* broken: waits for an idle tenant instead of going over capacity
EvictNotNeededStrict(w) ==
  /\ At(w, "evict") /\ Unlocked
  /\ RoomFor(db[w])
  /\ Goto(w, "lookup")
  /\ UNCHANGED <<db, held, victim, draining, inner, usedBefore, holder, handles, cursors, writer>>

EvictNotNeeded(w) ==
  /\ At(w, "evict") /\ Unlocked
  /\ RoomFor(db[w]) \/ Idle(db[w]) = {}
  /\ Goto(w, "lookup")
  /\ UNCHANGED <<db, held, victim, draining, inner, usedBefore, holder, handles, cursors, writer>>

EvictPick(w) ==
  /\ At(w, "evict") /\ Unlocked
  /\ ~RoomFor(db[w])
  /\ \E v \in Idle(db[w]) :
       /\ \A u \in Idle(db[w]) : <<u, v>> \notin usedBefore
       /\ victim' = [victim EXCEPT ![w] = v]
  /\ Goto(w, "recheck")
  /\ UNCHANGED <<db, held, draining, inner, usedBefore, holder, handles, cursors, writer>>

\* broken: the second look does not check that the victim is still unused
EvictableBusy(v) ==
  /\ v \in DOMAIN inner
  /\ cursors[inner[v].state] = 0

\* broken: the second look does not check the victim's cursors
EvictablePinned(v) ==
  /\ v \in DOMAIN inner
  /\ inner[v].active = 0

Evictable(v) ==
  /\ v \in DOMAIN inner
  /\ inner[v].active = 0
  /\ cursors[inner[v].state] = 0

\* `continue`: the victim is gone, busy again, or pinned by a cursor
VictimLost(w) ==
  /\ At(w, "recheck") /\ Unlocked
  /\ ~Evictable(victim[w])
  /\ Goto(w, "evict")
  /\ victim' = [victim EXCEPT ![w] = NoDb]
  /\ UNCHANGED <<db, held, draining, inner, usedBefore, holder, handles, cursors, writer>>

\* cursors.is_empty() is awaited with the mutex held
VictimConfirmed(w) ==
  /\ At(w, "recheck") /\ Unlocked
  /\ Evictable(victim[w])
  /\ holder' = w
  /\ Goto(w, "remove")
  /\ UNCHANGED <<db, held, victim, draining, inner, usedBefore, handles, cursors, writer>>

VictimRemoved(w) ==
  /\ At(w, "remove")
  /\ held' = [held EXCEPT ![w] = inner[victim[w]].state]
  /\ RemoveEntry(victim[w])
  /\ holder' = NoConn
  /\ Goto(w, "clear")
  /\ UNCHANGED <<db, victim, draining, handles, cursors, writer>>

\* entry.state.cursors.clear(), then close_all drains the handles
VictimCleared(w) ==
  /\ At(w, "clear")
  /\ cursors' = [cursors EXCEPT ![held[w]] = 0]
  /\ draining' = [draining EXCEPT ![w] = handles[held[w]]]
  /\ handles' = [handles EXCEPT ![held[w]] = {}]
  /\ Goto(w, "close")
  /\ UNCHANGED <<db, held, victim, inner, usedBefore, holder, writer>>

\* flush and close of one drained handle
CloseHandle(w, c) ==
  /\ At(w, "close") /\ c \in draining[w]
  /\ draining' = [draining EXCEPT ![w] = @ \ {c}]
  /\ UNCHANGED <<pc, db, held, victim, inner, usedBefore, holder, handles, cursors, writer>>

\* a flush that fails drops the other handles unclosed and fails the acquire
CloseFails(w, c) ==
  /\ At(w, "close") /\ c \in draining[w]
  /\ IoErrors \/ writer[victim[w]][c] # held[w]
  /\ draining' = [draining EXCEPT ![w] = {}]
  /\ held' = [held EXCEPT ![w] = NoConn]
  /\ victim' = [victim EXCEPT ![w] = NoDb]
  /\ Goto(w, "failed")
  /\ UNCHANGED <<db, inner, usedBefore, holder, handles, cursors, writer>>

VictimClosed(w) ==
  /\ At(w, "close") /\ draining[w] = {}
  /\ held' = [held EXCEPT ![w] = NoConn]
  /\ victim' = [victim EXCEPT ![w] = NoDb]
  /\ Goto(w, "evict")
  /\ UNCHANGED <<db, draining, inner, usedBefore, holder, handles, cursors, writer>>

-----------------------------------------------------------------------------
(* acquire(db[w]), after evict_if_needed                                     *)

AcquireWarm(w) ==
  /\ At(w, "lookup") /\ Unlocked
  /\ db[w] \in DOMAIN inner
  /\ JoinEntry(w, db[w])
  /\ Goto(w, "serving")
  /\ UNCHANGED <<db, victim, draining, holder, handles, cursors, writer>>

AcquireCold(w) ==
  /\ At(w, "lookup") /\ Unlocked
  /\ db[w] \notin DOMAIN inner
  /\ Goto(w, "open")
  /\ UNCHANGED <<db, held, victim, draining, inner, usedBefore, holder, handles, cursors, writer>>

\* the lease (LocalLease grants every request) and an AppState without handles
OpenTenant(w) ==
  /\ At(w, "open")
  /\ held' = [held EXCEPT ![w] = w]
  /\ Goto(w, "insert")
  /\ UNCHANGED <<db, victim, draining, inner, usedBefore, holder, handles, cursors, writer>>

OpenFails(w) ==
  /\ At(w, "open") /\ IoErrors
  /\ Goto(w, "failed")
  /\ UNCHANGED <<db, held, victim, draining, inner, usedBefore, holder, handles, cursors, writer>>

\* broken: the loser of the race keeps the AppState it opened
AcquireRacedKeepsOwn(w) ==
  /\ At(w, "insert") /\ Unlocked
  /\ db[w] \in DOMAIN inner
  /\ SetEntry(db[w], Entry(inner[db[w]].state, inner[db[w]].active + 1))
  /\ Touch(db[w])
  /\ Goto(w, "serving")
  /\ UNCHANGED <<db, held, victim, draining, holder, handles, cursors, writer>>

\* lost the race: close the (empty) AppState of one's own, join the other
AcquireRaced(w) ==
  /\ At(w, "insert") /\ Unlocked
  /\ db[w] \in DOMAIN inner
  /\ handles' = [handles EXCEPT ![w] = {}]
  /\ JoinEntry(w, db[w])
  /\ Goto(w, "serving")
  /\ UNCHANGED <<db, victim, draining, holder, cursors, writer>>

\* broken: inserts without looking again whether somebody else did
AcquireInsertBlind(w) ==
  /\ At(w, "insert") /\ Unlocked
  /\ SetEntry(db[w], Entry(held[w], 1))
  /\ Touch(db[w])
  /\ Goto(w, "serving")
  /\ UNCHANGED <<db, held, victim, draining, holder, handles, cursors, writer>>

AcquireInsert(w) ==
  /\ At(w, "insert") /\ Unlocked
  /\ db[w] \notin DOMAIN inner
  /\ SetEntry(db[w], Entry(held[w], 1))
  /\ Touch(db[w])
  /\ Goto(w, "serving")
  /\ UNCHANGED <<db, held, victim, draining, holder, handles, cursors, writer>>

-----------------------------------------------------------------------------
(* The connection at work on its AppState, and the end of its guard.         *)

\* CollectionRegistry::db_for, cold: one opener at a time, under the write lock
OpenCollection(w, c) ==
  /\ At(w, "serving") /\ c \notin handles[held[w]]
  /\ handles' = [handles EXCEPT ![held[w]] = @ \cup {c}]
  /\ writer' = [writer EXCEPT ![db[w]][c] = held[w]]
  /\ UNCHANGED <<locals, inner, usedBefore, holder, cursors>>

\* a find that leaves a cursor behind
RegisterCursor(w) ==
  /\ At(w, "serving") /\ cursors[held[w]] < MaxCursors
  /\ cursors' = [cursors EXCEPT ![held[w]] = @ + 1]
  /\ UNCHANGED <<locals, inner, usedBefore, holder, handles, writer>>

\* broken: counts down for a cursor id that is not in the registry
EndCursorUnknown(w) ==
  /\ At(w, "serving")
  /\ cursors' = [cursors EXCEPT ![held[w]] = @ - 1]
  /\ UNCHANGED <<locals, inner, usedBefore, holder, handles, writer>>

\* killCursors, or a getMore that exhausts the cursor; anyone's cursor will do
EndCursor(w) ==
  /\ At(w, "serving") /\ cursors[held[w]] > 0
  /\ cursors' = [cursors EXCEPT ![held[w]] = @ - 1]
  /\ UNCHANGED <<locals, inner, usedBefore, holder, handles, writer>>

\* handle_connection_with_buf returns; TenantGuard::drop spawns the release
Disconnect(w) ==
  /\ At(w, "serving")
  /\ held' = [held EXCEPT ![w] = NoConn]
  /\ Goto(w, "releasing")
  /\ UNCHANGED <<db, victim, draining, inner, usedBefore, holder, handles, cursors, writer>>

\* broken: the last user is never given back
Minus1KeepsLast(n) == IF n <= 1 THEN n ELSE n - 1

\* saturating_sub(1)
Minus1(n) == IF n = 0 THEN 0 ELSE n - 1

Release(w) ==
  /\ At(w, "releasing") /\ Unlocked
  /\ IF db[w] \in DOMAIN inner
       THEN /\ SetEntry(db[w], Entry(inner[db[w]].state, Minus1(inner[db[w]].active)))
            /\ Touch(db[w])
       ELSE UNCHANGED <<inner, usedBefore>>
  /\ Goto(w, "done")
  /\ UNCHANGED <<db, held, victim, draining, holder, handles, cursors, writer>>

-----------------------------------------------------------------------------
Evict(w) ==
  \/ EvictNotNeeded(w) \/ EvictPick(w)
  \/ VictimLost(w) \/ VictimConfirmed(w) \/ VictimRemoved(w) \/ VictimCleared(w)
  \/ \E c \in Colls : CloseHandle(w, c) \/ CloseFails(w, c)
  \/ VictimClosed(w)

Acquire(w) ==
  \/ AcquireWarm(w) \/ AcquireCold(w) \/ OpenTenant(w) \/ OpenFails(w)
  \/ AcquireRaced(w) \/ AcquireInsert(w)

Work(w) ==
  \/ \E c \in Colls : OpenCollection(w, c)
  \/ RegisterCursor(w) \/ EndCursor(w) \/ Disconnect(w)

\* no connection is left: the gateway waits for clients
Quiet == (\A w \in Conns : pc[w] \in {"done", "failed"}) /\ UNCHANGED vars

Next == (\E w \in Conns : Evict(w) \/ Acquire(w) \/ Work(w) \/ Release(w)) \/ Quiet

Spec == Init /\ [][Next]_vars

(* tokio keeps polling every task and its mutex is fair; nothing makes a
   client disconnect or finish its cursors.                                  *)
Fairness == \A w \in Conns : WF_vars(Evict(w) \/ Acquire(w) \/ Release(w))

FairSpec == Spec /\ Fairness

-----------------------------------------------------------------------------
(* Properties.                                                               *)

TypeOK ==
  /\ pc \in [Conns -> {"evict", "recheck", "remove", "clear", "close", "lookup", "open",
                       "insert", "serving", "releasing", "done", "failed"}]
  /\ db \in [Conns -> DbIds]
  /\ held \in [Conns -> Conns \cup {NoConn}]
  /\ victim \in [Conns -> DbIds \cup {NoDb}]
  /\ draining \in [Conns -> SUBSET Colls]
  /\ DOMAIN inner \subseteq DbIds
  /\ inner \in [DOMAIN inner -> [state : Conns, active : Nat]]
  /\ usedBefore \subseteq DbIds \X DbIds
  /\ holder \in Conns \cup {NoConn}
  /\ handles \in [Conns -> SUBSET Colls]
  /\ cursors \in [Conns -> Nat]
  /\ writer \in [DbIds -> [Colls -> Conns \cup {NoConn}]]

\* guards alive, and guards dropped whose release task has not run yet
Users(d) == {w \in Conns : db[w] = d /\ pc[w] \in {"serving", "releasing"}}

\* active_connections of a tenant counts exactly its guards and its pending
\* releases, and a tenant somebody uses is never missing from the map: the
\* saturating_sub of a release that runs late never hides an imbalance.
ActiveCountsUsers ==
  \A d \in DbIds :
    IF d \in DOMAIN inner THEN inner[d].active = Cardinality(Users(d)) ELSE Users(d) = {}

\* Two connections of one tenant never work on two AppStates: the AppState a
\* guard hands out stays the one in the map for as long as the guard lives,
\* whatever is evicted, re-opened or raced for meanwhile.
GuardStateIsCurrent ==
  \A w \in Conns : pc[w] = "serving" =>
    db[w] \in DOMAIN inner /\ inner[db[w]].state = held[w]

\* No connection writes through a fenced handle: for each collection its
\* AppState has open, nobody opened the same path later.
ServingHandlesNotFenced ==
  \A w \in Conns : \A c \in Colls :
    pc[w] = "serving" /\ c \in handles[held[w]] => writer[db[w]][c] = held[w]

\* cursors.clear() in evict_if_needed never drops a cursor a client could
\* still continue: none was registered after the check under the mutex.
EvictionDropsNoCursor ==
  \A w \in Conns : pc[w] \in {"remove", "clear"} =>
    cursors[IF pc[w] = "remove" THEN inner[victim[w]].state ELSE held[w]] = 0

\* Handles some AppState, in the map or being evicted, still has open.
OpenHandles(d, c) ==
  {s \in Conns :
     \/ db[s] = d /\ c \in handles[s]
     \/ \E w \in Conns : held[w] = s /\ victim[w] = d /\ c \in draining[w]}

\* db_for (storage/mod.rs) means to prevent double-open races: a path is open
\* in at most one AppState.
SingleOpen == \A d \in DbIds : \A c \in Colls : Cardinality(OpenHandles(d, c)) <= 1

Acquiring(w) == pc[w] \notin {"serving", "releasing", "done", "failed"}

\* An idle tenant that a forgotten cursor pins.
PinnedIdle == \E d \in DOMAIN inner : inner[d].active = 0 /\ cursors[inner[d].state] > 0

\* evict_if_needed skips the tenants that open cursors pin, and lets the map
\* grow when no tenant can be evicted: every acquire returns.
AcquireReturns == \A w \in Conns : Acquiring(w) ~> ~Acquiring(w)

\* As long as no idle tenant is pinned by a cursor, every acquire returns:
\* victims lost to other connections do not keep evict_if_needed in its loop.
AcquireReturnsUnlessPinned == \A w \in Conns : Acquiring(w) ~> (~Acquiring(w) \/ PinnedIdle)

\* Every dropped guard is given back, although nobody waits for the release:
\* a tenant whose clients have all gone becomes idle, that is, evictable.
GuardsGivenBack ==
  \A d \in DbIds :
    (\A w \in Conns : db[w] = d => ~Acquiring(w) /\ pc[w] # "serving")
      ~> (d \in DOMAIN inner => inner[d].active = 0)

\* The abstract registry.
Stage(w) ==
  CASE pc[w] = "serving" -> "attached"
    [] pc[w] \in {"releasing", "done", "failed"} -> "gone"
    [] OTHER -> "waiting"

Service == INSTANCE TenantService WITH
  stage <- [w \in Conns |-> Stage(w)],
  serving <- [d \in DbIds |-> IF d \in DOMAIN inner THEN inner[d].state ELSE NoConn],
  attached <- [w \in Conns |-> IF pc[w] = "serving" THEN held[w] ELSE NoConn]

\* The interleavings of evict_if_needed, acquire and release implement the
\* atomic registry: one incarnation per tenant, retired only when unused.
ImplementsService == Service!Spec
=============================================================================
