# MonaDB: verification development

TLA+ models of MonaDB's runtime, the TLC configurations that check them on small
instances, and TLAPS proofs about them. Every definition is translated from the
Rust sources; paths below are relative to `src/`. `PROJECT.json` names, for each
definition, the lines it stands for, and lists the runs, the mutated definitions
that each property was tested against, the hazards and the theorems.

## 1. The system

MonaDB serves many logical MongoDB databases ("tenants") from one process over an
object store.

    MongoDB client --TLS/SNI--> mona-edge --"MONA <db_id>\n" + Mongo bytes--> mona-gateway
                                   |                                             |
                                   | HTTP: resolve, touch                        | TenantRegistry (LRU)
                                   v                                             v
                       mona-api --SQL--> Postgres                  mona-db AppState: CollectionRegistry,
                          ^                                        CursorRegistry --> SlateDB --> object store
                          '-- idle sleeper (a task of mona-api)

### Components, their state and operations

| component | source | state | operations |
|---|---|---|---|
| tenant registry | `mona-gateway/src/tenant.rs` | `inner`: tenant -> (AppState, last_used, active_connections), under a tokio mutex | `acquire`, `evict_if_needed`, `release` (spawned by `TenantGuard::drop`) |
| writer lease | `mona-gateway/src/lease.rs` | none: `LocalLease` grants everything | `acquire` |
| gateway front | `mona-gateway/src/main.rs`, `preamble.rs` | one task per TCP connection, a read buffer | `read_preamble`, `handle_client` |
| request loop, framing | `mona-db/src/server/connection.rs`, `wire/mod.rs` | `read_buf`, the reply being written | `take_frame`, dispatch, write |
| messages, command table | `mona-db/src/wire/op_msg.rs`, `op_query.rs`, `header.rs`, `commands/mod.rs` | none | decode, `merge_sections`, `dispatch_body`, `from_document` of each command |
| cursors | `mona-db/src/cursor/mod.rs`, `commands/find.rs`, `get_more.rs`, `kill_cursors.rs`, `storage/scan.rs` | `next_id`, id -> CursorState (snapshot, predicate, last key, limit remaining) | `find`, `getMore`, `killCursors`, `scan_batch` |
| write commands | `mona-db/src/commands/write.rs`, `filter.rs`, `mod.rs` | none of their own: local copies of documents between awaits | `insert`, `update`, `delete` |
| collection registry | `mona-db/src/storage/mod.rs` | open SlateDB handles | `db_for`, `put`, `delete`, `get`, `scan`, `snapshot`, `close_all` |
| ids, predicates | `mona-db/src/storage/id.rs`, `predicate.rs` | none | `encode_id`, `Predicate::parse`, `matches`, `extract_id_eq` |
| control plane | `mona-api/src/services.rs`, `db.rs`, `routes.rs` | Postgres table `databases` | create, rename, delete, list, resolve, touch |
| idle sleeper | `mona-api/src/main.rs`, `services.rs` | the list of one pass | `sleep_idle_databases` |
| edge proxy | `mona-edge/src/proxy.rs`, `control_plane.rs` | one task per client | resolve, touch, connect, copy bytes |
| console, types, manifests | `mona-app`, `mona-types`, `infra` | none of the runtime's | not modelled |

### Interactions

- All connections of a tenant share one AppState, hence its collection handles and
  its cursors. The AppState lives from the `acquire` that built it until it is
  evicted; a connection keeps it alive through `active_connections`.
- Commands of different connections interleave at every `.await`. Neither
  `CollectionRegistry` nor `CursorRegistry` holds a lock across a whole command.
- SlateDB allows one writer per path: opening a path again fences the older handle.
- Edge and sleeper talk to the same rows through single SQL statements; the edge
  gives up after a timeout, the statement may still be executed.
- Nothing informs the gateway of a deletion or a sleep.

### What is hard here

Interleavings of tokio tasks at awaits (eviction against acquire against late release;
getMore against getMore and killCursors; update against update; sleeper against route),
partial failure of multi-document commands, restarts (cursor ids start again, half a
command stays), abandoned HTTP requests, TCP segmentation, and the boundaries of
batchSize, limit and skip. `PROJECT.json` lists these as `hazards`, each with its line
and the properties that would notice it going wrong.

### What makes each component correct

- *Tenant registry*: a tenant has one AppState at a time; counts match users; no
  eviction under a user or a cursor; no served connection has a fenced handle;
  `acquire` returns.
- *Cursors*: the pages of a query add up to the answer on one snapshot, under every
  page size; nothing is lost when requests overlap; a cursor that was killed or exhausted is gone.
- *Queries*: a query matches what its operators mean, and a point read of `_id` finds
  what a scan would.
- *Writes*: a command nobody interferes with is atomic in effect; one that ends before
  its time leaves a prefix of its writes; what is written back was not changed in between.
- *Messages*: a command runs with all that was sent for it, wherever in the message and
  in whatever number type it was sent.
- *Connection*: requests run in order, once, and are answered; the task ends.
- *Control plane*: deleted databases stay deleted; only idle ones sleep, and they do.

## 2. Modules

    TenantService  <--implements--  TenantRegistry <-- MCTenantRegistry
                                           ^------- TenantRegistryProofs
    ScanBatch <-- Cursors <-- MCCursors
        ^            ^---------------------- CursorsProofs
        |---- ScanBatchProofs <-------------------'
        '---- Queries <-- MCQueries
                 ^------- QueriesProofs
    Messages <-- Connection <-- MCConnection
                     ^--------- ConnectionProofs <-- CommandProofs
    Documents <-- MCDocuments
        ^-------- DocumentsProofs
    ControlPlane <-- MCControlPlane
          ^--------- ControlPlaneProofs

The `MC` modules hold the definitions that configurations refer to: symmetry sets and
the values of constants that are not model values. Definitions commented `broken:` are
plausible bugs of the definition below them. They are in no next-state relation;
`PROJECT.json` (`mutants`) says which property fails once one of them is used.

### TenantService and TenantRegistry

`TenantService` is the promise of the registry in six atomic actions per connection and
`Retire`: a tenant is served by one incarnation at a time, a connection keeps the one it
was attached to, and an incarnation is retired only when it has neither connections nor
cursors. `TenantRegistry` is `tenant.rs` await by await and implements it
(`ImplementsService`, by the refinement mapping `Stage`, `serving`, `attached`).

| TenantRegistry | code |
|---|---|
| `pc[w]` | where the task of connection `w` is: `evict`, `recheck`, `remove`, `clear`, `close` are the await points of `evict_if_needed`, `lookup`, `open`, `insert` those of `acquire`; `serving` is `handle_connection_with_buf`, `releasing` the task spawned by the guard's `drop` |
| `inner`, `usedBefore` | the map; `last_used` is kept as the order it induces, which is all the code compares |
| `holder` | the task that awaits `cursors.is_empty()` while it has the `inner` mutex |
| `held`, `victim`, `draining` | locals: the AppState in hand, the chosen victim, the handles `close_all` drained |
| `handles`, `cursors` | per AppState: open collections, number of open cursors |
| `writer` | external (SlateDB): who opened a path last |

An AppState bears the name of the connection that built it. What runs under the mutex
without another await is one action. A connection does one acquire: a client that
connects again is another element of `Conns`.

### ScanBatch and Cursors

`ScanBatch` holds `scan_batch` as an operator (`Scan`) beside `Answer`, the definition
of what a query should answer. `Cursors` adds the registry and the requests. `FindScan`
(snapshot and first page) and `FindReply` (register, reply) are separate steps because
the registry is shared; so are `GetMoreStart` (the copy `cursors.get` returns) and
`GetMoreReply` (page, then `take` or `update`). The page can be computed in the second
step because it depends on the copy and its snapshot only. `Reopen` is an eviction
and `Restart` a gateway restart: both begin a registry with `next_id = 1`. A predicate is
the set of document classes it matches, a document its class. `asked` and `removed`
are history variables: what each find asked for and was sent, and the cursors that a
killCursors or an exhausting getMore has reported gone.

### Queries

The functions without concurrency: `Predicate::parse` (raw query documents to predicates or
`Malformed`), `matches`, `extract_id_eq`, `encode_id`, and the two places where a point read
replaces a scan: `QueryFilter::collect` (`Collect`) and `FindCmd::execute` (`PointFind`). A
BSON value is a type, a number in the order of that type and the items it nests, so the
comparisons of `cmp_bson` are kept: numbers across types, nothing else, and NaN not even
with itself, wherever it is nested; `Same` is the recursive equality of `Bson`, which does not
look at the order of a document's fields. `OtherNames` are names with `$` that are no operator
of this code: they make a query malformed. `Values` are the values that nest up to `Nesting`, `Predicates` what they can
be parsed into; `parse_query`, `parse_field_op`, `Predicate::matches` and the reference are
recursive functions on them.
`Selected` is the reference definition of a query in terms of intersection, union and
complement, and the complete answer of a find is `Answer` of `ScanBatch`, which
`Cursors` compares its pages with. `Insert` and `Delete` bring the collection into
every state the instance has; the properties quantify over all queries in each state.
It is what lets `Documents` and `Cursors` take a query for the documents it matches.

### Documents

One collection and the write commands, one action per await: `CollectDocs` is
`QueryFilter::collect` (copies), `Update` and `Delete` write back one document each,
`Insert` puts one. `Fail` is every `?` on the way, which closes the connection without a
reply: a command that has an await before it can fail there, because an operation is bad,
an upsert or a `$set` is refused, or the storage errs in a read, a put or a delete. Of a put
or delete that errs it is open whether it was stored, so `Fail` may also leave the write it
was about; that such a write appears only after the command has ended is not modelled.
`Restart` kills the gateway between any two steps. A scan of `collect` is one step, since
SlateDB scans a consistent state.

`OpEffect` is the reference semantics: what one operation does to all its documents at
once, or that it fails. The history field `ideal` of a running command applies it to the
store the command found, operation by operation, and `before` is that store without the
operation the command is in; `alone` says that no other running command has addressed a
document of it so far. The history variable `stale` holds, for each connection, the
documents it has left to write and another one changed since it collected them. The
first three serve what is promised to a command on its own, `stale` what is promised
to commands that overlap.

### Messages and Connection

`Messages` is what becomes of one complete frame, as functions: `Decodes` and
`CommandDocument` (flags, sections, the four bytes of a checksum, document sequences
merged into the body as `Document::insert` does), then `Command`, the choice by names of
`dispatch_body` and the `from_document` of every command, field by field, with the four
ways an optional number is taken (`Number`, `CursorId`, `BatchSize`, `DeleteLimit`), and
`Execute`, the kinds of reply a command can end in. A function that can fail returns the
set of its results, so an error is the empty set. A double is counted in halves, integers
have two widths (`I32MAX`, `I64MAX`) and casts saturate as Rust's `as` does.

The reference for what a command should run with is in `Connection`, and shares no parser
with `Messages`: `Sent` is what the one section with a name holds, `Integer` the integer a
value means, and `AsSent` says of each kind of command which of the values sent it has. It
speaks of messages as clients must write them (`WellFormed`): one body, and no name in two
sections. `mona-db/docs/mongodb-wire-protocol.md` forbids a sequence whose name is in the body (219)
and one field twice (181), which two sequences of one name would be. The code takes them, and
keeps of two sections with one name the last (`op_msg.rs:146-151`): the documents of the
first are lost without an error. The model shows this and no property claims otherwise.
A delete limit that is a double is left to `DeleteLimitApplied`, which fails.

`Connection` is one TCP connection from its first byte to its end. A message is a run of
units which the client writes one by one (`next` is the one it writes next, `socket` what
it wrote and the server has not read); `Read` takes any non-empty part of the socket, at
most the size of the read buffer, so that reads cut messages anywhere and glue them
together. `Dispatch` takes a whole frame from `buf`, decodes and dispatches it and notes
the command in `executed`; the reply owed is a record of `responseTo`, format and kind.
`Acquire` stands for `TenantRegistry`, `Execute` for the commands `Cursors` and
`Documents` detail.

| Connection | code |
|---|---|
| `phase` | `preamble`: `read_preamble`; `acquire`: `handle_client` of the gateway; `serving`: `handle_connection_with_buf`; `closed`: its task has ended |
| `buf` | the buffer of `read_preamble`, whose rest becomes `read_buf` |
| `owed`, `replies`, `got` | the reply `write_all` waits with, those in or through the socket, those the client has read |
| `shut`, `gone` | the client's end of stream, its reset |

### ControlPlane

The table `databases` (`rows`: name, status, `last_active_at`), the clock, the rows being
created (`inserts`), the edge connections (`edge`), requests whose caller has given up
(`late`), and the sleeper's cutoff and list (`cutoff`, `todo`). Every SQL statement is one
action, and so is every reading of the clock, as the statement it is for is awaited later:
`Create` and `InsertRow`, `Route` and `RouteUpdate`, `Touch` and `TouchUpdate`,
`SleepStart` and `SleepList`. Between them the time is carried in `at` or `cutoff`.

| `edge[e].step` | code |
|---|---|
| `routing` | `resolve_routing` has read the row and the clock, its update is awaited |
| `routed` | the edge has its route and has sent a touch, which no handler has begun |
| `touching` | `touch_activity` has read the clock, its statement is awaited |
| `serving` | the client's bytes are copied |

`GiveUp` is the edge's timeout: the request is lost or remains in `late`, from where it may
be executed at any later time (`LateTouch` reads the clock of a touch only then). `raced`
records rows marked sleeping after they had been used since the list was made.

## 3. What is checked

Passing runs (numbers are distinct states):

| run | instance | what it shows |
|---|---|---|
| `tenant_registry` (52,858) | 3 connections, 2 tenants, 1 collection, room for 1, 1 cursor, I/O errors | `ActiveCountsUsers`, `GuardStateIsCurrent`, `ServingHandlesNotFenced`, `EvictionDropsNoCursor`; the registry implements `TenantService` (`ImplementsService`); `AcquireReturnsUnlessPinned`, `GuardsGivenBack` |
| `cursor_paging` (736,884) | 2 clients, every collection of 3 keys and 2 classes, skip -1..1, limit none, -1, 0, 2, batchSize -1..2, 1 find, 1 write, 1 re-open | `PagesAreTheAnswer`, `PositionFitsLimit`, `NoDocumentSkipped`, `RemovedStaysRemoved` |
| `queries` (729) | 13 documents with ids of every key type and one that cannot be a key, 85 queries | `MatchesIsSelection`, `PointReadsLikeScans`, `PointFindsAnswer` |
| `document_writes` (209,296) | 2 clients, 2 ids, 2 fields, 2 values, 13 commands, 2 of them begun, errors at every await, restarts | `UndisturbedCommandIsAtomic`, `UndisturbedCommandStopsAtAPrefix`, `UnracedWriteMeetsItsQuery` |
| `connection` (28,181) | 272 scripts of preamble and requests, limits scaled to 3, 2, 3, 1, integers of 8 and 11 bits | `RequestsInOrder`, `RepliesInOrder`, `PreambleBounded`, `CommandAsSent`, `NumbersKeepMeaning`, `RequestsAnswered`, `ConnectionEnds` |
| `control_plane` (403,083) | 2 databases, 2 names, 1 row being created, 1 edge connection at a time, 1 late request, timeout 1, time up to 3 | `DeletedStaysDeleted`, `SleepingIsIdle`, `IdleFallsAsleep` |

Each of them also checks its module's `TypeOK`.

Runs that end in a counterexample, each a disagreement between what a comment, a test or
a document of the repository says and what the code does:

| run | property | what happens |
|---|---|---|
| `tenant_pinned` | `AcquireReturns` | an idle tenant with a forgotten cursor is chosen as victim again and again: `acquire` never returns |
| `tenant_double_open` | `SingleOpen` | the evicted entry leaves the map before its handles are closed: the next `acquire` opens the same path beside them |
| `cursor_limit` | `LimitRespected` | two overlapping getMores spend the same remaining limit |
| `document_lost_update` | `DeletedComesBackOnlyByInsert` | an update puts back the copy it collected, after another connection's delete has removed and counted the document: the delete is acknowledged and the document is there |
| `connection_delete_limit` | `DeleteLimitApplied` | a delete whose limit is the double 1.0 counts as one without a limit: it deletes every match |
| `control_plane_raced` | `SleepsOnlyIdle` | a database used between the sleeper's list and its update is marked sleeping |

Smaller disagreements between text and code that need no run, met while modelling:
`mona-db/docs/mongodb-wire-protocol.md:491` has a command named by the first field of its
document, `dispatch_body` looks each name up anywhere in it (`Command`); the same
document answers errors of a command, the code closes the connection (`Dispatch`);
`wire/op_compressed.rs:4` lists as deferred what `op_msg.rs` and `op_query.rs` decode; a
write that does not parse is answered like a command that does not exist; `ordered` is
parsed and used by nobody; the checksum is skipped and not compared.

### Bounds, and why they are enough

- *TenantRegistry.* With room for one of two tenants the map is full whenever the other
  acquires; three connections allow two on one tenant (warm, or racing cold) and one that
  evicts it or re-opens what is being evicted. Longer histories come from new connections
  only, and the theorems below hold for any number of connections, tenants and
  collections.
- *Cursors.* A page of one or two out of three keys has documents before, in and
  behind it; every store of these keys is an initial state, so keys that do not match
  occur in every place. `Limits` includes zero, a negative number and one that runs out
  within the collection; two clients suffice for a stale copy. `MaxFinds = 1` in
  `cursor_paging`: the cursors of two queries share nothing but `next_id`.
- *Queries.* Every operator meets every type of argument on documents whose field is
  missing, equal, smaller, greater or of another type; conjuncts on `_id` occur alone,
  with others, twice, under `$and`, `$or` and `$not`. The set of collections is closed under
  insert and delete. `Nesting = 5` admits the deepest of the queries, `Contents = 3` every
  content the ids use. The properties name what a point read does differently: an id
  that cannot be a key ends in an error, a binary id is found under another subtype,
  `skip` and the sign of `limit` are not looked at.
- *Documents.* The commands of `MCDocuments` have every shape of query (`_id`, `_id` and
  another field, a field, everything), one and many documents, an upsert that inserts
  and one that fails, and a failing operation first, in the middle and at the end. Two
  documents are enough for an operation that has written one and not the next, two
  commands for any race: a third client could only change a document once more.
- *Connection.* The limits are scaled down, their order is kept: a read is smaller than
  a message, a preamble may be below, at and above the limit, and the last read of
  the preamble may hold the start of a request. Six scripts pipeline several requests
  with everything that can end a connection among them; the others carry one message
  each, since what becomes of it does not depend on those before it: every option of
  every command with every type of number around zero and both ends of its range, every
  set of flags with zero to five bytes at the end, a field or a sequence in front of the
  body and behind it, alone and beside a second sequence, those of one name in every order,
  once and twice, and what each parser refuses.
- *ControlPlane.* A row becomes idle two ticks after its stamp with a timeout of one; three
  ticks let it be listed, used, and become idle again (`control_plane_raced` has four).
  With four, `control_plane` takes longer than a run should and finds nothing else. Two names
  tell a rename from a create. One edge connection at a time together with a late request
  gives two writers besides the sleeper, and one row being created one more.

`CHECK_DEADLOCK FALSE` is used where a system stops because a bound is used up, or the
connection has ended. `TenantRegistry` checks deadlock: `Quiet` allows the end only when
all connections are done.

### Fairness

- `TenantRegistry`: weak fairness of every task inside `evict_if_needed`, `acquire` and
  `release`: tokio polls runnable tasks and its mutex is first come, first served.
  None for `Work`: no client has to disconnect, open a collection or finish a cursor.
- `Connection`: weak fairness of the server's task and of `ClientRead`. The second is
  the client's: drivers read replies as they arrive. Without it a client that never
  reads stops the server in `write_all` (listed as a hazard).
- `ControlPlane`: weak fairness of `SleepStart` since `sleep_loop` runs for ever; strong
  fairness of `SleepList` and of `SleepRow(d)` for each `d`, because an error or a restart
  ends a pass at any point. This is an assumption and not a guarantee of the code: not
  every pass fails before it has its list, and not every one before it gets to the row.
  If one row failed for ever, those listed behind it would never be marked, as an error
  ends the pass (`services.rs:164`); `IdleFallsAsleep` says nothing of that case, and the
  hazard is listed as open. Time need not pass, statements of the edge need not be
  executed.

## 4. What is proved

TLAPS checks these for all values of the constants, under the assumptions named in the
modules (finitely many connections; null values that are no elements; natural bounds).

`TenantRegistryProofs`: `TypeCorrect`, `CountsUsers`, `GuardCurrent`, `NotFenced`,
`NoCursorDropped` (the safety invariants of `tenant_registry`) and `Refinement`
(`Spec => ImplementsService`). The invariants are not inductive by themselves. `IInv`
adds to them, as `Filing`:

- `HolderRemoves`: the mutex is held across an await exactly by a task about to remove
  its victim;
- `VictimUnused`: meanwhile that victim stays in the map, unused and without cursors,
  which is what makes the check of `evict_if_needed` still true at the removal;
- `StatesFiled`: an AppState in the map was built for that very tenant by a connection
  that has finished its acquire, so no two tenants share one;
- `FreshIsEmpty`: an AppState that is not in the map yet has no handles and no cursors,
  so the loser of a cold race closes nothing that is in use;
- `EvictedIsOut`: an AppState being evicted is out of the map for good and has no
  cursor, so `cursors.clear()` takes nothing away;
- `FiledNotFenced`: whoever is in the map is the newest writer of all it has open.

`GuardCurrent` follows because a served connection is counted, a counted tenant is not
a victim, and an entry's AppState is never replaced. The refinement proof uses `IInv` in
every step: inserting is `BringUp`, joining is `Attach`, removal of a victim is `Retire`
(its guards come from `VictimUnused` and the counts), everything else stutters.

`ScanBatchProofs` and `CursorsProofs`: `TypeCorrect`, `PagesAddUp`, `NothingSkipped`,
`PositionsFit` and `RemovedCursorsStayRemoved`, the five invariants of `cursor_paging`, for
any clients, collections, predicates and request numbers and any finite set of keys.
The first module is about one page. It counts hits by rank (`FirstSize`, `FirstSplit`:
the first *n* hits, and that they split at any rank), says when a query can go on from a
key with a remaining limit (`Position`), and proves that a page read at such a position
is the next gap-free piece of the answer and ends at one again (`FirstPage`, `NextPage`).
Nothing there is by induction over the collection: a page is described by ranks, not by
a loop. The second follows every CursorState, in the registry or copied out of it by a
getMore, to the find it comes from:

- `CursorsRead`, `OpsRead`: its position belongs to the answer of that find, and what
  lies behind it was sent; a find without a reply holds the first page (`Opens`). This
  holds for stale copies too, hence `NothingSkipped` and `PositionsFit` under overlap;
- `ScansApart`: a scan has one cursor, and a getMore under way works for the scan its id
  stands for, since an id is not used twice between two re-opens;
- `Alone`: as long as no two requests on a scan overlap, what was sent is exactly what
  lies behind the one position there is, hence `PagesAddUp`;
- `Kept` carries the promises over to scans whose cursor is gone, `RemovedOld` the ids
  reported gone: below `next_id` and not in the registry, so an `update` finds nothing.

`ConnectionProofs`: `TypeCorrect`, `InOrder`, `Replied` and `PreambleFitsLimit`, for any
scripts, sizes of messages and reads, limits and cuts. The invariant looks at the units
ahead of the request loop: `Ahead` is `buf`, then `socket`, then the unit the client
writes next. They are a run without a gap (`Runs`), and it begins where a message begins
(`Heads`): at the preamble, then at the message after the last one executed. `Runs` is
stated of neighbours and of any two units, so that appending one unit and dropping a
prefix keep it without induction along the run. A complete frame in front is then exactly
the next message, which gives `InOrder`; `Replied` compares counts of answered requests.
What `Commands` makes of a message stays a black box there.

`CommandProofs` opens that box: `ExecutedAsSent` (`CommandAsSent`) and `NumbersKept`
(`NumbersKeepMeaning`), for messages with any sections, any documents and integers of any
two widths. For the first, `MergedGets` says of `merge_sections` what the merged document
has under each key, the last sequence of that name, else what the body has, by induction
on the number of sections. Of a well-formed message this is all that was sent
(`KeptAsSent`, with `DocumentKeeps` for the checksum and the one body). The lemmas
`DocumentsTaken` to `OptionsTaken` compare what each parser takes from a document with what
it says, and `CommandTaken` puts them together. For numbers,
`IntegerRead` gives what an Int32, an Int64 and a Double of the same value are read as,
`IntegersAlike` and `ArraysAlike` that `Number`, `CursorId` and `BatchSize` cannot tell them
apart except for the range of an Int32, and `CommandsAlike` follows a replaced field through
the parsers. From the states the proof needs only that the last executed command is one of
`Commands` of its message (`RequestsInOrder`).

`QueriesProofs`: `TypeCorrect`, `Selects` (`MatchesIsSelection`), `PointReadsScan`
(`PointReadsLikeScans`), `PointFindsSame` (`PointFindsAnswer`), the four invariants of
`queries`, and `KeysTellApart` about `encode_id`; for any documents, ids and queries that nest
up to `Nesting`, any contents, skips and limits. The inductive invariant adds to `TypeOK` that
the collection has the keys of the instance's ids and that what is stored was put. Three
arguments meet:

- parsing: each of the five recursions (two of the parser, `matches`, two of the reference)
  satisfies its equation (`ParserUnfolds` and so on), because it looks only one level
  deeper; what a value of nesting *n* is parsed into nests at most 2*n* (`ParserTyped`), as
  `$not` counts twice;
- meaning: collapsing a list of predicates keeps what they match together
  (`CollapseAndMatches`), the operators that nest nothing select what they match
  (`FieldSelects`), and the rest is induction on the nesting (`FieldOpMatches`,
  `QueryMatches`). `Selects` does not depend on the reachable states;
- keys: `encode_id` is injective but for binaries (`Digits`, `KeysTellApart`), so the only
  document a predicate with one conjunct on `_id` can match is the one under that key
  (`PointHits`).

The library's induction theorems take the hypothesis as an operator, which the provers
cannot instantiate. Both modules use `Induction` instead, which is about a set of naturals
and follows from the well-foundedness of `<`; so each recursive function has its own
unfolding lemma.

`DocumentsProofs`: `TypeCorrect`, `Atomic` (`UndisturbedCommandIsAtomic`), `StopsAtAPrefix`
(`UndisturbedCommandStopsAtAPrefix`) and `UnracedMeetsQuery` (`UnracedWriteMeetsItsQuery`), for
any clients, fields, values, any finite set of integer ids and any commands, of any number
of operations. That a command ends as its operations say is not inductive: in between, the
stores differ by the copies that are still to be written. The invariant says by which
(`Pending`): on the documents the command addresses, `ideal` is the store there is with
`New` for the copies of `Doing`, those up to the first that `apply_set` refuses; its counts
are ahead by the sizes of `Doing` and `Changed`, and it has failed just when a copy will be
refused. From the next copy on the store is the one `before` the operation, which with
`Doing` makes what is there at any moment a prefix, also when the command ends in `Fail`,
with or without its last write, or in `Restart`. `Apart` is what keeps it so: no other
running command addresses the same documents, and a write stays within what its own
command addresses. `CollectIsHits` shows that `collect` copies what an operation is about,
`MinIsMin` that the next id is the smallest (`Min` of a non-empty set of integer ids, by
well-foundedness of finite sets). `UnracedMeetsQuery` needs no `Apart`: its own
invariant (`Marks`) is that a copy which is not `stale` is what the store has, and matches.

`ControlPlaneProofs`: `TypeCorrect` (no stored time lies in the future), `DeletedForGood`
and `SleepersIdle`. The invariant adds `Finite`, needed to bound the numbers of abandoned
requests and of rows being created, and `FreshIds`: a row being created has an id of its own
that no row has or had, else its statement could bring a deleted database back. Any number
of edges, databases, names, ticks and requests is covered.

`PreambleBounded` bounds the buffer of the preamble and no more: whether a line of 258 to
320 bytes is accepted depends on how TCP cuts it, which the model has (`ReadPreamble`) and
no property excludes.

Only model-checked: the liveness properties `AcquireReturnsUnlessPinned`,
`GuardsGivenBack`, `RequestsAnswered`, `ConnectionEnds` and `IdleFallsAsleep` (liveness under
fairness and `ENABLED` are out of the prover's reach). The counterexamples of section 3
are TLC's. Every other property of the passing runs is a theorem.

## 5. What is not modelled

- Listing and reading in the control plane and the HTTP status pages: they change nothing.
- The bytes of a message: BSON syntax, lengths of sections and the cstring of a
  sequence are a section that decodes or does not; reply documents and their encoding
  are the kind of reply.
- The rounding of Int64 values beyond 2^53 in comparisons, and `limit_remaining`
  starting at `i32::MIN`, which would overflow (hazard at `scan.rs:88`).
- The edge's TLS, SNI and copying of bytes, HTTP routing, configuration, the console,
  the type sources and the manifests.
- A second gateway process: the lease that would keep two apart is a stub
  (`LocalLease`), and the manifests run one replica.
- SlateDB and Postgres are external. Assumed of SlateDB: a put is atomic and durable
  when it returns, a snapshot does not change, a later open fences earlier handles. Assumed
  of Postgres: single statements are atomic.
- The memory an unfinished frame takes.

## 6. Plan

What could be added, in order of importance:

1. *Composition*: a gateway module in which connections acquire through `TenantRegistry` and
   use the `Cursors` of the AppState they got, so that `Reopen` becomes its eviction.
2. *`OpenCollection` in detail*: `db_for` with its read lock, write lock and second look.
