------------------------------ MODULE Cursors ------------------------------
(* Batched reads of one tenant (mona-db): find, getMore and killCursors on the
   CursorRegistry that all connections of the tenant share.

   find takes a snapshot, reads the first page from it and registers a cursor
   unless the page exhausts the query; getMore copies the cursor out of the
   registry, reads the next page, and then removes or updates the cursor.
   Between these steps other connections write the collections, continue or
   kill the same cursor.  A registry starts at cursor id 1 again when its
   tenant is evicted and opened anew, and when the gateway restarts.

   asked is a history variable: for every scan a find started, what it asked
   for, on which snapshot, and how often each document was sent for it.      *)
EXTENDS ScanBatch, Sequences

CONSTANTS
  Clients,      \* connections to the tenant
  Colls,        \* collections
  Keys,         \* keys of documents, a set of positive integers
  Classes,      \* classes of documents
  Preds,        \* predicates: sets of classes
  Skips, Limits, BatchSizes,  \* the numbers a client may put into a request
  MaxFinds,     \* bound on the scans started
  MaxWrites,    \* bound on the writes
  MaxReopens,   \* bound on evictions and restarts
  NoOp          \* the client waits for no reply

ASSUME KeysAssumption == Keys \subseteq Nat \ {0} /\ IsFiniteSet(Keys)
ASSUME ClassesAssumption == Absent \notin Classes /\ \A P \in Preds : P \subseteq Classes
ASSUME NumbersAssumption ==
  /\ NoLimit \notin Int
  /\ Skips \subseteq Int /\ BatchSizes \subseteq Int /\ Limits \subseteq Int \cup {NoLimit}
  /\ MaxFinds \in Nat /\ MaxWrites \in Nat /\ MaxReopens \in Nat

VARIABLES
  store,        \* [Colls -> [Keys -> Classes \cup {Absent}]]
  nextId,       \* CursorRegistry.next_id
  cursors,      \* CursorRegistry.cursors: id -> CursorState
  op,           \* what each client's request has read so far
  removed,       \* history: <<reopens, id>> a killCursors reply reported removed
  asked,        \* history: the scans
  writes, reopens

vars == <<store, nextId, cursors, op, removed, asked, writes, reopens>>

DEFAULT_BATCH_SIZE == 101

\* parse_batch_size: omitted is the same as zero
BatchSize(n) == IF n = 0 THEN DEFAULT_BATCH_SIZE ELSE n

CursorState(coll, snapshot, pred, last, limit, batchSize, scan) ==
  [coll |-> coll, snapshot |-> snapshot, pred |-> pred, last |-> last,
   limit |-> limit, batchSize |-> batchSize, scan |-> scan]

SetCursor(id, c) ==
  cursors' = [i \in DOMAIN cursors \cup {id} |-> IF i = id THEN c ELSE cursors[i]]

DropCursors(ids) == cursors' = [i \in DOMAIN cursors \ ids |-> cursors[i]]

Scans == DOMAIN asked

\* history of scan g after a page was sent
Sent(a, page, cut) ==
  [a EXCEPT !.sent = [k \in Keys |-> IF k \in page.docs THEN @[k] + 1 ELSE @[k]],
            !.ended = @ \/ page.exhausted,
            !.cut = @ \/ cut]

-----------------------------------------------------------------------------
Init ==
  /\ store \in [Colls -> [Keys -> Classes \cup {Absent}]]
  /\ nextId = 1
  /\ cursors = [i \in {} |-> NoOp]
  /\ op = [c \in Clients |-> NoOp]
  /\ removed = {}
  /\ asked = <<>>
  /\ writes = 0
  /\ reopens = 0

\* some connection puts or deletes a document
Write(coll, k, v) ==
  /\ writes < MaxWrites
  /\ store[coll][k] # v
  /\ store' = [store EXCEPT ![coll][k] = v]
  /\ writes' = writes + 1
  /\ UNCHANGED <<nextId, cursors, op, removed, asked, reopens>>

\* the snapshot and the first page: later writes do not show in it
FindScan(c, coll, pred, skip, limit, n) ==
  /\ op[c] = NoOp /\ Len(asked) < MaxFinds
  /\ LET page == Scan(store[coll], pred, Start, skip, BatchSize(n), limit)
     IN  op' = [op EXCEPT ![c] =
           [kind |-> "find", page |-> page, cut |-> BatchSize(n) < 0,
            cursor |-> CursorState(coll, store[coll], pred, page.last, page.limit,
                                   BatchSize(n), Len(asked) + 1)]]
  /\ asked' = Append(asked,
       [snapshot |-> store[coll], pred |-> pred, skip |-> skip, limit |-> limit,
        sent |-> [k \in Keys |-> 0], ended |-> FALSE, cut |-> FALSE, shared |-> FALSE])
  /\ UNCHANGED <<store, nextId, cursors, removed, writes, reopens>>

\* broken: registers under the next id without counting it up
FindReplyReusesId(c) ==
  /\ op[c] # NoOp /\ op[c].kind = "find"
  /\ IF op[c].page.exhausted THEN UNCHANGED cursors ELSE SetCursor(nextId, op[c].cursor)
  /\ LET g == op[c].cursor.scan IN asked' = [asked EXCEPT ![g] = Sent(@, op[c].page, op[c].cut)]
  /\ op' = [op EXCEPT ![c] = NoOp]
  /\ UNCHANGED <<store, nextId, removed, writes, reopens>>

FindReply(c) ==
  /\ op[c] # NoOp /\ op[c].kind = "find"
  /\ IF op[c].page.exhausted
       THEN UNCHANGED <<nextId, cursors>>
       ELSE /\ SetCursor(nextId, op[c].cursor)
            /\ nextId' = nextId + 1
  /\ LET g == op[c].cursor.scan IN asked' = [asked EXCEPT ![g] = Sent(@, op[c].page, op[c].cut)]
  /\ op' = [op EXCEPT ![c] = NoOp]
  /\ UNCHANGED <<store, removed, writes, reopens>>

\* getMore copies the CursorState; an unknown id, or an id of another
\* collection, is answered with CursorNotFound at once
GetMoreStart(c, id, coll, n) ==
  /\ op[c] = NoOp
  /\ id \in DOMAIN cursors /\ cursors[id].coll = coll
  /\ op' = [op EXCEPT ![c] =
       [kind |-> "getMore", id |-> id, cursor |-> cursors[id], batchSize |-> n]]
  /\ LET g == cursors[id].scan
         busy == \E d \in Clients : op[d] # NoOp /\ op[d].cursor.scan = g
     IN  asked' = [asked EXCEPT ![g].shared = @ \/ busy]
  /\ UNCHANGED <<store, nextId, cursors, removed, writes, reopens>>

\* broken: counts the page against the limit the cursor has by now
UpdateCursorLate(id, page, before) ==
  IF id \in DOMAIN cursors
    THEN SetCursor(id, [cursors[id] EXCEPT !.last = page.last,
                          !.limit = IF @ = NoLimit THEN @ ELSE @ - Cardinality(page.docs)])
    ELSE UNCHANGED cursors

\* broken: inserts the copy the getMore works on
UpdateCursorInserts(id, page, before) ==
  SetCursor(id, [before EXCEPT !.last = page.last, !.limit = page.limit])

\* CursorRegistry::update, for a cursor that was not removed meanwhile
UpdateCursor(id, page, before) ==
  IF id \in DOMAIN cursors
    THEN SetCursor(id, [cursors[id] EXCEPT !.last = page.last, !.limit = page.limit])
    ELSE UNCHANGED cursors

\* the page, then take or update, and the reply
GetMoreReply(c) ==
  /\ op[c] # NoOp /\ op[c].kind = "getMore"
  /\ LET s == op[c].cursor
         n == Max({0, op[c].batchSize})
         page == Scan(s.snapshot, s.pred, s.last, 0, n, s.limit)
     IN  /\ IF page.exhausted
              THEN /\ DropCursors({op[c].id})
                   /\ removed' = removed \cup {<<reopens, op[c].id>>}
              ELSE /\ UpdateCursor(op[c].id, page, s)
                   /\ UNCHANGED removed
         /\ asked' = [asked EXCEPT ![s.scan] = Sent(@, page, n = 0)]
  /\ op' = [op EXCEPT ![c] = NoOp]
  /\ UNCHANGED <<store, nextId, writes, reopens>>

\* killCursors does not look at the collection it names
KillCursors(c, ids) ==
  /\ op[c] = NoOp
  /\ ids \cap DOMAIN cursors # {}
  /\ DropCursors(ids)
  /\ removed' = removed \cup {<<reopens, id>> : id \in ids \cap DOMAIN cursors}
  /\ UNCHANGED <<store, nextId, op, asked, writes, reopens>>

\* the tenant, idle and without cursors, is evicted and opened again
Reopen ==
  /\ reopens < MaxReopens
  /\ cursors = [i \in {} |-> NoOp] /\ \A c \in Clients : op[c] = NoOp
  /\ nextId' = 1
  /\ reopens' = reopens + 1
  /\ UNCHANGED <<store, cursors, op, removed, asked, writes>>

\* the gateway restarts: cursors and requests under way are lost
Restart ==
  /\ reopens < MaxReopens
  /\ nextId' = 1
  /\ DropCursors(DOMAIN cursors)
  /\ op' = [c \in Clients |-> NoOp]
  /\ reopens' = reopens + 1
  /\ UNCHANGED <<store, removed, asked, writes>>

Find(c) ==
  \E coll \in Colls, pred \in Preds, skip \in Skips, limit \in Limits, n \in BatchSizes :
    FindScan(c, coll, pred, skip, limit, n)

\* without batchSize a getMore uses the one of the find
GetMore(c) ==
  \E id \in DOMAIN cursors, coll \in Colls :
    \E n \in {BatchSize(m) : m \in BatchSizes} \cup {cursors[id].batchSize} :
      GetMoreStart(c, id, coll, n)

Next ==
  \/ \E coll \in Colls, k \in Keys, v \in Classes \cup {Absent} : Write(coll, k, v)
  \/ \E c \in Clients :
       \/ Find(c) \/ FindReply(c) \/ GetMore(c) \/ GetMoreReply(c)
       \/ \E ids \in SUBSET DOMAIN cursors : KillCursors(c, ids)
  \/ Reopen \/ Restart

Spec == Init /\ [][Next]_vars

-----------------------------------------------------------------------------
(* Properties.                                                               *)
PageType ==
  [docs : SUBSET Keys, last : Keys \cup {Start}, exhausted : BOOLEAN, limit : Int \cup {NoLimit}]

CursorType ==
  [coll : Colls, snapshot : [Keys -> Classes \cup {Absent}], pred : Preds,
   last : Keys \cup {Start}, limit : Int \cup {NoLimit}, batchSize : Int, scan : Scans]

TypeOK ==
  /\ store \in [Colls -> [Keys -> Classes \cup {Absent}]]
  /\ nextId \in Nat \ {0}
  /\ \A id \in DOMAIN cursors : id \in 1 .. (nextId - 1) /\ cursors[id] \in CursorType
  /\ \A c \in Clients : op[c] # NoOp =>
       \/ op[c] \in [kind : {"find"}, page : PageType, cut : BOOLEAN, cursor : CursorType]
       \/ op[c] \in [kind : {"getMore"}, id : Nat, cursor : CursorType, batchSize : Int]
  /\ removed \subseteq (0 .. MaxReopens) \X Nat
  /\ writes \in 0 .. MaxWrites /\ reopens \in 0 .. MaxReopens

Wanted(g) == Answer(asked[g].snapshot, asked[g].pred, asked[g].skip, asked[g].limit)

SentKeys(g) == {k \in Keys : asked[g].sent[k] > 0}

\* Used by one client at a time, as drivers use them, the pages of a query
\* are exactly its answer on the snapshot of the find: no document twice, none
\* left out before a later one, none beyond skip and limit, whatever the page
\* sizes and whatever is written meanwhile; when the cursor is exhausted
\* (id 0) the answer is complete.  Only a negative batchSize cuts it short.
PagesAreTheAnswer ==
  \A g \in Scans : ~asked[g].shared =>
    /\ \A k \in SentKeys(g) : asked[g].sent[k] = 1
    /\ SentKeys(g) \subseteq Wanted(g)
    /\ \A k \in SentKeys(g), j \in Wanted(g) : j < k => j \in SentKeys(g)
    /\ asked[g].ended /\ ~asked[g].cut => SentKeys(g) = Wanted(g)

\* However getMores on one cursor overlap with each other and with kills: what
\* lies behind a cursor's position was sent, and limit_remaining is what the
\* limit leaves for the documents beyond it.
PositionFitsLimit ==
  \A id \in DOMAIN cursors :
    LET s == cursors[id]
        behind == {k \in Wanted(s.scan) : k <= s.last}
    IN  /\ behind \subseteq SentKeys(s.scan)
        /\ s.limit = IF asked[s.scan].limit = NoLimit THEN NoLimit
                     ELSE asked[s.scan].limit - Cardinality(behind)

\* Overlapping getMores may repeat documents, but a query that is reported
\* exhausted has sent its whole answer.
NoDocumentSkipped ==
  \A g \in Scans : asked[g].ended /\ ~asked[g].cut => Wanted(g) \subseteq SentKeys(g)

\* A find with a limit sends at most that many documents, over all its pages.
LimitRespected ==
  \A g \in Scans : ~Unlimited(asked[g].limit) =>
    SumFunction(asked[g].sent) <= asked[g].limit

\* Until the tenant is opened anew, a cursor that a killCursors reported killed,
\* or a getMore exhausted (cursor id 0), stays gone: another getMore that was
\* reading from it does not put it back.
RemovedStaysRemoved == \A id \in DOMAIN cursors : <<reopens, id>> \notin removed
=============================================================================
