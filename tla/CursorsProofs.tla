---------------------------- MODULE CursorsProofs ----------------------------
(* Proofs, for any clients, collections, keys, predicates and request numbers,
   of the properties of Cursors that hold: what the pages of a query add up to.

   The inductive invariant follows every CursorState, in the registry or copied
   out of it, back to the find it comes from: its position is one from which
   the query can go on, and what lies behind it was sent (Reads).  A find that
   has not replied yet holds the first page of its answer and nothing of it was
   sent (Opens).  A scan has one cursor at most, and a getMore under way is on
   the cursor of its scan (ScansApart).  As long as a scan is not shared by
   overlapping requests, what was sent is exactly what lies behind its cursor
   (Alone).                                                                  *)
EXTENDS Cursors, ScanBatchProofs, SequenceTheorems

\* the entries of asked
Question(a) == Answer(a.snapshot, a.pred, a.skip, a.limit)
Given(a) == {k \in Keys : a.sent[k] > 0}

AskedType ==
  [snapshot : [Keys -> Classes \cup {Absent}], pred : Preds, skip : Int, limit : Int \cup {NoLimit},
   sent : [Keys -> Nat], ended : BOOLEAN, cut : BOOLEAN, shared : BOOLEAN]

\* h is the history, s a CursorState
Reads(h, s) ==
  /\ s.scan \in DOMAIN h
  /\ s.snapshot = h[s.scan].snapshot /\ s.pred = h[s.scan].pred
  /\ Position(s.snapshot, s.pred, h[s.scan].skip, h[s.scan].limit, s.last, s.limit)
  /\ UpTo(Question(h[s.scan]), s.last) \subseteq Given(h[s.scan])

\* o is a find that has not replied, a the entry of its scan
Opens(a, o) ==
  /\ o.cursor.snapshot = a.snapshot /\ o.cursor.pred = a.pred
  /\ Given(a) = {}
  /\ o.page.docs \subseteq Question(a)
  /\ \A k \in o.page.docs, j \in Question(a) : j < k => j \in o.page.docs
  /\ o.page.exhausted /\ ~o.cut => Question(a) = o.page.docs
  /\ ~o.page.exhausted =>
       /\ Position(a.snapshot, a.pred, a.skip, a.limit, o.cursor.last, o.cursor.limit)
       /\ UpTo(Question(a), o.cursor.last) = o.page.docs

IsFind(o) == o # NoOp /\ o.kind = "find"
IsGetMore(o) == o # NoOp /\ o.kind = "getMore"

CursorsRead == \A id \in DOMAIN cursors : Reads(asked, cursors[id])

OpsRead ==
  \A c \in Clients :
    /\ IsFind(op[c]) => op[c].cursor.scan \in DOMAIN asked /\ Opens(asked[op[c].cursor.scan], op[c])
    /\ IsGetMore(op[c]) => Reads(asked, op[c].cursor)

ScansApart ==
  /\ \A i, j \in DOMAIN cursors : cursors[i].scan = cursors[j].scan => i = j
  /\ \A c \in Clients : IsFind(op[c]) =>
       /\ \A i \in DOMAIN cursors : cursors[i].scan # op[c].cursor.scan
       /\ \A d \in Clients : op[d] # NoOp /\ op[d].cursor.scan = op[c].cursor.scan => d = c
  /\ \A c \in Clients : IsGetMore(op[c]) =>
       /\ op[c].id < nextId
       /\ \A i \in DOMAIN cursors : i = op[c].id <=> cursors[i].scan = op[c].cursor.scan

Alone ==
  \A g \in DOMAIN asked : ~asked[g].shared =>
    /\ \A c, d \in Clients : op[c] # NoOp /\ op[d] # NoOp
                             /\ op[c].cursor.scan = g /\ op[d].cursor.scan = g => c = d
    /\ \A i \in DOMAIN cursors : cursors[i].scan = g =>
         Given(asked[g]) = UpTo(Question(asked[g]), cursors[i].last)
    /\ \A c \in Clients : IsGetMore(op[c]) /\ op[c].cursor.scan = g =>
         Given(asked[g]) = UpTo(Question(asked[g]), op[c].cursor.last)

\* an entry of asked that keeps the promises of the query
Whole(a) == a.ended /\ ~a.cut => Question(a) \subseteq Given(a)
InOrder(a) ==
  ~a.shared => /\ \A k \in Given(a) : a.sent[k] = 1
               /\ Given(a) \subseteq Question(a)
               /\ \A k \in Given(a), j \in Question(a) : j < k => j \in Given(a)

Kept == \A g \in DOMAIN asked : Whole(asked[g]) /\ InOrder(asked[g])

RemovedOld == \A i \in Nat : <<reopens, i>> \in removed => i < nextId /\ i \notin DOMAIN cursors
RemovedBefore == \A r \in Nat, i \in Nat : <<r, i>> \in removed => r <= reopens

Typed == TypeOK /\ DOMAIN op = Clients /\ asked \in Seq(AskedType)

IInv ==
  /\ Typed /\ CursorsRead /\ OpsRead /\ ScansApart /\ Alone /\ Kept
  /\ RemovedOld /\ RemovedBefore

-----------------------------------------------------------------------------
(* The history.                                                              *)
\* A page that was sent: its documents count once more, and nothing else changes.
LEMMA SentFacts ==
  ASSUME NEW a \in AskedType, NEW page \in PageType, NEW cut \in BOOLEAN, NEW b, b = Sent(a, page, cut)
  PROVE  /\ b \in AskedType
         /\ b.snapshot = a.snapshot /\ b.pred = a.pred /\ b.skip = a.skip /\ b.limit = a.limit
         /\ Question(b) = Question(a)
         /\ b.shared = a.shared
         /\ b.ended = (a.ended \/ page.exhausted)
         /\ b.cut = (a.cut \/ cut)
         /\ Given(b) = Given(a) \cup page.docs
         /\ \A k \in Keys : b.sent[k] = IF k \in page.docs THEN a.sent[k] + 1 ELSE a.sent[k]
<1>1. /\ page.docs \subseteq Keys /\ page.exhausted \in BOOLEAN
      /\ \A k \in Keys : a.sent[k] \in Nat
  BY DEF PageType, AskedType
<1>2. /\ b.snapshot = a.snapshot /\ b.pred = a.pred /\ b.skip = a.skip /\ b.limit = a.limit
      /\ b.shared = a.shared /\ b.ended = (a.ended \/ page.exhausted) /\ b.cut = (a.cut \/ cut)
      /\ b.sent = [k \in Keys |-> IF k \in page.docs THEN a.sent[k] + 1 ELSE a.sent[k]]
  BY DEF Sent, AskedType
<1>3. b \in AskedType
  <2>1. b.sent \in [Keys -> Nat]
    BY <1>1, <1>2
  <2>2. b = [a EXCEPT !.sent = b.sent, !.ended = b.ended, !.cut = b.cut]
    BY DEF Sent, AskedType
  <2>3. b.ended \in BOOLEAN /\ b.cut \in BOOLEAN
    BY <1>2, Zenon
  <2> HIDE DEF Sent
  <2> QED BY <2>1, <2>2, <2>3 DEF AskedType
<1>4. \A k \in Keys : b.sent[k] = IF k \in page.docs THEN a.sent[k] + 1 ELSE a.sent[k]
  BY <1>2
<1>5. Given(b) = Given(a) \cup page.docs
  <2>1. \A k \in Keys : b.sent[k] > 0 <=> a.sent[k] > 0 \/ k \in page.docs
    BY <1>1, <1>4
  <2> QED BY <1>1, <2>1, Zenon DEF Given
<1>6. Question(b) = Question(a)
  BY <1>2, Zenon DEF Question
<1> QED BY <1>2, <1>3, <1>4, <1>5, <1>6

\* No scan is forgotten or changed, and what was sent stays sent.
Grows(h, i) ==
  \A g \in DOMAIN h :
    /\ g \in DOMAIN i
    /\ i[g].snapshot = h[g].snapshot /\ i[g].pred = h[g].pred
    /\ i[g].skip = h[g].skip /\ i[g].limit = h[g].limit
    /\ Given(h[g]) \subseteq Given(i[g])

LEMMA ReadsKept ==
  ASSUME NEW h, NEW i, Grows(h, i), NEW s, Reads(h, s)
  PROVE  Reads(i, s)
<1>1. /\ s.scan \in DOMAIN h /\ s.scan \in DOMAIN i
      /\ i[s.scan].snapshot = h[s.scan].snapshot /\ i[s.scan].pred = h[s.scan].pred
      /\ i[s.scan].skip = h[s.scan].skip /\ i[s.scan].limit = h[s.scan].limit
      /\ Given(h[s.scan]) \subseteq Given(i[s.scan])
  BY DEF Grows, Reads
<1>2. Question(i[s.scan]) = Question(h[s.scan])
  BY <1>1, Zenon DEF Question
<1> QED BY <1>1, <1>2 DEF Reads

LEMMA OpensKept ==
  ASSUME NEW a, NEW b, NEW o, Opens(a, o), Given(b) = {},
         b.snapshot = a.snapshot, b.pred = a.pred, b.skip = a.skip, b.limit = a.limit
  PROVE  Opens(b, o)
<1>1. Question(b) = Question(a)
  BY Zenon DEF Question
<1> QED BY <1>1, Zenon DEF Opens

\* The entry of one scan is replaced.
LEMMA AskedReplaced ==
  ASSUME asked \in Seq(AskedType), NEW g \in DOMAIN asked, NEW b \in AskedType,
         asked' = [asked EXCEPT ![g] = b]
  PROVE  /\ asked' \in Seq(AskedType) /\ DOMAIN asked' = DOMAIN asked
         /\ asked'[g] = b
         /\ \A h \in DOMAIN asked : h # g => asked'[h] = asked[h]
<1>1. DOMAIN asked = 1 .. Len(asked)
  BY LenProperties
<1>2. asked' \in Seq(AskedType)
  BY <1>1, ExceptSeq
<1> QED BY <1>2

-----------------------------------------------------------------------------
(* Initial states, and the steps that only end things.                       *)
LEMMA InitInvariant == Init => IInv
<1> SUFFICES ASSUME Init PROVE IInv
  OBVIOUS
<1>1. DOMAIN asked = {} /\ asked \in Seq(AskedType)
  BY EmptySeq DEF Init
<1>2. DOMAIN cursors = {} /\ removed = {} /\ nextId = 1 /\ reopens = 0 /\ writes = 0
  BY DEF Init
<1>3. DOMAIN op = Clients /\ \A c \in Clients : op[c] = NoOp
  BY DEF Init
<1>4. TypeOK
  BY <1>1, <1>2, <1>3, NumbersAssumption DEF Init, TypeOK
<1> QED BY <1>1, <1>2, <1>3, <1>4 DEF IInv, Typed, CursorsRead, OpsRead, ScansApart, Alone, Kept,
                                    RemovedOld, RemovedBefore, IsFind, IsGetMore

\* A step that asks nothing, sends nothing and only ends cursors and requests.
LEMMA EndingKeeps ==
  ASSUME CursorsRead, OpsRead, ScansApart, Alone, Kept, asked' = asked,
         DOMAIN cursors' \subseteq DOMAIN cursors,
         \A i \in DOMAIN cursors' : cursors'[i] = cursors[i],
         \A c \in Clients : op'[c] = NoOp \/ (op'[c] = op[c] /\ nextId' = nextId)
  PROVE  CursorsRead' /\ OpsRead' /\ ScansApart' /\ Alone' /\ Kept'
<1>1. CursorsRead'
  BY DEF CursorsRead
<1>2. OpsRead'
  BY DEF OpsRead, IsFind, IsGetMore
<1>3. ScansApart'
  BY DEF ScansApart, IsFind, IsGetMore
<1>4. Alone'
  BY DEF Alone, IsFind, IsGetMore
<1>5. Kept'
  BY DEF Kept
<1> QED BY <1>1, <1>2, <1>3, <1>4, <1>5

LEMMA WriteStep ==
  ASSUME IInv, NEW coll \in Colls, NEW k \in Keys, NEW v \in Classes \cup {Absent}, Write(coll, k, v)
  PROVE  IInv'
<1>1. /\ asked' = asked /\ cursors' = cursors /\ op' = op /\ nextId' = nextId /\ removed' = removed
      /\ reopens' = reopens /\ writes' = writes + 1 /\ writes < MaxWrites
      /\ store' = [store EXCEPT ![coll][k] = v]
  BY DEF Write
<1>2. Typed'
  <2>1. CursorType' = CursorType
    BY <1>1 DEF CursorType, Scans
  <2>2. store' \in [Colls -> [Keys -> Classes \cup {Absent}]]
    BY <1>1 DEF IInv, Typed, TypeOK
  <2>3. writes' \in 0 .. MaxWrites
    BY <1>1, NumbersAssumption DEF IInv, Typed, TypeOK
  <2> QED BY <1>1, <2>1, <2>2, <2>3 DEF IInv, Typed, TypeOK
<1>3. CursorsRead' /\ OpsRead' /\ ScansApart' /\ Alone' /\ Kept'
  BY <1>1, EndingKeeps DEF IInv
<1> QED BY <1>1, <1>2, <1>3 DEF IInv, RemovedOld, RemovedBefore

LEMMA KillStep ==
  ASSUME IInv, NEW c \in Clients, NEW ids \in SUBSET DOMAIN cursors, KillCursors(c, ids)
  PROVE  IInv'
<1>1. /\ asked' = asked /\ op' = op /\ nextId' = nextId /\ reopens' = reopens /\ writes' = writes
      /\ store' = store
      /\ removed' = removed \cup {<<reopens, id>> : id \in ids \cap DOMAIN cursors}
      /\ DOMAIN cursors' = DOMAIN cursors \ ids
      /\ \A i \in DOMAIN cursors' : cursors'[i] = cursors[i]
  BY DEF KillCursors, DropCursors
<1>2. \A id \in DOMAIN cursors : id \in Nat /\ id < nextId
  BY DEF IInv, Typed, TypeOK
<1>3. reopens \in Nat /\ reopens \in 0 .. MaxReopens
  BY DEF IInv, Typed, TypeOK
<1>4. Typed'
  <2>1. removed' \subseteq (0 .. MaxReopens) \X Nat
    BY <1>1, <1>2, <1>3 DEF IInv, Typed, TypeOK
  <2>2. CursorType' = CursorType
    BY <1>1 DEF CursorType, Scans
  <2> QED BY <1>1, <2>1, <2>2 DEF IInv, Typed, TypeOK
<1>5. CursorsRead' /\ OpsRead' /\ ScansApart' /\ Alone' /\ Kept'
  BY <1>1, EndingKeeps DEF IInv
<1>6. RemovedOld'
  BY <1>1, <1>2 DEF IInv, RemovedOld
<1>7. RemovedBefore'
  BY <1>1, <1>3 DEF IInv, RemovedBefore
<1> QED BY <1>4, <1>5, <1>6, <1>7 DEF IInv

\* The registry starts anew: every cursor and every request is gone.
LEMMA AnewStep ==
  ASSUME IInv, Reopen \/ Restart
  PROVE  IInv'
<1>1. /\ asked' = asked /\ nextId' = 1 /\ reopens' = reopens + 1 /\ reopens < MaxReopens
      /\ writes' = writes /\ removed' = removed /\ store' = store
      /\ DOMAIN cursors' = {} /\ DOMAIN op' = Clients /\ \A c \in Clients : op'[c] = NoOp
  BY DEF Reopen, Restart, DropCursors, IInv, Typed
<1>2. Typed'
  BY <1>1, NumbersAssumption DEF IInv, Typed, TypeOK
<1>3. CursorsRead' /\ OpsRead' /\ ScansApart' /\ Alone' /\ Kept'
  BY <1>1, EndingKeeps DEF IInv
<1>4. \A i \in Nat : <<reopens', i>> \notin removed'
  BY <1>1, NumbersAssumption DEF IInv, Typed, TypeOK, RemovedBefore
<1>5. RemovedOld' /\ RemovedBefore'
  <2>1. RemovedOld'
    BY <1>4 DEF RemovedOld
  <2>2. RemovedBefore'
    BY <1>1 DEF IInv, Typed, TypeOK, RemovedBefore
  <2> QED BY <2>1, <2>2
<1> QED BY <1>2, <1>3, <1>5 DEF IInv

-----------------------------------------------------------------------------
(* find.                                                                     *)
\* The first page, from the collection as it is now.
LEMMA FindPage ==
  ASSUME IInv, NEW coll \in Colls, NEW pred \in Preds, NEW skip \in Skips, NEW limit \in Limits,
         NEW n \in BatchSizes,
         NEW page, page = Scan(store[coll], pred, Start, skip, BatchSize(n), limit)
  PROVE  /\ page \in PageType
         /\ PageOf(store[coll], pred, skip, limit, Start, BatchSize(n), page)
         /\ BatchSize(n) \in Int
<1>1. BatchSize(n) \in Int /\ skip \in Int /\ limit \in Int \cup {NoLimit} /\ NoLimit \notin Int
  BY NumbersAssumption DEF BatchSize, DEFAULT_BATCH_SIZE
<1>2. DOMAIN store[coll] = Keys /\ IsFiniteSet(Keys) /\ Keys \subseteq Nat \ {0}
  BY KeysAssumption DEF IInv, Typed, TypeOK
<1>3. PageOf(store[coll], pred, skip, limit, Start, BatchSize(n), page)
  BY <1>1, <1>2, FirstPage
<1>4. page \in PageType
  BY <1>2, <1>3 DEF PageOf, PageType
<1> QED BY <1>1, <1>3, <1>4

\* What the kinds of operations are, and where their scans are.
LEMMA OpKinds ==
  ASSUME IInv, NEW c \in Clients, op[c] # NoOp
  PROVE  /\ op[c].cursor \in CursorType /\ op[c].cursor.scan \in DOMAIN asked
         /\ \/ IsFind(op[c]) /\ ~IsGetMore(op[c]) /\ op[c].page \in PageType /\ op[c].cut \in BOOLEAN
            \/ IsGetMore(op[c]) /\ ~IsFind(op[c]) /\ op[c].id \in Nat /\ op[c].batchSize \in Int
<1>1. \/ op[c] \in [kind : {"find"}, page : PageType, cut : BOOLEAN, cursor : CursorType]
      \/ op[c] \in [kind : {"getMore"}, id : Nat, cursor : CursorType, batchSize : Int]
  BY DEF IInv, Typed, TypeOK
<1>2. CASE op[c] \in [kind : {"find"}, page : PageType, cut : BOOLEAN, cursor : CursorType]
  BY <1>2 DEF IsFind, IsGetMore, CursorType, Scans
<1>3. CASE op[c] \in [kind : {"getMore"}, id : Nat, cursor : CursorType, batchSize : Int]
  BY <1>3 DEF IsFind, IsGetMore, CursorType, Scans
<1> QED BY <1>1, <1>2, <1>3

\* What a find finds on the collection of the moment opens its scan.
LEMMA FirstPageOpens ==
  ASSUME NEW snap, NEW pred, NEW skip, NEW limit, NEW n \in Int, n # 0,
         NEW page \in PageType, PageOf(snap, pred, skip, limit, Start, n, page),
         DOMAIN snap \subseteq Keys,
         NEW a, a.snapshot = snap, a.pred = pred, a.skip = skip, a.limit = limit, Given(a) = {},
         NEW o, o.page = page, o.cut = (n < 0), o.cursor.snapshot = snap, o.cursor.pred = pred,
         o.cursor.last = page.last, o.cursor.limit = page.limit
  PROVE  Opens(a, o)
<1> DEFINE W == Question(a)
<1>1. W = Answer(snap, pred, skip, limit)
  BY DEF Question
<1>2. \A k \in W : k > Start /\ ~(k <= Start)
  <2>1. \A k \in W : k \in Keys
    BY <1>1 DEF Answer, Present
  <2>2. \A k \in Keys : k > Start /\ ~(k <= Start)
    BY KeysAssumption DEF Start
  <2> QED BY <2>1, <2>2
<1>3. Beyond(W, Start) = W /\ UpTo(W, Start) = {}
  BY <1>2, Zenon DEF Beyond, UpTo
<1>4. /\ Continues(page, W, Start)
      /\ page.exhausted /\ n > 0 => W = UpTo(W, Start) \cup page.docs
      /\ ~page.exhausted => Position(snap, pred, skip, limit, page.last, page.limit)
  BY <1>1, Zenon DEF PageOf
<1> HIDE DEF W
<1>5. /\ page.docs \subseteq W
      /\ \A k \in page.docs, j \in W : j < k => j \in page.docs
      /\ ~page.exhausted => UpTo(W, page.last) = page.docs
  BY <1>3, <1>4 DEF Continues
<1>6. page.exhausted /\ ~(n < 0) => W = page.docs
  BY <1>3, <1>4
<1> QED BY <1>4, <1>5, <1>6, Zenon DEF Opens, W

LEMMA FindScanStep ==
  ASSUME IInv, NEW c \in Clients, NEW coll \in Colls, NEW pred \in Preds, NEW skip \in Skips,
         NEW limit \in Limits, NEW n \in BatchSizes, FindScan(c, coll, pred, skip, limit, n)
  PROVE  IInv'
<1> DEFINE page == Scan(store[coll], pred, Start, skip, BatchSize(n), limit)
           g == Len(asked) + 1
           a == [snapshot |-> store[coll], pred |-> pred, skip |-> skip, limit |-> limit,
                 sent |-> [k \in Keys |-> 0], ended |-> FALSE, cut |-> FALSE, shared |-> FALSE]
           cur == CursorState(coll, store[coll], pred, page.last, page.limit, BatchSize(n), g)
           o == [kind |-> "find", page |-> page, cut |-> BatchSize(n) < 0, cursor |-> cur]
<1>1. /\ op[c] = NoOp /\ op' = [op EXCEPT ![c] = o] /\ asked' = Append(asked, a)
      /\ store' = store /\ nextId' = nextId /\ cursors' = cursors /\ removed' = removed
      /\ writes' = writes /\ reopens' = reopens
  BY Zenon DEF FindScan
<1>2. /\ page \in PageType
      /\ PageOf(store[coll], pred, skip, limit, Start, BatchSize(n), page)
      /\ BatchSize(n) \in Int
  BY FindPage
<1>3. /\ store[coll] \in [Keys -> Classes \cup {Absent}] /\ skip \in Int /\ limit \in Int \cup {NoLimit}
      /\ Len(asked) \in Nat /\ DOMAIN asked = 1 .. Len(asked) /\ asked \in Seq(AskedType)
      /\ DOMAIN op = Clients
  BY NumbersAssumption, LenProperties DEF IInv, Typed, TypeOK
<1>4. a \in AskedType
  BY <1>3 DEF AskedType
<1>5. Given(a) = {}
  BY DEF Given
<1> HIDE DEF page
<1>6. cur \in [coll : Colls, snapshot : [Keys -> Classes \cup {Absent}], pred : Preds,
               last : Keys \cup {Start}, limit : Int \cup {NoLimit}, batchSize : Int, scan : {g}]
  BY <1>2, <1>3 DEF CursorState, PageType
<1>7. Opens(a, o)
  <2>1. BatchSize(n) # 0
    BY DEF BatchSize, DEFAULT_BATCH_SIZE
  <2>2. /\ o.page = page /\ o.cut = (BatchSize(n) < 0)
        /\ o.cursor.snapshot = store[coll] /\ o.cursor.pred = pred
        /\ o.cursor.last = page.last /\ o.cursor.limit = page.limit
    BY DEF CursorState
  <2>3. DOMAIN store[coll] \subseteq Keys
    BY <1>3
  <2>4. a.snapshot = store[coll] /\ a.pred = pred /\ a.skip = skip /\ a.limit = limit
    OBVIOUS
  <2> HIDE DEF a, o
  <2> QED BY <1>2, <1>5, <2>1, <2>2, <2>3, <2>4, FirstPageOpens
<1>8. o.kind = "find" /\ o.cursor = cur /\ o.page = page /\ cur.scan = g /\ o.cut \in BOOLEAN
  BY DEF CursorState
<1>9. a.shared = FALSE /\ a.ended = FALSE
  OBVIOUS
<1> HIDE DEF a, cur
<1>10. /\ asked' \in Seq(AskedType) /\ DOMAIN asked' = DOMAIN asked \cup {g} /\ g \notin DOMAIN asked
       /\ asked'[g] = a /\ \A h \in DOMAIN asked : asked'[h] = asked[h]
  <2>1. /\ asked' \in Seq(AskedType) /\ Len(asked') = g
        /\ \A h \in 1 .. Len(asked) : asked'[h] = asked[h]
        /\ asked'[g] = a
    BY <1>1, <1>3, <1>4, AppendProperties
  <2>2. DOMAIN asked' = 1 .. g
    BY <2>1, LenProperties
  <2> QED BY <1>3, <2>1, <2>2
<1> HIDE DEF o, g
<1>11. op'[c] = o /\ DOMAIN op' = Clients /\ \A d \in Clients : d # c => op'[d] = op[d]
  BY <1>1, <1>3
<1>12. Grows(asked, asked')
  BY <1>10 DEF Grows
<1>13. Typed'
  <2>1. CursorType \subseteq CursorType' /\ cur \in CursorType'
    BY <1>6, <1>10 DEF CursorType, Scans
  <2>2. \A d \in Clients : op'[d] # NoOp =>
          \/ op'[d] \in [kind : {"find"}, page : PageType, cut : BOOLEAN, cursor : CursorType']
          \/ op'[d] \in [kind : {"getMore"}, id : Nat, cursor : CursorType', batchSize : Int]
    <3>1. op'[c] \in [kind : {"find"}, page : PageType, cut : BOOLEAN, cursor : CursorType']
      BY <1>2, <1>11, <2>1 DEF o
    <3>2. ASSUME NEW d \in Clients, d # c, op'[d] # NoOp
          PROVE  \/ op'[d] \in [kind : {"find"}, page : PageType, cut : BOOLEAN, cursor : CursorType']
                 \/ op'[d] \in [kind : {"getMore"}, id : Nat, cursor : CursorType', batchSize : Int]
      <4>1. op'[d] = op[d]
        BY <1>11, <3>2
      <4>2. \/ op[d] \in [kind : {"find"}, page : PageType, cut : BOOLEAN, cursor : CursorType]
            \/ op[d] \in [kind : {"getMore"}, id : Nat, cursor : CursorType, batchSize : Int]
        BY <3>2, <4>1 DEF IInv, Typed, TypeOK
      <4> QED BY <2>1, <4>1, <4>2
    <3> QED BY <3>1, <3>2
  <2> QED BY <1>1, <1>10, <1>11, <2>1, <2>2 DEF IInv, Typed, TypeOK
<1>14. CursorsRead'
  BY <1>1, <1>12, ReadsKept DEF IInv, CursorsRead
<1>15. \A d \in Clients : op'[d] # NoOp /\ d # c => op'[d] = op[d] /\ op[d].cursor.scan \in DOMAIN asked
  BY <1>11, OpKinds
<1>16. \A i \in DOMAIN cursors : cursors[i].scan \in DOMAIN asked
  BY DEF IInv, CursorsRead, Reads
<1>17. OpsRead'
  <2>1. IsFind(op'[c]) => op'[c].cursor.scan \in DOMAIN asked' /\ Opens(asked'[op'[c].cursor.scan], op'[c])
    BY <1>7, <1>8, <1>10, <1>11
  <2>2. ~IsGetMore(op'[c])
    BY <1>8, <1>11 DEF IsGetMore
  <2>3. ASSUME NEW d \in Clients, d # c
        PROVE  /\ IsFind(op[d]) => op[d].cursor.scan \in DOMAIN asked' /\ Opens(asked'[op[d].cursor.scan], op[d])
               /\ IsGetMore(op[d]) => Reads(asked', op[d].cursor)
    BY <1>10, <1>12, ReadsKept DEF IInv, OpsRead
  <2> QED BY <1>11, <2>1, <2>2, <2>3 DEF OpsRead
<1>18. ScansApart'
  <2>1. \A i, j \in DOMAIN cursors' : cursors'[i].scan = cursors'[j].scan => i = j
    BY <1>1 DEF IInv, ScansApart
  <2>2. ASSUME NEW d \in Clients, IsFind(op'[d])
        PROVE  /\ \A i \in DOMAIN cursors' : cursors'[i].scan # op'[d].cursor.scan
               /\ \A e \in Clients : op'[e] # NoOp /\ op'[e].cursor.scan = op'[d].cursor.scan => e = d
    <3>1. CASE d = c
      BY <1>1, <1>8, <1>10, <1>11, <1>15, <1>16, <3>1
    <3>2. CASE d # c
      <4>1. op'[d] = op[d] /\ IsFind(op[d]) /\ op[d].cursor.scan \in DOMAIN asked
        BY <1>15, <2>2, <3>2 DEF IsFind
      <4>2. op'[c].cursor.scan = g
        BY <1>8, <1>11
      <4>3. /\ \A i \in DOMAIN cursors : cursors[i].scan # op[d].cursor.scan
            /\ \A e \in Clients : op[e] # NoOp /\ op[e].cursor.scan = op[d].cursor.scan => e = d
        BY <4>1 DEF IInv, ScansApart
      <4> QED BY <1>1, <1>10, <1>11, <4>1, <4>2, <4>3
    <3> QED BY <3>1, <3>2
  <2>3. ASSUME NEW d \in Clients, IsGetMore(op'[d])
        PROVE  /\ op'[d].id < nextId'
               /\ \A i \in DOMAIN cursors' : i = op'[d].id <=> cursors'[i].scan = op'[d].cursor.scan
    <3>1. d # c
      BY <1>8, <1>11, <2>3 DEF IsGetMore
    <3>2. op'[d] = op[d] /\ IsGetMore(op[d])
      BY <1>11, <2>3, <3>1
    <3> QED BY <1>1, <3>2 DEF IInv, ScansApart
  <2> QED BY <2>1, <2>2, <2>3 DEF ScansApart
<1>19. Alone'
  <2> SUFFICES ASSUME NEW h \in DOMAIN asked', ~asked'[h].shared
               PROVE  /\ \A d, e \in Clients : op'[d] # NoOp /\ op'[e] # NoOp
                             /\ op'[d].cursor.scan = h /\ op'[e].cursor.scan = h => d = e
                      /\ \A i \in DOMAIN cursors' : cursors'[i].scan = h =>
                             Given(asked'[h]) = UpTo(Question(asked'[h]), cursors'[i].last)
                      /\ \A d \in Clients : IsGetMore(op'[d]) /\ op'[d].cursor.scan = h =>
                             Given(asked'[h]) = UpTo(Question(asked'[h]), op'[d].cursor.last)
    BY DEF Alone
  <2>0. op'[c].cursor.scan = g /\ ~IsGetMore(op'[c])
    BY <1>8, <1>11 DEF IsGetMore
  <2>1. CASE h = g
    BY <1>1, <1>10, <1>15, <1>16, <2>0, <2>1 DEF IsGetMore
  <2>2. CASE h # g
    <3>1. h \in DOMAIN asked /\ asked'[h] = asked[h]
      BY <1>10, <2>2
    <3>2. /\ \A d, e \in Clients : op[d] # NoOp /\ op[e] # NoOp
                   /\ op[d].cursor.scan = h /\ op[e].cursor.scan = h => d = e
          /\ \A i \in DOMAIN cursors : cursors[i].scan = h =>
                   Given(asked[h]) = UpTo(Question(asked[h]), cursors[i].last)
          /\ \A d \in Clients : IsGetMore(op[d]) /\ op[d].cursor.scan = h =>
                   Given(asked[h]) = UpTo(Question(asked[h]), op[d].cursor.last)
      BY <3>1 DEF IInv, Alone
    <3> QED BY <1>1, <1>11, <2>0, <2>2, <3>1, <3>2
  <2> QED BY <2>1, <2>2
<1>20. Kept'
  <2>1. Whole(a) /\ InOrder(a)
    BY <1>5, <1>9 DEF Whole, InOrder
  <2> QED BY <1>10, <2>1 DEF IInv, Kept
<1> QED BY <1>1, <1>13, <1>14, <1>17, <1>18, <1>19, <1>20 DEF IInv, RemovedOld, RemovedBefore

\* The reply sends the first page, and registers the cursor if there is more.
LEMMA FindReplyStep ==
  ASSUME IInv, NEW c \in Clients, FindReply(c)
  PROVE  IInv'
<1> DEFINE o == op[c]
           g == op[c].cursor.scan
           a == asked[g]
           b == Sent(a, op[c].page, op[c].cut)
<1>1. /\ op[c] # NoOp /\ op[c].kind = "find" /\ op' = [op EXCEPT ![c] = NoOp]
      /\ store' = store /\ removed' = removed /\ writes' = writes /\ reopens' = reopens
      /\ asked' = [asked EXCEPT ![g] = b]
  BY DEF FindReply
<1>2. /\ IsFind(o) /\ o.cursor \in CursorType /\ g \in DOMAIN asked
      /\ o.page \in PageType /\ o.cut \in BOOLEAN
  BY <1>1, OpKinds DEF IsFind, IsGetMore
<1>3. /\ Opens(a, o) /\ asked \in Seq(AskedType) /\ DOMAIN op = Clients /\ nextId \in Nat \ {0}
      /\ \A i \in DOMAIN cursors : i \in Nat /\ i < nextId
  BY <1>2 DEF IInv, OpsRead, Typed, TypeOK
<1>4. a \in AskedType
  <2>1. DOMAIN asked = 1 .. Len(asked)
    BY <1>3, LenProperties
  <2> QED BY <1>2, <1>3, <2>1, ElementOfSeq
<1>5. /\ b \in AskedType
      /\ b.snapshot = a.snapshot /\ b.pred = a.pred /\ b.skip = a.skip /\ b.limit = a.limit
      /\ Question(b) = Question(a) /\ b.shared = a.shared
      /\ b.ended = (a.ended \/ o.page.exhausted) /\ b.cut = (a.cut \/ o.cut)
      /\ Given(b) = Given(a) \cup o.page.docs
      /\ \A k \in Keys : b.sent[k] = IF k \in o.page.docs THEN a.sent[k] + 1 ELSE a.sent[k]
  BY <1>2, <1>4, SentFacts, SMTT(40)
<1> HIDE DEF b
<1>6. /\ asked' \in Seq(AskedType) /\ DOMAIN asked' = DOMAIN asked
      /\ asked'[g] = b /\ \A h \in DOMAIN asked : h # g => asked'[h] = asked[h]
  BY <1>1, <1>2, <1>3, <1>5, AskedReplaced
<1>7. Grows(asked, asked')
  BY <1>5, <1>6 DEF Grows
<1>8. op'[c] = NoOp /\ DOMAIN op' = Clients /\ \A d \in Clients : d # c => op'[d] = op[d]
  BY <1>1, <1>3
<1>9. /\ \A i \in DOMAIN cursors : cursors[i].scan # g
      /\ \A d \in Clients : op[d] # NoOp /\ op[d].cursor.scan = g => d = c
  BY <1>2 DEF IInv, ScansApart
\* the new cursor
<1>10. Given(b) = o.page.docs
  BY <1>3, <1>5 DEF Opens
<1>11. ~o.page.exhausted =>
         /\ Reads(asked', o.cursor) /\ Given(b) = UpTo(Question(b), o.cursor.last)
  <2> SUFFICES ASSUME ~o.page.exhausted
               PROVE  Reads(asked', o.cursor) /\ Given(b) = UpTo(Question(b), o.cursor.last)
    OBVIOUS
  <2>1. UpTo(Question(a), o.cursor.last) = o.page.docs
        /\ Position(a.snapshot, a.pred, a.skip, a.limit, o.cursor.last, o.cursor.limit)
        /\ o.cursor.snapshot = a.snapshot /\ o.cursor.pred = a.pred
    BY <1>3 DEF Opens
  <2> QED BY <1>2, <1>5, <1>6, <1>10, <2>1 DEF Reads
\* which cursors there are afterwards
<1> DEFINE new == IF o.page.exhausted THEN {} ELSE {nextId}
<1>12. /\ DOMAIN cursors' = DOMAIN cursors \cup new
       /\ \A i \in DOMAIN cursors : cursors'[i] = cursors[i]
       /\ \A i \in new : i = nextId /\ ~o.page.exhausted /\ cursors'[i] = o.cursor
       /\ nextId' \in Nat \ {0} /\ nextId' >= nextId /\ \A i \in new : i < nextId'
  <2>1. CASE o.page.exhausted
    <3>1. cursors' = cursors /\ nextId' = nextId
      BY <2>1 DEF FindReply
    <3>2. new = {}
      BY <2>1
    <3> HIDE DEF new
    <3> QED BY <1>3, <3>1, <3>2
  <2>2. CASE ~o.page.exhausted
    <3>1. nextId' = nextId + 1 /\ SetCursor(nextId, o.cursor)
      BY <2>2 DEF FindReply
    <3>2. /\ DOMAIN cursors' = DOMAIN cursors \cup {nextId}
          /\ \A i \in DOMAIN cursors \cup {nextId} : cursors'[i] = IF i = nextId THEN o.cursor ELSE cursors[i]
      BY <3>1, Zenon DEF SetCursor
    <3>3. \A i \in DOMAIN cursors : i # nextId
      BY <1>3
    <3> HIDE DEF o
    <3> QED BY <1>3, <2>2, <3>1, <3>2, <3>3
  <2> QED BY <2>1, <2>2
<1> HIDE DEF o, g, a, new
<1>13. \A i \in DOMAIN cursors' : \/ i \in DOMAIN cursors /\ i \notin new /\ cursors'[i] = cursors[i]
                                  \/ i = nextId /\ i \in new /\ cursors'[i] = o.cursor /\ ~o.page.exhausted
  BY <1>3, <1>12
<1>14. Typed'
  <2>1. CursorType' = CursorType
    BY <1>6 DEF CursorType, Scans
  <2>2. \A i \in DOMAIN cursors' : i \in 1 .. (nextId' - 1) /\ cursors'[i] \in CursorType
    <3>1. \A i \in DOMAIN cursors : i \in 1 .. (nextId - 1) /\ cursors[i] \in CursorType
      BY DEF IInv, Typed, TypeOK
    <3> QED BY <1>2, <1>3, <1>12, <1>13, <3>1
  <2>3. \A d \in Clients : op'[d] # NoOp =>
          \/ op'[d] \in [kind : {"find"}, page : PageType, cut : BOOLEAN, cursor : CursorType]
          \/ op'[d] \in [kind : {"getMore"}, id : Nat, cursor : CursorType, batchSize : Int]
    BY <1>8 DEF IInv, Typed, TypeOK
  <2> QED BY <1>1, <1>6, <1>8, <1>12, <2>1, <2>2, <2>3 DEF IInv, Typed, TypeOK
<1>15. CursorsRead'
  BY <1>7, <1>11, <1>13, ReadsKept DEF IInv, CursorsRead
<1>16. OpsRead'
  <2> SUFFICES ASSUME NEW d \in Clients, d # c
               PROVE  /\ IsFind(op[d]) => op[d].cursor.scan \in DOMAIN asked'
                                          /\ Opens(asked'[op[d].cursor.scan], op[d])
                      /\ IsGetMore(op[d]) => Reads(asked', op[d].cursor)
    BY <1>8 DEF OpsRead, IsFind, IsGetMore
  <2>1. IsFind(op[d]) => op[d].cursor.scan # g
    BY <1>9 DEF IsFind, g
  <2> QED BY <1>6, <1>7, <2>1, ReadsKept DEF IInv, OpsRead
<1>17. o.cursor.scan = g
  BY DEF o, g
<1>18. ScansApart'
  <2>1. ASSUME NEW i \in DOMAIN cursors', NEW j \in DOMAIN cursors', cursors'[i].scan = cursors'[j].scan
        PROVE  i = j
    <3>1. \A m \in DOMAIN cursors : cursors[m].scan # g
      BY <1>9 DEF g
    <3> QED BY <1>13, <1>17, <2>1, <3>1 DEF IInv, ScansApart
  <2>2. ASSUME NEW d \in Clients, IsFind(op'[d])
        PROVE  /\ \A i \in DOMAIN cursors' : cursors'[i].scan # op'[d].cursor.scan
               /\ \A e \in Clients : op'[e] # NoOp /\ op'[e].cursor.scan = op'[d].cursor.scan => e = d
    <3>1. d # c /\ op'[d] = op[d] /\ IsFind(op[d]) /\ op[d] # NoOp
      BY <1>8, <2>2 DEF IsFind
    <3>2. op[d].cursor.scan # g
      BY <1>9, <3>1 DEF g
    <3>3. /\ \A i \in DOMAIN cursors : cursors[i].scan # op[d].cursor.scan
          /\ \A e \in Clients : op[e] # NoOp /\ op[e].cursor.scan = op[d].cursor.scan => e = d
      BY <3>1 DEF IInv, ScansApart
    <3> QED BY <1>8, <1>13, <1>17, <3>1, <3>2, <3>3
  <2>3. ASSUME NEW d \in Clients, IsGetMore(op'[d])
        PROVE  /\ op'[d].id < nextId'
               /\ \A i \in DOMAIN cursors' : i = op'[d].id <=> cursors'[i].scan = op'[d].cursor.scan
    <3>1. d # c /\ op'[d] = op[d] /\ IsGetMore(op[d]) /\ op[d] # NoOp
      BY <1>8, <2>3 DEF IsGetMore
    <3>2. op[d].cursor.scan # g
      BY <1>9, <3>1 DEF g
    <3>3. /\ op[d].id < nextId /\ op[d].id \in Nat
          /\ \A i \in DOMAIN cursors : i = op[d].id <=> cursors[i].scan = op[d].cursor.scan
      BY <3>1, OpKinds DEF IInv, ScansApart
    <3>4. op[d].id < nextId' /\ op[d].id # nextId
      BY <1>3, <1>12, <3>3
    <3> QED BY <1>13, <1>17, <3>1, <3>2, <3>3, <3>4
  <2> QED BY <2>1, <2>2, <2>3 DEF ScansApart
<1>19. Alone'
  <2> SUFFICES ASSUME NEW h \in DOMAIN asked', ~asked'[h].shared
               PROVE  /\ \A d, e \in Clients : op'[d] # NoOp /\ op'[e] # NoOp
                             /\ op'[d].cursor.scan = h /\ op'[e].cursor.scan = h => d = e
                      /\ \A i \in DOMAIN cursors' : cursors'[i].scan = h =>
                             Given(asked'[h]) = UpTo(Question(asked'[h]), cursors'[i].last)
                      /\ \A d \in Clients : IsGetMore(op'[d]) /\ op'[d].cursor.scan = h =>
                             Given(asked'[h]) = UpTo(Question(asked'[h]), op'[d].cursor.last)
    BY DEF Alone
  <2>1. \A d \in Clients : op'[d] # NoOp => d # c /\ op'[d] = op[d]
    BY <1>8
  <2>2. CASE h = g
    <3>1. \A d \in Clients : op'[d] # NoOp => op'[d].cursor.scan # g
      BY <1>9, <2>1 DEF g
    <3>2. \A i \in DOMAIN cursors : cursors[i].scan # g
      BY <1>9 DEF g
    <3> QED BY <1>6, <1>11, <1>13, <2>2, <3>1, <3>2 DEF IsGetMore
  <2>3. CASE h # g
    <3>1. h \in DOMAIN asked /\ asked'[h] = asked[h]
      BY <1>6, <2>3
    <3>2. /\ \A d, e \in Clients : op[d] # NoOp /\ op[e] # NoOp
                   /\ op[d].cursor.scan = h /\ op[e].cursor.scan = h => d = e
          /\ \A i \in DOMAIN cursors : cursors[i].scan = h =>
                   Given(asked[h]) = UpTo(Question(asked[h]), cursors[i].last)
          /\ \A d \in Clients : IsGetMore(op[d]) /\ op[d].cursor.scan = h =>
                   Given(asked[h]) = UpTo(Question(asked[h]), op[d].cursor.last)
      BY <3>1 DEF IInv, Alone
    <3>3. \A i \in DOMAIN cursors' : cursors'[i].scan = h => i \in DOMAIN cursors /\ cursors'[i] = cursors[i]
      BY <1>13, <1>17, <2>3
    <3> QED BY <2>1, <3>1, <3>2, <3>3 DEF IsGetMore
  <2> QED BY <2>2, <2>3
<1>20. Kept'
  <2>1. Whole(a) /\ InOrder(a)
    BY <1>2 DEF IInv, Kept, a, g
  <2>2. /\ o.page.docs \subseteq Question(b)
        /\ \A k \in o.page.docs, j \in Question(b) : j < k => j \in o.page.docs
        /\ o.page.exhausted /\ ~o.cut => Question(b) = o.page.docs
        /\ Given(a) = {}
    BY <1>3, <1>5, Zenon DEF Opens, a, o
  <2>3. Whole(b)
    <3>1. a.ended /\ ~a.cut => Question(b) = {}
      BY <1>5, <2>1, <2>2, Zenon DEF Whole
    <3> QED BY <1>5, <1>10, <2>2, <3>1, Zenon DEF Whole
  <2>4. \A k \in Given(b) : b.sent[k] = 1
    <3>1. \A k \in Keys : a.sent[k] \in Nat /\ ~(a.sent[k] > 0)
      BY <1>4, <2>2 DEF Given, AskedType, a, g
    <3>2. \A k \in Keys : k \in o.page.docs => b.sent[k] = a.sent[k] + 1
      BY <1>5 DEF o, a
    <3>3. \A k \in Given(b) : k \in Keys /\ k \in o.page.docs
      BY <1>10 DEF Given
    <3> QED BY <3>1, <3>2, <3>3
  <2>5. InOrder(b)
    BY <1>10, <2>2, <2>4, Zenon DEF InOrder
  <2> QED BY <1>6, <2>3, <2>5 DEF IInv, Kept
<1>21. RemovedOld' /\ RemovedBefore'
  <2>1. RemovedBefore'
    BY <1>1 DEF IInv, RemovedBefore
  <2>2. RemovedOld'
    BY <1>1, <1>3, <1>12, <1>13 DEF IInv, RemovedOld
  <2> QED BY <2>1, <2>2
<1> QED BY <1>14, <1>15, <1>16, <1>18, <1>19, <1>20, <1>21 DEF IInv

-----------------------------------------------------------------------------
(* getMore.                                                                  *)
\* The copy of the cursor: another request on the same scan makes it shared.
LEMMA GetMoreStartStep ==
  ASSUME IInv, NEW c \in Clients, NEW id \in DOMAIN cursors, NEW coll \in Colls, NEW n \in Int,
         GetMoreStart(c, id, coll, n)
  PROVE  IInv'
<1> DEFINE g == cursors[id].scan
           a == asked[g]
           busy == \E d \in Clients : op[d] # NoOp /\ op[d].cursor.scan = g
           b == [a EXCEPT !.shared = a.shared \/ busy]
           o == [kind |-> "getMore", id |-> id, cursor |-> cursors[id], batchSize |-> n]
<1>1. /\ op[c] = NoOp /\ op' = [op EXCEPT ![c] = o] /\ asked' = [asked EXCEPT ![g] = b]
      /\ store' = store /\ nextId' = nextId /\ cursors' = cursors /\ removed' = removed
      /\ writes' = writes /\ reopens' = reopens
  BY DEF GetMoreStart
<1>2. /\ asked \in Seq(AskedType) /\ DOMAIN op = Clients /\ nextId \in Nat \ {0}
      /\ id \in Nat /\ id < nextId /\ cursors[id] \in CursorType
      /\ Reads(asked, cursors[id]) /\ g \in DOMAIN asked
  <2>1. /\ asked \in Seq(AskedType) /\ DOMAIN op = Clients /\ nextId \in Nat \ {0}
        /\ id \in 1 .. (nextId - 1) /\ cursors[id] \in CursorType
    BY DEF IInv, Typed, TypeOK
  <2>2. Reads(asked, cursors[id]) /\ g \in DOMAIN asked
    BY DEF IInv, CursorsRead, Reads
  <2> QED BY <2>1, <2>2
<1>3. a \in AskedType
  <2>1. DOMAIN asked = 1 .. Len(asked)
    BY <1>2, LenProperties
  <2> QED BY <1>2, <2>1, ElementOfSeq
<1>4. busy \in BOOLEAN
  OBVIOUS
<1> HIDE DEF busy
<1>5. /\ b \in AskedType /\ Given(b) = Given(a) /\ b.sent = a.sent
      /\ b.snapshot = a.snapshot /\ b.pred = a.pred /\ b.skip = a.skip /\ b.limit = a.limit
      /\ b.ended = a.ended /\ b.cut = a.cut
      /\ b.shared = (a.shared \/ busy)
  <2> HIDE DEF a
  <2>1. (a.shared \/ busy) \in BOOLEAN
    BY <1>4, Zenon
  <2> QED BY <1>3, <2>1 DEF AskedType, Given
<1>6. Question(b) = Question(a)
  BY <1>5, Zenon DEF Question
<1> HIDE DEF b
<1>7. /\ asked' \in Seq(AskedType) /\ DOMAIN asked' = DOMAIN asked
      /\ asked'[g] = b /\ \A h \in DOMAIN asked : h # g => asked'[h] = asked[h]
  BY <1>1, <1>2, <1>5, AskedReplaced
<1>8. Grows(asked, asked')
  BY <1>5, <1>7 DEF Grows
<1>9. op'[c] = o /\ DOMAIN op' = Clients /\ \A d \in Clients : d # c => op'[d] = op[d]
  BY <1>1, <1>2
<1>10. /\ o.kind = "getMore" /\ o.id = id /\ o.cursor = cursors[id]
       /\ o \in [kind : {"getMore"}, id : Nat, cursor : CursorType, batchSize : Int]
  BY <1>2
<1> HIDE DEF o, a
<1>11. Typed'
  <2>1. CursorType' = CursorType
    BY <1>7 DEF CursorType, Scans
  <2>2. \A d \in Clients : op'[d] # NoOp =>
          \/ op'[d] \in [kind : {"find"}, page : PageType, cut : BOOLEAN, cursor : CursorType]
          \/ op'[d] \in [kind : {"getMore"}, id : Nat, cursor : CursorType, batchSize : Int]
    BY <1>9, <1>10 DEF IInv, Typed, TypeOK
  <2> QED BY <1>1, <1>7, <1>9, <2>1, <2>2 DEF IInv, Typed, TypeOK
<1>12. CursorsRead'
  BY <1>1, <1>8, ReadsKept DEF IInv, CursorsRead
<1>13. OpsRead'
  <2>1. ~IsFind(op'[c]) /\ Reads(asked', op'[c].cursor)
    BY <1>2, <1>8, <1>9, <1>10, ReadsKept DEF IsFind
  <2>2. ASSUME NEW d \in Clients, d # c
        PROVE  /\ IsFind(op[d]) => op[d].cursor.scan \in DOMAIN asked'
                                   /\ Opens(asked'[op[d].cursor.scan], op[d])
               /\ IsGetMore(op[d]) => Reads(asked', op[d].cursor)
    <3>1. ASSUME IsFind(op[d]) PROVE op[d].cursor.scan \in DOMAIN asked /\ op[d].cursor.scan # g
      BY <3>1 DEF IInv, OpsRead, ScansApart
    <3> QED BY <1>7, <1>8, <3>1, ReadsKept DEF IInv, OpsRead
  <2> QED BY <1>9, <2>1, <2>2 DEF OpsRead
<1>14. ScansApart'
  <2>1. \A i, j \in DOMAIN cursors' : cursors'[i].scan = cursors'[j].scan => i = j
    BY <1>1 DEF IInv, ScansApart
  <2>2. ASSUME NEW d \in Clients, IsFind(op'[d])
        PROVE  /\ \A i \in DOMAIN cursors' : cursors'[i].scan # op'[d].cursor.scan
               /\ \A e \in Clients : op'[e] # NoOp /\ op'[e].cursor.scan = op'[d].cursor.scan => e = d
    <3>1. d # c
      BY <1>9, <1>10, <2>2 DEF IsFind
    <3>2. op'[d] = op[d] /\ IsFind(op[d])
      BY <1>9, <2>2, <3>1
    <3>3. /\ \A i \in DOMAIN cursors : cursors[i].scan # op[d].cursor.scan
          /\ \A e \in Clients : op[e] # NoOp /\ op[e].cursor.scan = op[d].cursor.scan => e = d
      BY <3>2 DEF IInv, ScansApart
    <3> QED BY <1>1, <1>9, <1>10, <3>2, <3>3
  <2>3. ASSUME NEW d \in Clients, IsGetMore(op'[d])
        PROVE  /\ op'[d].id < nextId'
               /\ \A i \in DOMAIN cursors' : i = op'[d].id <=> cursors'[i].scan = op'[d].cursor.scan
    <3>1. CASE d = c
      <4>1. \A i \in DOMAIN cursors : i = id <=> cursors[i].scan = cursors[id].scan
        BY DEF IInv, ScansApart
      <4> QED BY <1>1, <1>2, <1>9, <1>10, <3>1, <4>1
    <3>2. CASE d # c
      BY <1>1, <1>9, <2>3, <3>2 DEF IInv, ScansApart
    <3> QED BY <3>1, <3>2
  <2> QED BY <2>1, <2>2, <2>3 DEF ScansApart
<1>15. Alone'
  <2> SUFFICES ASSUME NEW h \in DOMAIN asked', ~asked'[h].shared
               PROVE  /\ \A d, e \in Clients : op'[d] # NoOp /\ op'[e] # NoOp
                             /\ op'[d].cursor.scan = h /\ op'[e].cursor.scan = h => d = e
                      /\ \A i \in DOMAIN cursors' : cursors'[i].scan = h =>
                             Given(asked'[h]) = UpTo(Question(asked'[h]), cursors'[i].last)
                      /\ \A d \in Clients : IsGetMore(op'[d]) /\ op'[d].cursor.scan = h =>
                             Given(asked'[h]) = UpTo(Question(asked'[h]), op'[d].cursor.last)
    BY DEF Alone
  <2>1. h \in DOMAIN asked /\ ~asked[h].shared /\ (h = g => ~busy)
        /\ Given(asked'[h]) = Given(asked[h]) /\ Question(asked'[h]) = Question(asked[h])
    BY <1>5, <1>6, <1>7 DEF a
  <2>2. /\ \A d, e \in Clients : op[d] # NoOp /\ op[e] # NoOp
                 /\ op[d].cursor.scan = h /\ op[e].cursor.scan = h => d = e
        /\ \A i \in DOMAIN cursors : cursors[i].scan = h =>
                 Given(asked[h]) = UpTo(Question(asked[h]), cursors[i].last)
        /\ \A d \in Clients : IsGetMore(op[d]) /\ op[d].cursor.scan = h =>
                 Given(asked[h]) = UpTo(Question(asked[h]), op[d].cursor.last)
    BY <2>1 DEF IInv, Alone
  <2>3. \A d \in Clients : d # c /\ op'[d] # NoOp /\ op'[d].cursor.scan = h => h # g
    BY <1>9, <2>1 DEF busy
  <2>4. op'[c].cursor = cursors[id]
    BY <1>9, <1>10
  <2>5. \A d, e \in Clients : op'[d] # NoOp /\ op'[e] # NoOp
                 /\ op'[d].cursor.scan = h /\ op'[e].cursor.scan = h => d = e
    BY <1>9, <2>2, <2>3, <2>4
  <2>6. \A d \in Clients : IsGetMore(op'[d]) /\ op'[d].cursor.scan = h =>
                 Given(asked[h]) = UpTo(Question(asked[h]), op'[d].cursor.last)
    BY <1>9, <2>2, <2>4
  <2> QED BY <1>1, <2>1, <2>2, <2>5, <2>6
<1>16. Kept'
  <2>1. Whole(a) /\ InOrder(a)
    BY <1>2 DEF IInv, Kept, a
  <2>2. Whole(b)
    BY <1>5, <1>6, <2>1, Zenon DEF Whole
  <2>3. InOrder(b)
    BY <1>5, <1>6, <2>1, Zenon DEF InOrder
  <2> QED BY <1>7, <2>2, <2>3 DEF IInv, Kept
<1> QED BY <1>1, <1>11, <1>12, <1>13, <1>14, <1>15, <1>16 DEF IInv, RemovedOld, RemovedBefore

\* The next page, from where the copied cursor stands.
LEMMA GetMorePage ==
  ASSUME IInv, NEW s \in CursorType, Reads(asked, s), NEW n \in Int,
         NEW page, page = Scan(s.snapshot, s.pred, s.last, 0, n, s.limit)
  PROVE  /\ page \in PageType
         /\ Continues(page, Question(asked[s.scan]), s.last)
         /\ page.exhausted /\ n > 0 =>
              Question(asked[s.scan]) = UpTo(Question(asked[s.scan]), s.last) \cup page.docs
         /\ ~page.exhausted => Position(s.snapshot, s.pred, asked[s.scan].skip, asked[s.scan].limit,
                                        page.last, page.limit)
<1> DEFINE a == asked[s.scan]
<1>1. a \in AskedType
  <2>1. asked \in Seq(AskedType) /\ DOMAIN asked = 1 .. Len(asked) /\ s.scan \in DOMAIN asked
    BY LenProperties DEF IInv, Typed, Reads
  <2> QED BY <2>1, ElementOfSeq
<1>2. /\ s.snapshot = a.snapshot /\ s.pred = a.pred
      /\ Position(s.snapshot, s.pred, a.skip, a.limit, s.last, s.limit)
  BY DEF Reads
<1> HIDE DEF a
<1>3. /\ a.skip \in Int /\ a.limit \in Int \cup {NoLimit} /\ NoLimit \notin Int
      /\ DOMAIN s.snapshot = Keys /\ IsFiniteSet(Keys) /\ Keys \subseteq Nat \ {0}
      /\ s.last \in Keys \cup {Start}
  BY <1>1, NumbersAssumption, KeysAssumption DEF AskedType, CursorType
<1>4. PageOf(s.snapshot, s.pred, a.skip, a.limit, s.last, n, page)
  BY <1>2, <1>3, NextPage
<1>5. page \in PageType
  BY <1>3, <1>4 DEF PageOf, PageType
<1>6. Question(a) = Answer(s.snapshot, s.pred, a.skip, a.limit)
  BY <1>2, Zenon DEF Question
<1> QED BY <1>4, <1>5, <1>6, Zenon DEF PageOf, a

LEMMA GetMoreReplyStep ==
  ASSUME IInv, NEW c \in Clients, GetMoreReply(c)
  PROVE  IInv'
<1> DEFINE o == op[c]
           id == op[c].id
           s == op[c].cursor
           n == Max({0, op[c].batchSize})
           page == Scan(s.snapshot, s.pred, s.last, 0, n, s.limit)
           g == s.scan
           a == asked[g]
           cut == n = 0
           b == Sent(a, page, cut)
<1>1. /\ op[c] # NoOp /\ op[c].kind = "getMore" /\ op' = [op EXCEPT ![c] = NoOp]
      /\ store' = store /\ writes' = writes /\ reopens' = reopens /\ nextId' = nextId
      /\ asked' = [asked EXCEPT ![g] = b]
      /\ IF page.exhausted THEN DropCursors({id}) ELSE UpdateCursor(id, page, s)
      /\ removed' = IF page.exhausted THEN removed \cup {<<reopens, id>>} ELSE removed
  BY DEF GetMoreReply
<1>2. IsGetMore(o) /\ s \in CursorType /\ g \in DOMAIN asked /\ o.batchSize \in Int
  BY <1>1, OpKinds DEF IsFind, IsGetMore
<1>3. /\ Reads(asked, s) /\ asked \in Seq(AskedType) /\ DOMAIN op = Clients
      /\ \A i \in DOMAIN cursors : i = id <=> cursors[i].scan = g
  <2>1. Reads(asked, s) /\ asked \in Seq(AskedType) /\ DOMAIN op = Clients
    BY <1>2 DEF IInv, OpsRead, Typed
  <2>2. \A i \in DOMAIN cursors : i = id <=> cursors[i].scan = g
    BY <1>2 DEF IInv, ScansApart
  <2> QED BY <2>1, <2>2
<1>4. a \in AskedType
  <2>1. DOMAIN asked = 1 .. Len(asked)
    BY <1>3, LenProperties
  <2> QED BY <1>2, <1>3, <2>1, ElementOfSeq
<1>5. n \in Int /\ n >= 0
  BY <1>2, MaxMin
<1> HIDE DEF n
<1>6. /\ page \in PageType
      /\ Continues(page, Question(a), s.last)
      /\ page.exhausted /\ n > 0 => Question(a) = UpTo(Question(a), s.last) \cup page.docs
      /\ ~page.exhausted => Position(s.snapshot, s.pred, a.skip, a.limit, page.last, page.limit)
  <2> HIDE DEF s, page
  <2>1. page = Scan(s.snapshot, s.pred, s.last, 0, n, s.limit)
    BY DEF page
  <2> QED BY <1>2, <1>3, <1>5, <2>1, GetMorePage
<1> HIDE DEF page
<1>7. /\ b \in AskedType
      /\ b.snapshot = a.snapshot /\ b.pred = a.pred /\ b.skip = a.skip /\ b.limit = a.limit
      /\ Question(b) = Question(a) /\ b.shared = a.shared
      /\ b.ended = (a.ended \/ page.exhausted) /\ b.cut = (a.cut \/ n = 0)
      /\ Given(b) = Given(a) \cup page.docs
      /\ \A k \in Keys : b.sent[k] = IF k \in page.docs THEN a.sent[k] + 1 ELSE a.sent[k]
  <2>1. cut \in BOOLEAN
    OBVIOUS
  <2>2. (a.cut \/ cut) = (a.cut \/ n = 0)
    OBVIOUS
  <2> HIDE DEF cut, a
  <2>3. b.cut = (a.cut \/ cut)
    BY <1>4, <1>6, <2>1, SentFacts
  <2> QED BY <1>4, <1>6, <2>1, <2>2, <2>3, SentFacts
<1> HIDE DEF b
<1>8. /\ asked' \in Seq(AskedType) /\ DOMAIN asked' = DOMAIN asked
      /\ asked'[g] = b /\ \A h \in DOMAIN asked : h # g => asked'[h] = asked[h]
  BY <1>1, <1>2, <1>3, <1>7, AskedReplaced
<1>9. Grows(asked, asked')
  BY <1>7, <1>8 DEF Grows
<1>10. op'[c] = NoOp /\ DOMAIN op' = Clients /\ \A d \in Clients : d # c => op'[d] = op[d]
  BY <1>1, <1>3
\* which cursors there are afterwards
<1>11. /\ DOMAIN cursors' \subseteq DOMAIN cursors
       /\ \A i \in DOMAIN cursors' : i # id => cursors'[i] = cursors[i]
       /\ id \in DOMAIN cursors' =>
            /\ ~page.exhausted
            /\ cursors'[id] = [cursors[id] EXCEPT !.last = page.last, !.limit = page.limit]
  <2>1. CASE page.exhausted
    BY <1>1, <2>1 DEF DropCursors
  <2>2. CASE ~page.exhausted /\ id \in DOMAIN cursors
    <3> DEFINE q == [cursors[id] EXCEPT !.last = page.last, !.limit = page.limit]
    <3>1. SetCursor(id, q)
      BY <1>1, <2>2 DEF UpdateCursor
    <3> HIDE DEF q
    <3>2. DOMAIN cursors' = DOMAIN cursors /\ \A i \in DOMAIN cursors : cursors'[i] = IF i = id THEN q ELSE cursors[i]
      BY <2>2, <3>1 DEF SetCursor
    <3> QED BY <2>2, <3>2 DEF q
  <2>3. CASE ~page.exhausted /\ id \notin DOMAIN cursors
    BY <1>1, <2>3 DEF UpdateCursor
  <2> QED BY <2>1, <2>2, <2>3
<1>12. id \in DOMAIN cursors' =>
         /\ ~page.exhausted /\ cursors'[id] \in CursorType /\ cursors'[id].scan = g
         /\ cursors'[id].last = page.last /\ cursors'[id].limit = page.limit
         /\ cursors'[id].snapshot = s.snapshot /\ cursors'[id].pred = s.pred
  <2> SUFFICES ASSUME id \in DOMAIN cursors'
               PROVE  /\ cursors'[id] \in CursorType /\ cursors'[id].scan = g
                      /\ cursors'[id].last = page.last /\ cursors'[id].limit = page.limit
                      /\ cursors'[id].snapshot = s.snapshot /\ cursors'[id].pred = s.pred
    BY <1>11
  <2>1. cursors[id] \in CursorType /\ Reads(asked, cursors[id])
    BY <1>11 DEF IInv, Typed, TypeOK, CursorsRead
  <2>2. cursors[id].scan = g
    BY <1>3, <1>11
  <2>3. cursors[id].snapshot = s.snapshot /\ cursors[id].pred = s.pred
    BY <1>3, <2>1, <2>2 DEF Reads
  <2>4. page.last \in Keys \cup {Start} /\ page.limit \in Int \cup {NoLimit}
    BY <1>6 DEF PageType
  <2> QED BY <1>11, <2>1, <2>2, <2>3, <2>4 DEF CursorType
<1>13. \A i \in DOMAIN cursors' : i # id => i \in DOMAIN cursors /\ cursors'[i] = cursors[i] /\ cursors[i].scan # g
  BY <1>3, <1>11
<1>13a. id \in Nat /\ id < nextId /\ reopens \in 0 .. MaxReopens /\ reopens \in Nat
  BY <1>1, <1>2, OpKinds DEF IInv, ScansApart, Typed, TypeOK, IsFind
<1> HIDE DEF o, g, a, s, id
<1>14. s.snapshot = a.snapshot /\ s.pred = a.pred /\ UpTo(Question(a), s.last) \subseteq Given(a)
  BY <1>3 DEF Reads, a, g
<1>15. Typed'
  <2>1. CursorType' = CursorType
    BY <1>8 DEF CursorType, Scans
  <2>2. \A i \in DOMAIN cursors' : i \in 1 .. (nextId' - 1) /\ cursors'[i] \in CursorType
    <3>1. \A i \in DOMAIN cursors : i \in 1 .. (nextId - 1) /\ cursors[i] \in CursorType
      BY DEF IInv, Typed, TypeOK
    <3> QED BY <1>1, <1>11, <1>12, <1>13, <3>1
  <2>3. \A d \in Clients : op'[d] # NoOp =>
          \/ op'[d] \in [kind : {"find"}, page : PageType, cut : BOOLEAN, cursor : CursorType]
          \/ op'[d] \in [kind : {"getMore"}, id : Nat, cursor : CursorType, batchSize : Int]
    BY <1>10 DEF IInv, Typed, TypeOK
  <2>4. removed' \subseteq (0 .. MaxReopens) \X Nat
    BY <1>1, <1>13a DEF IInv, Typed, TypeOK
  <2> QED BY <1>1, <1>8, <1>10, <2>1, <2>2, <2>3, <2>4 DEF IInv, Typed, TypeOK
<1>16. /\ page.docs \subseteq Beyond(Question(a), s.last)
       /\ \A k \in page.docs, j \in Beyond(Question(a), s.last) : j < k => j \in page.docs
       /\ ~page.exhausted => UpTo(Question(a), page.last) = UpTo(Question(a), s.last) \cup page.docs
  BY <1>6 DEF Continues
<1>17. CursorsRead'
  <2>1. ASSUME id \in DOMAIN cursors' PROVE Reads(asked', cursors'[id])
    <3>1. Position(s.snapshot, s.pred, b.skip, b.limit, page.last, page.limit)
      BY <1>6, <1>7, <1>12, <2>1
    <3>2. UpTo(Question(b), page.last) \subseteq Given(b)
      BY <1>7, <1>12, <1>14, <1>16, <2>1
    <3>3. s.snapshot = b.snapshot /\ s.pred = b.pred
      BY <1>7, <1>14
    <3> QED BY <1>2, <1>8, <1>12, <2>1, <3>1, <3>2, <3>3 DEF Reads
  <2>2. ASSUME NEW i \in DOMAIN cursors', i # id PROVE Reads(asked', cursors'[i])
    BY <1>9, <1>13, <2>2, ReadsKept DEF IInv, CursorsRead
  <2> QED BY <2>1, <2>2 DEF CursorsRead
<1>18. OpsRead'
  <2> SUFFICES ASSUME NEW d \in Clients, d # c
               PROVE  /\ IsFind(op[d]) => op[d].cursor.scan \in DOMAIN asked'
                                          /\ Opens(asked'[op[d].cursor.scan], op[d])
                      /\ IsGetMore(op[d]) => Reads(asked', op[d].cursor)
    BY <1>10 DEF OpsRead, IsFind, IsGetMore
  <2>1. IsFind(op[d]) => op[d].cursor.scan # g
    BY <1>1 DEF IInv, ScansApart, g, s
  <2> QED BY <1>8, <1>9, <2>1, ReadsKept DEF IInv, OpsRead
<1>19. \A i \in DOMAIN cursors' : i \in DOMAIN cursors /\ cursors'[i].scan = cursors[i].scan
  BY <1>3, <1>11, <1>12, <1>13
<1>20. ScansApart'
  BY <1>1, <1>10, <1>19 DEF IInv, ScansApart, IsFind, IsGetMore
<1>21. ~a.shared => Given(a) = UpTo(Question(a), s.last)
                    /\ \A d \in Clients : d # c /\ op[d] # NoOp => op[d].cursor.scan # g
  BY <1>1, <1>2 DEF IInv, Alone, a, g, s, o
<1>22. Alone'
  <2> SUFFICES ASSUME NEW h \in DOMAIN asked', ~asked'[h].shared
               PROVE  /\ \A d, e \in Clients : op'[d] # NoOp /\ op'[e] # NoOp
                             /\ op'[d].cursor.scan = h /\ op'[e].cursor.scan = h => d = e
                      /\ \A i \in DOMAIN cursors' : cursors'[i].scan = h =>
                             Given(asked'[h]) = UpTo(Question(asked'[h]), cursors'[i].last)
                      /\ \A d \in Clients : IsGetMore(op'[d]) /\ op'[d].cursor.scan = h =>
                             Given(asked'[h]) = UpTo(Question(asked'[h]), op'[d].cursor.last)
    BY DEF Alone
  <2>1. \A d \in Clients : op'[d] # NoOp => d # c /\ op'[d] = op[d] /\ op[d] # NoOp
    BY <1>10
  <2>2. CASE h = g
    <3>1. asked'[h] = b /\ ~a.shared
      BY <1>7, <1>8, <2>2
    <3>2. \A d \in Clients : op'[d] # NoOp => op'[d].cursor.scan # g
      BY <1>21, <2>1, <3>1
    <3>3. ASSUME NEW i \in DOMAIN cursors', cursors'[i].scan = g
          PROVE  Given(b) = UpTo(Question(b), cursors'[i].last)
      <4>1. i = id
        BY <1>13, <3>3
      <4> QED BY <1>7, <1>12, <1>16, <1>21, <3>1, <4>1
    <3> QED BY <2>2, <3>1, <3>2, <3>3 DEF IsGetMore
  <2>3. CASE h # g
    <3>1. h \in DOMAIN asked /\ asked'[h] = asked[h]
      BY <1>8, <2>3
    <3>2. /\ \A d, e \in Clients : op[d] # NoOp /\ op[e] # NoOp
                   /\ op[d].cursor.scan = h /\ op[e].cursor.scan = h => d = e
          /\ \A i \in DOMAIN cursors : cursors[i].scan = h =>
                   Given(asked[h]) = UpTo(Question(asked[h]), cursors[i].last)
          /\ \A d \in Clients : IsGetMore(op[d]) /\ op[d].cursor.scan = h =>
                   Given(asked[h]) = UpTo(Question(asked[h]), op[d].cursor.last)
      BY <3>1 DEF IInv, Alone
    <3>3. \A i \in DOMAIN cursors' : cursors'[i].scan = h => i \in DOMAIN cursors /\ cursors'[i] = cursors[i]
      BY <1>12, <1>13, <2>3
    <3> QED BY <2>1, <3>1, <3>2, <3>3 DEF IsGetMore
  <2> QED BY <2>2, <2>3
<1>23. Kept'
  <2>1. Whole(a) /\ InOrder(a)
    BY <1>2 DEF IInv, Kept, a
  <2>2. Whole(b)
    <3>1. CASE a.ended /\ ~a.cut
      BY <1>7, <2>1, <3>1 DEF Whole
    <3>2. CASE page.exhausted /\ n # 0
      <4>1. Question(a) = UpTo(Question(a), s.last) \cup page.docs
        BY <1>5, <1>6, <3>2
      <4> QED BY <1>7, <1>14, <4>1 DEF Whole
    <3>3. CASE ~(a.ended /\ ~a.cut) /\ ~(page.exhausted /\ n # 0)
      BY <1>7, <3>3, Zenon DEF Whole
    <3> QED BY <3>1, <3>2, <3>3
  <2>3. InOrder(b)
    <3> SUFFICES ASSUME ~a.shared
                 PROVE  /\ \A k \in Given(b) : b.sent[k] = 1
                        /\ Given(b) \subseteq Question(b)
                        /\ \A k \in Given(b), j \in Question(b) : j < k => j \in Given(b)
      BY <1>7, Zenon DEF InOrder
    <3>1. /\ Given(a) = UpTo(Question(a), s.last)
          /\ \A k \in Given(a) : a.sent[k] = 1
          /\ Given(a) \subseteq Question(a)
          /\ \A k \in Given(a), j \in Question(a) : j < k => j \in Given(a)
      BY <1>21, <2>1 DEF InOrder
    <3>0. \A k \in Keys : k \in Int
      BY KeysAssumption
    <3>2. \A k \in Question(a) : k \in Int
      <4>1. DOMAIN a.snapshot = Keys
        BY <1>4 DEF AskedType
      <4>2. Question(a) \subseteq Keys
        BY <4>1 DEF Question, Answer, Present
      <4> QED BY <3>0, <4>2
    <3>3. s.last \in Int
      <4>1. s.last \in Keys \/ s.last = 0
        BY <1>2 DEF CursorType, Start
      <4> QED BY <3>0, <4>1
    <3>4. \A k \in Question(a) : k \in UpTo(Question(a), s.last) <=> k \notin Beyond(Question(a), s.last)
      BY <3>2, <3>3 DEF UpTo, Beyond
    <3>5. ASSUME NEW k \in Given(b) PROVE b.sent[k] = 1
      <4>1. k \in Keys /\ a.sent[k] \in Nat /\ b.sent[k] = IF k \in page.docs THEN a.sent[k] + 1 ELSE a.sent[k]
        BY <1>4, <1>7 DEF Given, AskedType
      <4>2. CASE k \in page.docs
        <5>1. k \in Question(a) /\ k \in Beyond(Question(a), s.last)
          BY <1>16, <4>2 DEF Beyond
        <5>2. k \notin Given(a)
          BY <3>1, <3>4, <5>1
        <5>3. ~(a.sent[k] > 0)
          BY <4>1, <5>2 DEF Given
        <5> QED BY <4>1, <4>2, <5>3
      <4>3. CASE k \notin page.docs
        BY <1>7, <3>1, <4>1, <4>3
      <4> QED BY <4>2, <4>3
    <3>6. Given(b) \subseteq Question(b)
      BY <1>7, <1>16, <3>1 DEF Beyond
    <3>7. ASSUME NEW k \in Given(b), NEW j \in Question(b), j < k PROVE j \in Given(b)
      <4>1. CASE k \in Given(a)
        BY <1>7, <3>1, <3>7, <4>1
      <4>2. CASE k \in page.docs
        <5>1. j \in Question(a) /\ (j \in UpTo(Question(a), s.last) \/ j \in Beyond(Question(a), s.last))
          BY <1>7, <3>4
        <5> QED BY <1>7, <1>16, <3>1, <3>7, <4>2, <5>1
      <4> QED BY <1>7, <4>1, <4>2
    <3> QED BY <3>5, <3>6, <3>7
  <2> QED BY <1>8, <2>2, <2>3 DEF IInv, Kept
<1>24. RemovedOld'
  BY <1>1, <1>11, <1>13a DEF IInv, RemovedOld
<1>25. RemovedBefore'
  BY <1>1, <1>13a DEF IInv, RemovedBefore
<1> QED BY <1>15, <1>17, <1>18, <1>20, <1>22, <1>23, <1>24, <1>25 DEF IInv

-----------------------------------------------------------------------------
(* The invariant, and what it says.                                          *)
LEMMA InductiveStep == IInv /\ [Next]_vars => IInv'
<1> SUFFICES ASSUME IInv, [Next]_vars PROVE IInv'
  OBVIOUS
<1>1. ASSUME NEW coll \in Colls, NEW k \in Keys, NEW v \in Classes \cup {Absent}, Write(coll, k, v)
      PROVE  IInv'
  BY <1>1, WriteStep
<1>2. ASSUME NEW c \in Clients, Find(c) PROVE IInv'
  BY <1>2, FindScanStep DEF Find
<1>3. ASSUME NEW c \in Clients, FindReply(c) PROVE IInv'
  BY <1>3, FindReplyStep
<1>4. ASSUME NEW c \in Clients, GetMore(c) PROVE IInv'
  <2>1. PICK id \in DOMAIN cursors, coll \in Colls :
          \E n \in {BatchSize(m) : m \in BatchSizes} \cup {cursors[id].batchSize} : GetMoreStart(c, id, coll, n)
    BY <1>4 DEF GetMore
  <2>2. PICK n \in {BatchSize(m) : m \in BatchSizes} \cup {cursors[id].batchSize} : GetMoreStart(c, id, coll, n)
    BY <2>1
  <2>3. n \in Int
    <3>1. cursors[id].batchSize \in Int
      BY DEF IInv, Typed, TypeOK, CursorType
    <3>2. \A m \in BatchSizes : BatchSize(m) \in Int
      BY NumbersAssumption DEF BatchSize, DEFAULT_BATCH_SIZE
    <3> QED BY <2>2, <3>1, <3>2
  <2> QED BY <2>2, <2>3, GetMoreStartStep
<1>5. ASSUME NEW c \in Clients, GetMoreReply(c) PROVE IInv'
  BY <1>5, GetMoreReplyStep
<1>6. ASSUME NEW c \in Clients, NEW ids \in SUBSET DOMAIN cursors, KillCursors(c, ids) PROVE IInv'
  BY <1>6, KillStep
<1>7. CASE Reopen \/ Restart
  BY <1>7, AnewStep
<1>8. CASE UNCHANGED vars
  <2>1. CursorType' = CursorType
    BY <1>8 DEF CursorType, Scans, vars
  <2>2. Typed'
    BY <1>8, <2>1 DEF IInv, Typed, TypeOK, vars
  <2>3. CursorsRead' /\ OpsRead' /\ ScansApart' /\ Alone' /\ Kept'
    BY <1>8, EndingKeeps DEF IInv, vars
  <2> QED BY <1>8, <2>2, <2>3 DEF IInv, RemovedOld, RemovedBefore, vars
<1> QED BY <1>1, <1>2, <1>3, <1>4, <1>5, <1>6, <1>7, <1>8 DEF Next

THEOREM Invariance == Spec => []IInv
  BY InitInvariant, InductiveStep, PTL DEF Spec

\* Every reachable state has its type: no operation is given a cursor, a page or
\* a number the registry could not hold, and no id is in use that was not given.
THEOREM TypeCorrect == Spec => []TypeOK
<1>1. IInv => TypeOK
  BY DEF IInv, Typed
<1> QED BY <1>1, Invariance, PTL

\* A cursor that was reported killed or exhausted is not put back by another
\* getMore that was reading from it.
THEOREM RemovedCursorsStayRemoved == Spec => []RemovedStaysRemoved
<1>1. IInv => RemovedStaysRemoved
  <2> SUFFICES ASSUME IInv, NEW id \in DOMAIN cursors PROVE <<reopens, id>> \notin removed
    BY DEF RemovedStaysRemoved
  <2>1. id \in 1 .. (nextId - 1) /\ nextId \in Nat
    BY DEF IInv, Typed, TypeOK
  <2>2. id \in Nat
    BY <2>1
  <2> QED BY <2>2 DEF IInv, RemovedOld
<1> QED BY <1>1, Invariance, PTL

\* A query that is reported exhausted has sent its whole answer, however its
\* getMores overlap.
THEOREM NothingSkipped == Spec => []NoDocumentSkipped
<1>1. IInv => NoDocumentSkipped
  <2> SUFFICES ASSUME IInv, NEW g \in Scans, asked[g].ended, ~asked[g].cut
               PROVE  Wanted(g) \subseteq SentKeys(g)
    BY DEF NoDocumentSkipped
  <2>1. Question(asked[g]) \subseteq Given(asked[g])
    BY DEF IInv, Kept, Whole, Scans
  <2> QED BY <2>1, Zenon DEF Wanted, SentKeys, Question, Given
<1> QED BY <1>1, Invariance, PTL

\* What lies behind a cursor's position was sent, and limit_remaining is what
\* the limit leaves for the documents beyond it.
THEOREM PositionsFit == Spec => []PositionFitsLimit
<1>1. IInv => PositionFitsLimit
  <2> SUFFICES ASSUME IInv, NEW id \in DOMAIN cursors
               PROVE  LET s == cursors[id]
                          behind == {k \in Wanted(s.scan) : k <= s.last}
                      IN  /\ behind \subseteq SentKeys(s.scan)
                          /\ s.limit = IF asked[s.scan].limit = NoLimit THEN NoLimit
                                       ELSE asked[s.scan].limit - Cardinality(behind)
    BY DEF PositionFitsLimit
  <2> DEFINE s == cursors[id]
             a == asked[s.scan]
  <2>1. Reads(asked, s)
    BY DEF IInv, CursorsRead
  <2>2. {k \in Wanted(s.scan) : k <= s.last} = UpTo(Question(a), s.last)
    BY DEF Wanted, Question, UpTo
  <2>3. SentKeys(s.scan) = Given(a)
    BY DEF SentKeys, Given
  <2>4. UpTo(Question(a), s.last) \subseteq Given(a)
        /\ s.limit = IF a.limit = NoLimit THEN NoLimit ELSE a.limit - Cardinality(UpTo(Question(a), s.last))
    BY <2>1 DEF Reads, Position, Question
  <2> QED BY <2>2, <2>3, <2>4
<1> QED BY <1>1, Invariance, PTL

\* As long as no two requests overlap on a scan, its pages are exactly the
\* answer of the query on the snapshot of its find.
THEOREM PagesAddUp == Spec => []PagesAreTheAnswer
<1>1. IInv => PagesAreTheAnswer
  <2> SUFFICES ASSUME IInv, NEW g \in Scans, ~asked[g].shared
               PROVE  /\ \A k \in SentKeys(g) : asked[g].sent[k] = 1
                      /\ SentKeys(g) \subseteq Wanted(g)
                      /\ \A k \in SentKeys(g), j \in Wanted(g) : j < k => j \in SentKeys(g)
                      /\ asked[g].ended /\ ~asked[g].cut => SentKeys(g) = Wanted(g)
    BY DEF PagesAreTheAnswer
  <2>1. Wanted(g) = Question(asked[g]) /\ SentKeys(g) = Given(asked[g])
    BY DEF Wanted, SentKeys, Question, Given
  <2>2. Whole(asked[g]) /\ InOrder(asked[g])
    BY DEF IInv, Kept, Scans
  <2>3. asked[g].ended /\ ~asked[g].cut => Question(asked[g]) \subseteq Given(asked[g])
    BY <2>2 DEF Whole
  <2>4. /\ \A k \in Given(asked[g]) : asked[g].sent[k] = 1
        /\ Given(asked[g]) \subseteq Question(asked[g])
        /\ \A k \in Given(asked[g]), j \in Question(asked[g]) : j < k => j \in Given(asked[g])
    BY <2>2 DEF InOrder
  <2> QED BY <2>1, <2>3, <2>4
<1> QED BY <1>1, Invariance, PTL
=============================================================================
