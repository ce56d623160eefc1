--------------------------- MODULE DocumentsProofs ---------------------------
(* Proofs, for any clients, ids, fields and commands, of the invariants of
   Documents: types, that an undisturbed command is atomic and stops at a
   prefix of its writes, and what a write that was not raced finds.

   The invariant says what a command still has to write (Pending): the store
   its operations should lead to is the store there is, but for the copies
   that are left and get their turn (Doing); what comes after the next of these copies
   is as it was before the operation.  It holds as long as no other
   running command addresses the same documents (Apart), since such a command
   writes elsewhere.                                                         *)
EXTENDS Documents, SequenceTheorems, FiniteSetTheorems, TLAPS

Reach(cmd, op) ==
  IF cmd.kind = "insert" THEN {op.id} ELSE IF op.q.id = NoId THEN Ids ELSE {op.q.id}

Typed(r) ==
  /\ r \in RunType
  /\ r.at \in 1 .. (Len(r.cmd.ops) + 1) /\ r.nModified \in 0 .. r.n
  /\ DOMAIN r.left # {} =>
       /\ r.at > 1 /\ r.cmd.kind \in {"update", "delete"}
       /\ DOMAIN r.left \subseteq Reach(r.cmd, Op(r))

\* the copies that will be written, and which of them count as modified
Doing(r) ==
  {k \in DOMAIN r.left : r.cmd.kind = "update" =>
     \A j \in DOMAIN r.left : j <= k => SetAllowed(Op(r), j)}
Changed(r) ==
  {k \in Doing(r) : r.cmd.kind = "update" /\ ~r.fresh /\ ApplySet(r.left[k], Op(r).set) # r.left[k]}

Pending(r, st) ==
  /\ \A k \in Addressed(r.cmd) : r.ideal.store[k] = IF k \in Doing(r) THEN New(r, k) ELSE st[k]
  /\ r.ideal.n = r.n + Cardinality(Doing(r))
  /\ r.ideal.nModified = r.nModified + Cardinality(Changed(r))
  /\ r.ideal.failed <=> Doing(r) # DOMAIN r.left
  /\ \A k \in Addressed(r.cmd) : (\E j \in DOMAIN r.left : j <= k) => r.before[k] = st[k]

Apart(c) == \A d \in Running : d # c => ~Overlap(run[c].cmd, run[d].cmd)

Stores == store \in StoreType /\ begun \in 0 .. MaxCommands /\ DOMAIN run = Clients

IInv ==
  /\ Stores
  /\ \A c \in Running : Typed(run[c])
  /\ \A c \in Running : run[c].alone => Apart(c) /\ Pending(run[c], store)

-----------------------------------------------------------------------------
(* Documents, operations and ids.                                            *)
\* A document with the fields of another set in it is a document.
LEMMA ApplySetType ==
  ASSUME NEW doc \in Docs, NEW set \in Docs
  PROVE  ApplySet(doc, set) \in Docs
<1>1. PICK F \in SUBSET Fields : doc \in [F -> Vals]
  BY DEF Docs
<1>2. PICK G \in SUBSET Fields : set \in [G -> Vals]
  BY DEF Docs
<1>3. ApplySet(doc, set) \in [F \cup G -> Vals]
  BY <1>1, <1>2 DEF ApplySet
<1>4. F \cup G \in SUBSET Fields
  OBVIOUS
<1> QED BY <1>3, <1>4 DEF Docs

\* Setting fields of the empty document gives the fields set.
LEMMA ApplySetToEmpty ==
  ASSUME NEW set \in Docs
  PROVE  LET empty == [f \in {} |-> Absent] IN empty \in Docs /\ ApplySet(empty, set) = set
<1> DEFINE empty == [f \in {} |-> Absent]
<1>1. empty \in [{} -> Vals]
  OBVIOUS
<1>2. empty \in Docs
  BY <1>1 DEF Docs
<1>3. PICK G \in SUBSET Fields : set \in [G -> Vals]
  BY DEF Docs
<1>4. ApplySet(empty, set) = [f \in G |-> set[f]]
  BY <1>3 DEF ApplySet
<1> QED BY <1>2, <1>3, <1>4

\* The smallest of some ids: of the sets of elements below one of them, take
\* one with no such set inside it.
LEMMA MinIsMin ==
  ASSUME NEW S \in SUBSET Ids, S # {}
  PROVE  Min(S) \in S /\ Min(S) \in Int /\ \A y \in S : y \in Int /\ Min(S) <= y
<1> DEFINE Below(x) == {j \in S : j < x}
           Heads == {Below(x) : x \in S}
<1>0. IsFiniteSet(S) /\ S \subseteq Int
  BY IdsAssumption, FS_Subset
<1>1. IsWellFoundedOn(StrictSubsetOrdering(S), FiniteSubsetsOf(S))
  BY <1>0, FS_StrictSubsetOrderingWellFounded
<1>2. Heads \subseteq FiniteSubsetsOf(S) /\ Heads # {}
  <2>1. \A x \in S : Below(x) \in SUBSET S /\ IsFiniteSet(Below(x))
    BY <1>0, FS_Subset
  <2> QED BY <2>1 DEF FiniteSubsetsOf
<1> HIDE DEF Heads
<1>3. PICK T \in Heads : \A U \in Heads : <<U, T>> \notin StrictSubsetOrdering(S)
  BY <1>1, <1>2, WFMin, Zenon
<1>4. PICK x \in S : T = Below(x)
  BY DEF Heads
<1>5. T = {}
  <2> SUFFICES ASSUME NEW y \in T PROVE FALSE
    OBVIOUS
  <2>1. y \in S /\ x \in Int /\ y \in Int /\ y < x
    BY <1>0, <1>4
  <2>2. \A z \in Below(y) : z \in Int /\ z < y /\ z \in S
    BY <1>0
  <2>3. ASSUME NEW z \in Below(y) PROVE z \in T
    <3>1. z \in S /\ z < x
      BY <2>1, <2>2
    <3> QED BY <1>4, <3>1
  <2>4. y \notin Below(y)
    BY <2>1, <2>2
  <2>5. T \subseteq S
    BY <1>4
  <2>6. Below(y) \in Heads
    BY <2>1 DEF Heads
  <2> QED BY <1>3, <2>3, <2>4, <2>5, <2>6, Zenon DEF StrictSubsetOrdering
<1>6. \A y \in S : x <= y
  BY <1>0, <1>4, <1>5
<1>7. Min(S) \in S /\ \A y \in S : Min(S) <= y
  BY <1>6 DEF Min
<1> QED BY <1>0, <1>7

\* What an operation of a command is, and that it stays among the documents
\* the command addresses.
LEMMA OpFacts ==
  ASSUME NEW cmd \in Commands, NEW i \in 1 .. Len(cmd.ops), NEW op, op = cmd.ops[i]
  PROVE  /\ cmd.kind = "insert" => op \in InsertOp
         /\ cmd.kind = "update" => op \in UpdateOp
         /\ cmd.kind = "delete" => op \in DeleteOp
         /\ cmd.kind \in {"insert", "update", "delete"} /\ Len(cmd.ops) \in Nat
         /\ Reach(cmd, op) \subseteq Addressed(cmd)
<1>1. \/ cmd.kind = "insert" /\ cmd.ops \in Seq(InsertOp)
      \/ cmd.kind = "update" /\ cmd.ops \in Seq(UpdateOp)
      \/ cmd.kind = "delete" /\ cmd.ops \in Seq(DeleteOp)
  BY CommandsAssumption
<1>2. DOMAIN cmd.ops = 1 .. Len(cmd.ops) /\ Len(cmd.ops) \in Nat
  BY <1>1, LenProperties
<1>3. Reach(cmd, op) \subseteq Addressed(cmd)
  BY <1>2 DEF Reach, Addressed
<1>4. CASE cmd.kind = "insert" /\ cmd.ops \in Seq(InsertOp)
  <2>1. op \in InsertOp
    BY <1>4, <1>2, ElementOfSeq
  <2> QED BY <1>2, <1>3, <1>4, <2>1
<1>5. CASE cmd.kind = "update" /\ cmd.ops \in Seq(UpdateOp)
  <2>1. op \in UpdateOp
    BY <1>5, <1>2, ElementOfSeq
  <2> QED BY <1>2, <1>3, <1>5, <2>1
<1>6. CASE cmd.kind = "delete" /\ cmd.ops \in Seq(DeleteOp)
  <2>1. op \in DeleteOp
    BY <1>6, <1>2, ElementOfSeq
  <2> QED BY <1>2, <1>3, <1>6, <2>1
<1> QED BY <1>1, <1>4, <1>5, <1>6

\* Commands address ids.
LEMMA AddressedIds ==
  ASSUME NEW cmd \in Commands
  PROVE  Addressed(cmd) \subseteq Ids /\ Len(cmd.ops) \in Nat /\ DOMAIN cmd.ops = 1 .. Len(cmd.ops)
<1>1. Len(cmd.ops) \in Nat /\ DOMAIN cmd.ops = 1 .. Len(cmd.ops)
  BY CommandsAssumption, LenProperties
<1>2. ASSUME NEW i \in DOMAIN cmd.ops PROVE Reach(cmd, cmd.ops[i]) \subseteq Ids
  <2> DEFINE op == cmd.ops[i]
  <2>1. /\ cmd.kind = "insert" => op \in InsertOp
        /\ cmd.kind = "update" => op \in UpdateOp
        /\ cmd.kind = "delete" => op \in DeleteOp
        /\ cmd.kind \in {"insert", "update", "delete"}
    BY <1>1, <1>2, OpFacts
  <2> HIDE DEF op
  <2>2. cmd.kind = "insert" => op.id \in Ids
    BY <2>1 DEF InsertOp
  <2>3. cmd.kind # "insert" => op.q.id \in Ids \cup {NoId}
    BY <2>1 DEF UpdateOp, DeleteOp, Query
  <2> QED BY <2>2, <2>3 DEF Reach, op
<1>3. Addressed(cmd) = UNION {Reach(cmd, cmd.ops[i]) : i \in DOMAIN cmd.ops}
  BY Zenon DEF Addressed, Reach
<1> QED BY <1>1, <1>2, <1>3

-----------------------------------------------------------------------------
(* Queries and what operations do at once.                                   *)
\* The documents an operation is about are stored ones within its reach.
LEMMA HitsFacts ==
  ASSUME NEW st \in StoreType, NEW kind, NEW op, op.q.id \in Ids \cup {NoId},
         NEW H, H = Hits(st, kind, op)
  PROVE  /\ H \in SUBSET Ids /\ IsFiniteSet(H)
         /\ \A k \in H : st[k] \in Docs
         /\ op.q.id # NoId => H \subseteq {op.q.id}
<1>1. H \subseteq {k \in Stored(st) : Matches(op.q, k, st[k])}
  BY DEF Hits
<1>2. \A k \in H : k \in Ids /\ st[k] # Absent /\ op.q.id \in {NoId, k}
  BY <1>1 DEF Stored, Matches
<1>3. H \in SUBSET Ids
  BY <1>2
<1>4. \A k \in H : st[k] \in Docs
  BY <1>2 DEF StoreType
<1>5. op.q.id # NoId => H \subseteq {op.q.id}
  BY <1>2
<1>6. IsFiniteSet(H)
  BY <1>3, IdsAssumption, FS_Subset
<1> QED BY <1>3, <1>4, <1>5, <1>6

\* collect copies exactly the documents the operation is about.
LEMMA CollectIsHits ==
  ASSUME store \in StoreType, NEW kind, NEW op
  PROVE  /\ Collect(kind, op) = [k \in Hits(store, kind, op) |-> store[k]]
         /\ Collect(kind, op) = None <=> Hits(store, kind, op) = {}
<1> DEFINE all == {k \in Stored(store) : Matches(op.q, k, store[k])}
           taken == IF TakesOne(kind, op) /\ all # {} THEN {Min(all)} ELSE all
           H == Hits(store, kind, op)
<1>1. H = {k \in all : TakesOne(kind, op) => \A j \in all : k <= j}
  BY DEF Hits
<1>2. all \in SUBSET Ids
  BY DEF Stored
<1>3. Collect(kind, op) = [k \in taken |-> store[k]]
  BY DEF Collect
<1> HIDE DEF all, H
<1>4. taken = H
  <2>1. CASE TakesOne(kind, op) /\ all # {}
    <3>1. Min(all) \in all /\ Min(all) \in Int /\ \A y \in all : y \in Int /\ Min(all) <= y
      BY <1>2, <2>1, MinIsMin
    <3>2. \A k \in all : (\A j \in all : k <= j) <=> k = Min(all)
      BY <3>1
    <3> QED BY <1>1, <2>1, <3>1, <3>2
  <2>2. CASE ~(TakesOne(kind, op) /\ all # {})
    BY <1>1, <2>2
  <2> QED BY <2>1, <2>2
<1> HIDE DEF taken
<1>5. Collect(kind, op) = [k \in H |-> store[k]]
  BY <1>3, <1>4
<1>6. H = {} => Collect(kind, op) = None
  BY <1>5 DEF None
<1>7. Collect(kind, op) = None => H = {}
  <2>1. DOMAIN Collect(kind, op) = H /\ DOMAIN None = {}
    BY <1>5 DEF None
  <2> QED BY <2>1
<1> QED BY <1>5, <1>6, <1>7 DEF H

\* An operation finds the same documents in stores that agree within its reach.
LEMMA HitsAgree ==
  ASSUME NEW a \in StoreType, NEW b \in StoreType, NEW kind, NEW op, op.q.id \in Ids \cup {NoId},
         \A k \in (IF op.q.id = NoId THEN Ids ELSE {op.q.id}) : a[k] = b[k]
  PROVE  Hits(a, kind, op) = Hits(b, kind, op)
<1> DEFINE A == {k \in Stored(a) : Matches(op.q, k, a[k])}
           B == {k \in Stored(b) : Matches(op.q, k, b[k])}
<1>1. ASSUME NEW k \in Ids
      PROVE  k \in A <=> k \in B
  <2>1. CASE op.q.id = NoId \/ op.q.id = k
    <3>1. a[k] = b[k]
      BY <2>1
    <3> QED BY <3>1 DEF Stored
  <2>2. CASE ~(op.q.id = NoId \/ op.q.id = k)
    BY <2>2 DEF Matches
  <2> QED BY <2>1, <2>2
<1>2. A \subseteq Ids /\ B \subseteq Ids
  BY DEF Stored
<1>3. A = B
  BY <1>1, <1>2
<1> QED BY <1>3, Zenon DEF Hits

\* What operations do at once are stores and counts again.
LEMMA EffectType ==
  ASSUME NEW cmd \in Commands, NEW i \in 1 .. Len(cmd.ops), NEW op, op = cmd.ops[i], NEW o \in OutcomeType
  PROVE  OpEffect(cmd.kind, o, op) \in OutcomeType
<1>1. /\ cmd.kind = "insert" => op \in InsertOp
      /\ cmd.kind = "update" => op \in UpdateOp
      /\ cmd.kind = "delete" => op \in DeleteOp
      /\ cmd.kind \in {"insert", "update", "delete"}
  BY OpFacts
<1>2. /\ o.store \in StoreType /\ o.n \in Nat /\ o.nModified \in Nat
      /\ [o EXCEPT !.failed = TRUE] \in OutcomeType
  BY DEF OutcomeType
<1>3. \A st \in StoreType, n \in Nat, m \in Nat, f \in BOOLEAN : Outcome(st, n, m, f) \in OutcomeType
  BY DEF Outcome, OutcomeType
<1>4. CASE cmd.kind = "insert"
  <2>1. op.id \in Ids /\ op.doc \in Docs
    BY <1>1, <1>4 DEF InsertOp
  <2>2. [o.store EXCEPT ![op.id] = op.doc] \in StoreType /\ o.n + 1 \in Nat
    BY <1>2, <2>1 DEF StoreType
  <2>3. InsertEffect(o, op) \in OutcomeType
    BY <1>2, <1>3, <2>2 DEF InsertEffect
  <2> QED BY <1>4, <2>3 DEF OpEffect
<1>5. CASE cmd.kind = "delete"
  <2> DEFINE H == Hits(o.store, "delete", op)
  <2>1. op.q.id \in Ids \cup {NoId}
    BY <1>1, <1>5 DEF DeleteOp, Query
  <2>2. H \in SUBSET Ids /\ Cardinality(H) \in Nat
    BY <1>2, <2>1, HitsFacts, FS_CardinalityType
  <2>3. [k \in Ids |-> IF k \in H THEN Absent ELSE o.store[k]] \in StoreType /\ o.n + Cardinality(H) \in Nat
    BY <1>2, <2>2 DEF StoreType
  <2>4. DeleteEffect(o, op) \in OutcomeType
    BY <1>2, <1>3, <2>3 DEF DeleteEffect
  <2> QED BY <1>5, <2>4 DEF OpEffect
<1>6. CASE cmd.kind = "update"
  <2> DEFINE all == Hits(o.store, "update", op)
             hits == {k \in all : \A j \in all : j <= k => SetAllowed(op, j)}
             new == [k \in Ids |-> IF k \in hits THEN ApplySet(o.store[k], op.set) ELSE o.store[k]]
             changed == {k \in hits : new[k] # o.store[k]}
  <2>1. op.q.id \in Ids \cup {NoId} /\ op.set \in Docs
    BY <1>1, <1>6 DEF UpdateOp, Query
  <2>2. all \in SUBSET Ids /\ IsFiniteSet(all) /\ \A k \in all : o.store[k] \in Docs
    BY <1>2, <2>1, HitsFacts
  <2> HIDE DEF all
  <2>3. hits \in SUBSET all /\ changed \in SUBSET all
    OBVIOUS
  <2>4. Cardinality(hits) \in Nat /\ Cardinality(changed) \in Nat
    <3> HIDE DEF hits, changed
    <3> QED BY <2>2, <2>3, FS_Subset, FS_CardinalityType
  <2>5. new \in StoreType
    <3>1. \A k \in hits : ApplySet(o.store[k], op.set) \in Docs
      BY <2>1, <2>2, <2>3, ApplySetType
    <3> HIDE DEF hits
    <3> QED BY <1>2, <3>1 DEF StoreType
  <2>6. UpsertEffect(o, op) \in OutcomeType
    <3>1. CASE ById(op.q) /\ SetAllowed(op, op.q.id)
      <4>1. [o.store EXCEPT ![op.q.id] = op.set] \in StoreType /\ o.n + 1 \in Nat
        BY <1>2, <2>1, <3>1 DEF StoreType, ById
      <4> QED BY <1>2, <1>3, <3>1, <4>1 DEF UpsertEffect
    <3>2. CASE ~(ById(op.q) /\ SetAllowed(op, op.q.id))
      BY <1>2, <3>2 DEF UpsertEffect
    <3> QED BY <3>1, <3>2
  <2>7. /\ o.n + Cardinality(hits) \in Nat /\ o.nModified + Cardinality(changed) \in Nat
        /\ (hits # all) \in BOOLEAN
    <3> HIDE DEF hits, changed
    <3> QED BY <1>2, <2>4
  <2>8. Outcome(new, o.n + Cardinality(hits), o.nModified + Cardinality(changed), hits # all) \in OutcomeType
    <3> HIDE DEF hits, changed, new
    <3> QED BY <1>3, <2>5, <2>7
  <2>9. UpdateEffect(o, op) =
          IF op.bad THEN [o EXCEPT !.failed = TRUE]
          ELSE IF all = {} /\ op.upsert THEN UpsertEffect(o, op)
          ELSE Outcome(new, o.n + Cardinality(hits), o.nModified + Cardinality(changed), hits # all)
    BY Zenon DEF UpdateEffect, all
  <2>10. UpdateEffect(o, op) \in OutcomeType
    <3> HIDE DEF hits, changed, new
    <3> QED BY <1>2, <2>6, <2>8, <2>9
  <2> QED BY <1>6, <2>10 DEF OpEffect
<1> QED BY <1>1, <1>4, <1>5, <1>6

-----------------------------------------------------------------------------
(* Steps of one command, seen from the others.                               *)
\* What a running command has in hand.
LEMMA RunFacts ==
  ASSUME NEW r, Typed(r)
  PROVE  /\ r.cmd \in Commands /\ r.at \in Nat /\ r.n \in Nat /\ r.nModified \in Nat /\ r.nModified <= r.n
         /\ r.fresh \in BOOLEAN /\ r.alone \in BOOLEAN /\ r.ideal \in OutcomeType
         /\ r.left \in LeftType /\ DOMAIN r.left \in SUBSET Ids /\ IsFiniteSet(DOMAIN r.left)
         /\ \A k \in DOMAIN r.left : r.left[k] \in Docs
         /\ r.ideal.store \in StoreType /\ r.ideal.n \in Nat /\ r.ideal.nModified \in Nat /\ r.ideal.failed \in BOOLEAN
         /\ r.before \in StoreType
<1>1. /\ r.cmd \in Commands /\ r.at \in Nat /\ r.n \in Nat /\ r.nModified \in Nat /\ r.nModified <= r.n
      /\ r.before \in StoreType /\ r.fresh \in BOOLEAN /\ r.alone \in BOOLEAN /\ r.ideal \in OutcomeType /\ r.left \in LeftType
  BY DEF Typed, RunType
<1>2. PICK S \in SUBSET Ids : r.left \in [S -> Docs]
  BY <1>1 DEF LeftType
<1>3. DOMAIN r.left \in SUBSET Ids /\ \A k \in DOMAIN r.left : r.left[k] \in Docs
  BY <1>2
<1>4. IsFiniteSet(DOMAIN r.left)
  BY <1>3, IdsAssumption, FS_Subset
<1> QED BY <1>1, <1>3, <1>4 DEF OutcomeType

\* A command that goes on writes what it addresses, so the undisturbed ones
\* besides it do not notice.
LEMMA OthersKept ==
  ASSUME IInv, NEW c \in Clients, run[c] # Idle, NEW x, run' = [run EXCEPT ![c] = x],
         x.cmd = run[c].cmd, x.alone = run[c].alone, Typed(x), x.alone => Pending(x, store'),
         begun' = begun, store' \in StoreType,
         \A k \in Ids \ Addressed(x.cmd) : store'[k] = store[k]
  PROVE  IInv'
<1>1. Stores /\ c \in Running /\ DOMAIN run = Clients
  BY DEF IInv, Stores, Running
<1>2. Stores'
  BY <1>1 DEF Stores
<1>3. /\ run'[c] = x /\ \A d \in Running' : d # c => run'[d] = run[d] /\ d \in Running
      /\ \A d \in Running' : run'[d].cmd = run[d].cmd /\ run'[d].alone = run[d].alone /\ d \in Running
  BY <1>1 DEF Running
<1>4. ASSUME NEW d \in Running' PROVE Typed(run'[d])
  BY <1>3 DEF IInv
<1>5. ASSUME NEW d \in Running', run'[d].alone PROVE Apart(d)'
  <2>1. Apart(d)
    BY <1>3, <1>5 DEF IInv
  <2> QED BY <1>3, <2>1 DEF Apart
<1>6. ASSUME NEW d \in Running', run'[d].alone PROVE Pending(run'[d], store')
  <2>1. CASE d = c
    BY <1>3, <1>6, <2>1
  <2>2. CASE d # c
    <3>1. run'[d] = run[d] /\ d \in Running /\ Apart(d) /\ Pending(run[d], store) /\ Typed(run[d])
      BY <1>3, <1>6, <2>2 DEF IInv
    <3>2. Addressed(run[d].cmd) \cap Addressed(x.cmd) = {}
      BY <1>1, <2>2, <3>1 DEF Apart, Overlap
    <3>3. Addressed(run[d].cmd) \subseteq Ids
      BY <3>1, RunFacts, AddressedIds
    <3>4. \A k \in Addressed(run[d].cmd) : store'[k] = store[k]
      BY <3>2, <3>3
    <3> QED BY <3>1, <3>4 DEF Pending
  <2> QED BY <2>1, <2>2
<1> QED BY <1>2, <1>4, <1>5, <1>6 DEF IInv

\* Nothing is left to write between two operations.
LEMMA NothingLeft ==
  ASSUME NEW r, Typed(r), DOMAIN r.left = {}
  PROVE  /\ Doing(r) = {} /\ Cardinality(Doing(r)) = 0
         /\ Changed(r) = {} /\ Cardinality(Changed(r)) = 0
<1>1. Doing(r) = {} /\ Changed(r) = {}
  BY DEF Doing, Changed
<1> QED BY <1>1, FS_EmptySet

\* An insert writes its document.
LEMMA InsertStep ==
  ASSUME IInv, NEW c \in Clients, Insert(c)
  PROVE  IInv' /\ run'[c] \in RunType
<1> DEFINE r == run[c]
           op == r.cmd.ops[r.at]
           x == [r EXCEPT !.at = r.at + 1, !.n = r.n + 1, !.ideal = OpEffect("insert", r.ideal, op)]
<1>0. run' = [run EXCEPT ![c] = x]
  BY DEF Insert
<1>1. /\ r # Idle /\ Ready(r, {"insert"}) /\ ~op.bad /\ store' = [store EXCEPT ![op.id] = op.doc]
      /\ begun' = begun
  BY DEF Insert
<1>2. Stores /\ Typed(r)
  BY <1>1 DEF IInv, Running
<1>3. /\ r.at \in 1 .. Len(r.cmd.ops) /\ r.cmd.kind = "insert" /\ DOMAIN r.left = {}
      /\ r.cmd \in Commands /\ Len(r.cmd.ops) \in Nat
  BY <1>1, <1>2, AddressedIds, RunFacts DEF Ready, Typed
<1>4. op \in InsertOp /\ op.id \in Ids /\ op.doc \in Docs /\ op.id \in Addressed(r.cmd)
  <2>1. op \in InsertOp /\ Reach(r.cmd, op) \subseteq Addressed(r.cmd)
    BY <1>3, OpFacts
  <2> QED BY <1>3, <2>1 DEF InsertOp, Reach
<1>5. OpEffect("insert", r.ideal, op) \in OutcomeType
  BY <1>2, <1>3, EffectType, RunFacts
<1>6. OpEffect("insert", r.ideal, op) =
        Outcome([r.ideal.store EXCEPT ![op.id] = op.doc], r.ideal.n + 1, r.ideal.nModified, FALSE)
  BY <1>1 DEF OpEffect, InsertEffect
<1> HIDE DEF op
<1>7. /\ x \in RunType /\ x.cmd = r.cmd /\ x.at = r.at + 1 /\ x.left = r.left /\ x.fresh = r.fresh
      /\ x.n = r.n + 1 /\ x.nModified = r.nModified /\ x.alone = r.alone
      /\ x.ideal = OpEffect("insert", r.ideal, op)
  <2> DEFINE ideal == OpEffect("insert", r.ideal, op)
  <2>1. /\ r \in RunType /\ r.at + 1 \in Nat /\ r.n + 1 \in Nat /\ r.nModified \in Nat
        /\ r.left \in LeftType /\ r.fresh \in BOOLEAN
    BY <1>2, RunFacts DEF Typed
  <2>2. ideal \in OutcomeType
    BY <1>5
  <2>3. x = [r EXCEPT !.at = r.at + 1, !.n = r.n + 1, !.ideal = ideal]
    OBVIOUS
  <2> HIDE DEF r, x, ideal
  <2>4. /\ x \in RunType /\ x.cmd = r.cmd /\ x.at = r.at + 1 /\ x.left = r.left /\ x.fresh = r.fresh
        /\ x.n = r.n + 1 /\ x.nModified = r.nModified /\ x.ideal = ideal /\ x.alone = r.alone
    BY <2>1, <2>2, <2>3 DEF RunType
  <2> QED BY <2>4 DEF ideal
<1> HIDE DEF x
<1>8. Typed(x)
  <2>1. r.nModified \in 0 .. r.n /\ r.n \in Nat
    BY <1>2, RunFacts DEF Typed
  <2> HIDE DEF r
  <2>2. r.at + 1 \in 1 .. (Len(r.cmd.ops) + 1)
    BY <1>3
  <2>3. r.nModified \in 0 .. (r.n + 1)
    BY <2>1
  <2> QED BY <1>3, <1>7, <2>2, <2>3 DEF Typed
<1>9. store' \in StoreType /\ \A k \in Ids \ Addressed(x.cmd) : store'[k] = store[k]
  BY <1>1, <1>2, <1>4, <1>7 DEF Stores, StoreType
<1>10. ASSUME x.alone PROVE Pending(x, store')
  <2>1. Pending(r, store)
    BY <1>1, <1>7, <1>10 DEF IInv, Running
  <2>2. /\ Doing(r) = {} /\ Cardinality(Doing(r)) = 0 /\ Changed(r) = {} /\ Cardinality(Changed(r)) = 0
        /\ Doing(x) = {} /\ Cardinality(Doing(x)) = 0 /\ Changed(x) = {} /\ Cardinality(Changed(x)) = 0
    BY <1>2, <1>3, <1>7, <1>8, NothingLeft
  <2>3. /\ \A k \in Addressed(r.cmd) : r.ideal.store[k] = store[k]
        /\ r.ideal.n = r.n /\ r.ideal.nModified = r.nModified
    BY <1>2, <2>1, <2>2, RunFacts DEF Pending
  <2>4. \A k \in Addressed(r.cmd) : [r.ideal.store EXCEPT ![op.id] = op.doc][k] = store'[k]
    <3>1. Addressed(r.cmd) \subseteq Ids /\ r.ideal.store \in StoreType /\ store \in StoreType
      BY <1>2, <1>3, AddressedIds, RunFacts DEF Stores
    <3> QED BY <1>1, <2>3, <3>1 DEF StoreType
  <2>5. /\ x.ideal.store = [r.ideal.store EXCEPT ![op.id] = op.doc] /\ x.ideal.n = r.ideal.n + 1
        /\ x.ideal.nModified = r.ideal.nModified /\ x.ideal.failed = FALSE
    BY <1>6, <1>7 DEF Outcome
  <2>6. r.n + 1 \in Nat /\ r.nModified \in Nat /\ r.n + 1 + 0 = r.n + 1 /\ r.nModified + 0 = r.nModified
    BY <1>2, RunFacts
  <2>7. /\ x.cmd = r.cmd /\ x.n = r.n + 1 /\ x.nModified = r.nModified /\ DOMAIN x.left = {}
    BY <1>3, <1>7
  <2>8. \A k \in Addressed(x.cmd) : x.ideal.store[k] = IF k \in Doing(x) THEN New(x, k) ELSE store'[k]
    BY <2>2, <2>4, <2>5, <2>7
  <2>9. x.ideal.n = x.n + Cardinality(Doing(x)) /\ x.ideal.nModified = x.nModified + Cardinality(Changed(x))
    BY <2>2, <2>3, <2>5, <2>6, <2>7
  <2>10. x.ideal.failed <=> Doing(x) # DOMAIN x.left
    BY <2>2, <2>5, <2>7
  <2> QED BY <2>7, <2>8, <2>9, <2>10 DEF Pending
<1>11. run'[c] \in RunType
  BY <1>0, <1>2, <1>7 DEF Stores
<1>12. IInv'
  BY <1>0, <1>1, <1>7, <1>8, <1>9, <1>10, OthersKept
<1> QED BY <1>11, <1>12

-----------------------------------------------------------------------------
(* A command that collects the documents of its next operation.              *)
\* What is known of r between two operations, when nobody interfered, and of
\* x, which has the operation op begun.
Collected(r, op, x) ==
  /\ Typed(r) /\ store \in StoreType /\ Pending(r, store) /\ DOMAIN r.left = {}
  /\ r.at \in 1 .. Len(r.cmd.ops) /\ op = r.cmd.ops[r.at] /\ ~op.bad
  /\ x.cmd = r.cmd /\ Op(x) = op /\ x.n = r.n /\ x.nModified = r.nModified
  /\ x.ideal = OpEffect(r.cmd.kind, r.ideal, op) /\ x.before = r.ideal.store

\* Both stores hold the same documents for the operation, H the ones it is about.
Agreed(r, op, H) ==
  /\ \A k \in Addressed(r.cmd) : k \in Ids /\ r.ideal.store[k] = store[k]
  /\ r.ideal.n = r.n /\ r.ideal.nModified = r.nModified
  /\ H = Hits(r.ideal.store, r.cmd.kind, op)
  /\ H \in SUBSET Addressed(r.cmd) /\ H \in SUBSET Ids /\ H \in SUBSET Reach(r.cmd, op)
  /\ IsFiniteSet(H) /\ Cardinality(H) \in Nat
  /\ \A k \in H : store[k] \in Docs
  /\ op.q.id \in Ids \cup {NoId}
  /\ r.n \in Nat /\ r.nModified \in Nat /\ r.ideal.failed = FALSE
  /\ r.cmd.kind = "update" => op.set \in Docs

LEMMA CollectedFacts ==
  ASSUME NEW r, NEW op, NEW x, Collected(r, op, x), r.cmd.kind \in {"update", "delete"}
  PROVE  Agreed(r, op, Hits(store, r.cmd.kind, op))
<1> DEFINE H == Hits(store, r.cmd.kind, op)
<1>1. /\ r.cmd \in Commands /\ r.n \in Nat /\ r.nModified \in Nat /\ r.ideal.store \in StoreType
      /\ r.ideal.failed \in BOOLEAN
  BY RunFacts DEF Collected
<1>2. /\ Doing(r) = {} /\ Cardinality(Doing(r)) = 0 /\ Changed(r) = {} /\ Cardinality(Changed(r)) = 0
  BY NothingLeft DEF Collected
<1>3. /\ \A k \in Addressed(r.cmd) : r.ideal.store[k] = store[k]
      /\ r.ideal.n = r.n /\ r.ideal.nModified = r.nModified /\ r.ideal.failed = FALSE
  BY <1>1, <1>2 DEF Collected, Pending
<1>4. Addressed(r.cmd) \subseteq Ids
  BY <1>1, AddressedIds
<1>5. /\ r.cmd.kind = "update" => op \in UpdateOp
      /\ r.cmd.kind = "delete" => op \in DeleteOp
      /\ Reach(r.cmd, op) \subseteq Addressed(r.cmd)
  BY <1>1, OpFacts DEF Collected
<1>6. op.q.id \in Ids \cup {NoId} /\ (r.cmd.kind = "update" => op.set \in Docs)
  BY <1>5 DEF UpdateOp, DeleteOp, Query
<1>7. Reach(r.cmd, op) = IF op.q.id = NoId THEN Ids ELSE {op.q.id}
  BY DEF Reach
<1>8. H = Hits(r.ideal.store, r.cmd.kind, op)
  <2>1. \A k \in (IF op.q.id = NoId THEN Ids ELSE {op.q.id}) : store[k] = r.ideal.store[k]
    BY <1>3, <1>5, <1>7
  <2>2. store \in StoreType
    BY DEF Collected
  <2> QED BY <1>1, <1>6, <2>1, <2>2, HitsAgree
<1>9. /\ H \in SUBSET Ids /\ IsFiniteSet(H) /\ \A k \in H : store[k] \in Docs
      /\ op.q.id # NoId => H \subseteq {op.q.id}
  <2>1. store \in StoreType
    BY DEF Collected
  <2> QED BY <1>6, <2>1, HitsFacts
<1>10. H \in SUBSET Reach(r.cmd, op)
  BY <1>7, <1>9
<1>11. Cardinality(H) \in Nat
  BY <1>9, FS_CardinalityType
<1> HIDE DEF H
<1> QED BY <1>1, <1>3, <1>4, <1>5, <1>6, <1>8, <1>9, <1>10, <1>11 DEF Agreed, H

\* The operation begins on the store that the ones before it should lead to.
LEMMA CollectedBefore ==
  ASSUME NEW r, NEW op, NEW x, Collected(r, op, x), r.cmd.kind \in {"update", "delete"}
  PROVE  \A k \in Addressed(x.cmd) : (\E j \in DOMAIN x.left : j <= k) => x.before[k] = store[k]
<1>1. Agreed(r, op, Hits(store, r.cmd.kind, op))
  BY CollectedFacts
<1>2. \A k \in Addressed(r.cmd) : r.ideal.store[k] = store[k]
  BY <1>1 DEF Agreed
<1> QED BY <1>2 DEF Collected

\* A delete has all the documents it found left to delete.
LEMMA CollectedDelete ==
  ASSUME NEW r, NEW op, NEW x, Collected(r, op, x), r.cmd.kind = "delete",
         x.left = [k \in Hits(store, "delete", op) |-> store[k]]
  PROVE  Pending(x, store)
<1> DEFINE H == Hits(store, "delete", op)
           o == r.ideal
<1>1. /\ \A k \in Addressed(r.cmd) : k \in Ids /\ o.store[k] = store[k]
      /\ o.n = r.n /\ o.nModified = r.nModified
      /\ H = Hits(o.store, "delete", op)
      /\ Cardinality(H) \in Nat /\ r.n \in Nat /\ r.nModified \in Nat
  <2>1. Agreed(r, op, H)
    BY CollectedFacts
  <2> HIDE DEF H
  <2> QED BY <2>1 DEF Agreed
<1>2. x.cmd = r.cmd /\ x.n = r.n /\ x.nModified = r.nModified /\ ~op.bad /\ x.ideal = OpEffect("delete", o, op)
  BY DEF Collected
<1>3. x.ideal = Outcome([k \in Ids |-> IF k \in H THEN Absent ELSE o.store[k]],
                        o.n + Cardinality(H), o.nModified, FALSE)
  BY <1>1, <1>2 DEF OpEffect, DeleteEffect
<1>4. DOMAIN x.left = H
  OBVIOUS
<1> HIDE DEF H, o
<1>5. Doing(x) = H
  BY <1>2, <1>4 DEF Doing
<1>6. Changed(x) = {} /\ Cardinality(Changed(x)) = 0
  <2>1. Changed(x) = {}
    BY <1>2 DEF Changed
  <2> QED BY <2>1, FS_EmptySet
<1>7. /\ x.ideal.store = [k \in Ids |-> IF k \in H THEN Absent ELSE o.store[k]]
      /\ x.ideal.n = o.n + Cardinality(H) /\ x.ideal.nModified = o.nModified /\ x.ideal.failed = FALSE
  BY <1>3 DEF Outcome
<1>8. \A k \in Addressed(x.cmd) : x.ideal.store[k] = IF k \in Doing(x) THEN New(x, k) ELSE store[k]
  BY <1>1, <1>2, <1>5, <1>7 DEF New
<1>9. x.ideal.n = x.n + Cardinality(Doing(x)) /\ x.ideal.nModified = x.nModified + Cardinality(Changed(x))
  BY <1>1, <1>2, <1>5, <1>6, <1>7
<1>10. \A k \in Addressed(x.cmd) : (\E j \in DOMAIN x.left : j <= k) => x.before[k] = store[k]
  BY CollectedBefore
<1> QED BY <1>4, <1>5, <1>7, <1>8, <1>9, <1>10 DEF Pending

\* An update writes the documents it found, up to one it may not write.
LEMMA CollectedUpdate ==
  ASSUME NEW r, NEW op, NEW x, Collected(r, op, x), r.cmd.kind = "update",
         x.left = [k \in Hits(store, "update", op) |-> store[k]], x.fresh = FALSE,
         ~ (Hits(store, "update", op) = {} /\ op.upsert)
  PROVE  Pending(x, store)
<1> DEFINE H == Hits(store, "update", op)
           o == r.ideal
           hits == {k \in H : \A j \in H : j <= k => SetAllowed(op, j)}
           new == [k \in Ids |-> IF k \in hits THEN ApplySet(o.store[k], op.set) ELSE o.store[k]]
           changed == {k \in hits : new[k] # o.store[k]}
<1>1. /\ \A k \in Addressed(r.cmd) : k \in Ids /\ o.store[k] = store[k]
      /\ o.n = r.n /\ o.nModified = r.nModified
      /\ H = Hits(o.store, "update", op) /\ H \in SUBSET Addressed(r.cmd) /\ IsFiniteSet(H)
      /\ r.n \in Nat /\ r.nModified \in Nat
  <2>1. Agreed(r, op, H)
    BY CollectedFacts
  <2> HIDE DEF H
  <2> QED BY <2>1 DEF Agreed
<1>2. /\ x.cmd = r.cmd /\ x.n = r.n /\ x.nModified = r.nModified /\ ~op.bad
      /\ x.ideal = OpEffect("update", o, op) /\ Op(x) = op
  BY DEF Collected
<1>3. x.ideal = UpdateEffect(o, op)
  BY <1>2 DEF OpEffect
<1>4. ~ (H = {} /\ op.upsert)
  OBVIOUS
<1>5. x.left = [k \in H |-> store[k]] /\ DOMAIN x.left = H
  OBVIOUS
<1>6. UpdateEffect(o, op) =
        IF op.bad THEN [o EXCEPT !.failed = TRUE]
        ELSE IF H = {} /\ op.upsert THEN UpsertEffect(o, op)
        ELSE Outcome(new, o.n + Cardinality(hits), o.nModified + Cardinality(changed), hits # H)
  <2>1. Hits(o.store, "update", op) = H
    BY <1>1
  <2> HIDE DEF H, o
  <2> QED BY <2>1 DEF UpdateEffect
<1> HIDE DEF H, o
<1>7. Doing(x) = hits
  BY <1>2, <1>5 DEF Doing
<1>8. \A k \in hits : k \in Ids /\ k \in H /\ o.store[k] = store[k] /\ new[k] = ApplySet(store[k], op.set)
  BY <1>1
<1>9. Changed(x) = changed
  <2> HIDE DEF hits, new
  <2> QED BY <1>2, <1>5, <1>7, <1>8 DEF Changed
<1>10. x.ideal = Outcome(new, o.n + Cardinality(hits), o.nModified + Cardinality(changed), hits # H)
  <2> HIDE DEF hits, new, changed
  <2> QED BY <1>2, <1>3, <1>4, <1>6
<1>11. /\ x.ideal.store = new /\ x.ideal.n = o.n + Cardinality(hits)
       /\ x.ideal.nModified = o.nModified + Cardinality(changed) /\ x.ideal.failed = (hits # H)
  <2> HIDE DEF hits, new, changed
  <2> QED BY <1>10 DEF Outcome
<1>12. \A k \in Addressed(r.cmd) : k \notin hits => new[k] = store[k]
  <2> HIDE DEF hits
  <2> QED BY <1>1
<1> HIDE DEF hits, new, changed
<1>13. \A k \in Addressed(x.cmd) : x.ideal.store[k] = IF k \in Doing(x) THEN New(x, k) ELSE store[k]
  BY <1>2, <1>5, <1>7, <1>8, <1>11, <1>12 DEF New
<1>14. x.ideal.n = x.n + Cardinality(Doing(x)) /\ x.ideal.nModified = x.nModified + Cardinality(Changed(x))
  BY <1>1, <1>2, <1>7, <1>9, <1>11
<1>15. x.ideal.failed <=> Doing(x) # DOMAIN x.left
  BY <1>5, <1>7, <1>11
<1>16. \A k \in Addressed(x.cmd) : (\E j \in DOMAIN x.left : j <= k) => x.before[k] = store[k]
  BY CollectedBefore
<1> QED BY <1>13, <1>14, <1>15, <1>16 DEF Pending

\* An upsert writes one document, unless its $set has another _id.
LEMMA CollectedUpsert ==
  ASSUME NEW r, NEW op, NEW x, Collected(r, op, x), r.cmd.kind = "update", ById(op.q),
         x.left = [k \in {op.q.id} |-> [f \in {} |-> Absent]], x.fresh = TRUE,
         Hits(store, "update", op) = {}, op.upsert
  PROVE  Pending(x, store)
<1> DEFINE o == r.ideal
           id == op.q.id
           empty == [f \in {} |-> Absent]
<1>1. /\ \A k \in Addressed(r.cmd) : k \in Ids /\ o.store[k] = store[k]
      /\ o.n = r.n /\ o.nModified = r.nModified
      /\ Hits(o.store, "update", op) = {} /\ id \in Ids /\ id \in Int /\ op.set \in Docs
      /\ r.n \in Nat /\ r.nModified \in Nat /\ o.store \in StoreType /\ o \in OutcomeType
  <2> DEFINE H == Hits(store, "update", op)
  <2>1. Agreed(r, op, H)
    BY CollectedFacts
  <2>2. H = {}
    OBVIOUS
  <2>3. Typed(r) /\ o.store \in StoreType /\ o \in OutcomeType
    BY RunFacts DEF Collected
  <2>4. id # NoId
    BY DEF ById
  <2> HIDE DEF H
  <2>5. /\ \A k \in Addressed(r.cmd) : k \in Ids /\ o.store[k] = store[k]
        /\ o.n = r.n /\ o.nModified = r.nModified /\ r.n \in Nat /\ r.nModified \in Nat
        /\ H = Hits(o.store, "update", op) /\ id \in Ids \cup {NoId} /\ op.set \in Docs
    BY <2>1 DEF Agreed
  <2> HIDE DEF o, id
  <2> QED BY <2>2, <2>3, <2>4, <2>5, IdsAssumption
<1>2. /\ x.cmd = r.cmd /\ x.n = r.n /\ x.nModified = r.nModified /\ ~op.bad
      /\ x.ideal = OpEffect("update", o, op) /\ Op(x) = op
  BY DEF Collected
<1>3. x.ideal = UpsertEffect(o, op)
  <2>1. UpdateEffect(o, op) = UpsertEffect(o, op)
    <3> HIDE DEF o
    <3> QED BY <1>1, <1>2 DEF UpdateEffect
  <2> QED BY <1>2, <2>1 DEF OpEffect
<1>4. DOMAIN x.left = {id} /\ x.left[id] = empty
  OBVIOUS
<1>5. ApplySet(empty, op.set) = op.set
  BY <1>1, ApplySetToEmpty
<1> HIDE DEF empty, o, id
<1>6. Doing(x) = IF SetAllowed(op, id) THEN {id} ELSE {}
  BY <1>1, <1>2, <1>4 DEF Doing
<1>7. Changed(x) = {} /\ Cardinality(Changed(x)) = 0
  <2>1. Changed(x) = {}
    BY DEF Changed
  <2> QED BY <2>1, FS_EmptySet
<1>8. x.ideal.nModified = x.nModified + Cardinality(Changed(x)) /\ x.nModified + 0 = x.nModified
  <2>1. x.ideal.nModified = o.nModified
    BY <1>3, <1>1 DEF UpsertEffect, Outcome, OutcomeType
  <2> QED BY <1>1, <1>2, <1>7, <2>1
<1>0. \A k \in Addressed(x.cmd) : (\E j \in DOMAIN x.left : j <= k) => x.before[k] = store[k]
  BY CollectedBefore
<1>9. CASE SetAllowed(op, id)
  <2>1. x.ideal = Outcome([o.store EXCEPT ![id] = op.set], o.n + 1, o.nModified, FALSE)
    BY <1>3, <1>9 DEF UpsertEffect, id
  <2>2. x.ideal.store = [o.store EXCEPT ![id] = op.set] /\ x.ideal.n = o.n + 1 /\ x.ideal.failed = FALSE
    BY <2>1 DEF Outcome
  <2>3. Cardinality(Doing(x)) = 1
    BY <1>6, <1>9, FS_Singleton
  <2>4. \A k \in Addressed(r.cmd) : x.ideal.store[k] = IF k = id THEN op.set ELSE store[k]
    BY <1>1, <2>2 DEF StoreType
  <2>5. New(x, id) = op.set
    BY <1>2, <1>4, <1>5 DEF New
  <2>6. \A k \in Addressed(x.cmd) : x.ideal.store[k] = IF k \in Doing(x) THEN New(x, k) ELSE store[k]
    BY <1>2, <1>6, <1>9, <2>4, <2>5
  <2>7. x.ideal.n = x.n + Cardinality(Doing(x))
    BY <1>1, <1>2, <2>2, <2>3
  <2>8. x.ideal.failed <=> Doing(x) # DOMAIN x.left
    BY <1>4, <1>6, <1>9, <2>2
  <2> QED BY <1>0, <1>8, <2>6, <2>7, <2>8 DEF Pending
<1>10. CASE ~SetAllowed(op, id)
  <2>1. x.ideal = [o EXCEPT !.failed = TRUE]
    BY <1>3, <1>10 DEF UpsertEffect, id
  <2>2. x.ideal.store = o.store /\ x.ideal.n = o.n /\ x.ideal.failed = TRUE
    BY <1>1, <2>1 DEF OutcomeType
  <2>3. Doing(x) = {} /\ Cardinality(Doing(x)) = 0
    BY <1>6, <1>10, FS_EmptySet
  <2>4. \A k \in Addressed(x.cmd) : x.ideal.store[k] = IF k \in Doing(x) THEN New(x, k) ELSE store[k]
    BY <1>1, <1>2, <2>2, <2>3
  <2>5. x.ideal.n = x.n + Cardinality(Doing(x))
    BY <1>1, <1>2, <2>2, <2>3
  <2>6. x.ideal.failed <=> Doing(x) # DOMAIN x.left
    BY <1>4, <2>2, <2>3
  <2> QED BY <1>0, <1>8, <2>4, <2>5, <2>6 DEF Pending
<1> QED BY <1>9, <1>10

LEMMA CollectStep ==
  ASSUME IInv, NEW c \in Clients, CollectDocs(c)
  PROVE  IInv'
<1> DEFINE r == run[c]
           kind == r.cmd.kind
           op == r.cmd.ops[r.at]
           upsert == Collect(kind, op) = None /\ kind = "update" /\ op.upsert
           left == IF upsert THEN [k \in {op.q.id} |-> [f \in {} |-> Absent]] ELSE Collect(kind, op)
           ideal == OpEffect(kind, r.ideal, op)
           x == [r EXCEPT !.at = r.at + 1, !.fresh = upsert, !.ideal = ideal,
                          !.before = r.ideal.store, !.left = left]
           H == Hits(store, kind, op)
<1>1. /\ run' = [run EXCEPT ![c] = x] /\ r # Idle /\ Ready(r, {"update", "delete"}) /\ ~op.bad
      /\ upsert => ById(op.q)
      /\ store' = store /\ begun' = begun
  BY DEF CollectDocs
<1>2. Stores /\ Typed(r) /\ (r.alone => Pending(r, store))
  BY <1>1 DEF IInv, Running
<1>3. /\ r.at \in 1 .. Len(r.cmd.ops) /\ kind \in {"update", "delete"} /\ DOMAIN r.left = {}
      /\ r.cmd \in Commands /\ Len(r.cmd.ops) \in Nat /\ Addressed(r.cmd) \subseteq Ids
  <2> HIDE DEF r
  <2>1. r.cmd \in Commands /\ r.at \in 1 .. (Len(r.cmd.ops) + 1)
    BY <1>2, RunFacts DEF Typed
  <2>2. Len(r.cmd.ops) \in Nat /\ Addressed(r.cmd) \subseteq Ids
    BY <2>1, AddressedIds
  <2>3. r.at <= Len(r.cmd.ops) /\ kind \in {"update", "delete"} /\ DOMAIN r.left = {}
    BY <1>1 DEF Ready
  <2> QED BY <2>1, <2>2, <2>3
<1>4. /\ kind = "update" => op \in UpdateOp
      /\ kind = "delete" => op \in DeleteOp
      /\ Reach(r.cmd, op) \subseteq Addressed(r.cmd)
  BY <1>3, OpFacts
<1>5. op.q.id \in Ids \cup {NoId}
  <2> HIDE DEF op
  <2> QED BY <1>3, <1>4 DEF UpdateOp, DeleteOp, Query
<1>6. ideal \in OutcomeType
  BY <1>2, <1>3, EffectType, RunFacts
<1>7. /\ H \in SUBSET Ids /\ \A k \in H : store[k] \in Docs
      /\ op.q.id # NoId => H \subseteq {op.q.id}
  <2>1. store \in StoreType
    BY <1>2 DEF Stores
  <2> QED BY <1>5, <2>1, HitsFacts
<1>8. /\ Collect(kind, op) = [k \in H |-> store[k]]
      /\ Collect(kind, op) = None <=> H = {}
  BY <1>2, CollectIsHits DEF Stores
<1>9. Reach(r.cmd, op) = IF op.q.id = NoId THEN Ids ELSE {op.q.id}
  BY <1>3 DEF Reach
<1>10. left \in LeftType /\ DOMAIN left \subseteq Reach(r.cmd, op) /\ upsert \in BOOLEAN
  <2>1. CASE upsert
    <3>1. op.q.id \in Ids
      BY <1>1, <1>5, <2>1 DEF ById
    <3>2. [f \in {} |-> Absent] \in Docs
      <4>1. [f \in {} |-> Absent] \in [{} -> Vals]
        OBVIOUS
      <4> QED BY <4>1 DEF Docs
    <3>3. left \in [{op.q.id} -> Docs]
      <4> HIDE DEF op
      <4> QED BY <2>1, <3>2
    <3>4. op.q.id # NoId
      BY <3>1, IdsAssumption
    <3>5. upsert \in BOOLEAN
      OBVIOUS
    <3> HIDE DEF left, op, upsert
    <3>6. DOMAIN left = {op.q.id} /\ {op.q.id} \in SUBSET Ids
      BY <3>1, <3>3
    <3>7. left \in LeftType
      BY <3>3, <3>6 DEF LeftType
    <3> QED BY <1>9, <3>4, <3>5, <3>6, <3>7
  <2>2. CASE ~upsert
    <3> HIDE DEF H, upsert, op
    <3>1. left = [k \in H |-> store[k]]
      BY <1>8, <2>2
    <3>2. left \in [H -> Docs]
      BY <1>7, <3>1
    <3>3. upsert \in BOOLEAN
      BY DEF upsert
    <3> HIDE DEF left
    <3>4. left \in LeftType /\ DOMAIN left = H
      BY <1>7, <3>2 DEF LeftType
    <3> QED BY <1>7, <1>9, <3>3, <3>4
  <2> QED BY <2>1, <2>2
<1>11. /\ x \in RunType /\ x.cmd = r.cmd /\ x.at = r.at + 1 /\ x.left = left /\ x.fresh = upsert
       /\ x.n = r.n /\ x.nModified = r.nModified /\ x.ideal = ideal /\ x.alone = r.alone
       /\ x.before = r.ideal.store
  <2>1. r \in RunType /\ r.at + 1 \in Nat /\ r.ideal.store \in StoreType
    BY <1>2, RunFacts DEF Typed
  <2>2. x = [r EXCEPT !.at = r.at + 1, !.fresh = upsert, !.ideal = ideal,
                      !.before = r.ideal.store, !.left = left]
    OBVIOUS
  <2>3. left \in LeftType /\ upsert \in BOOLEAN
    BY <1>10
  <2> HIDE DEF r, x, ideal, left, upsert
  <2>4. x \in RunType
    BY <1>6, <2>1, <2>2, <2>3 DEF RunType
  <2> QED BY <2>1, <2>2, <2>4 DEF RunType
<1>12. Op(x) = op
  <2>1. x.at - 1 = r.at
    BY <1>3, <1>11
  <2> QED BY <1>11, <2>1 DEF Op
<1> HIDE DEF x, op, left, upsert, H, ideal
<1>13. Typed(x)
  <2>1. r.nModified \in 0 .. r.n
    BY <1>2 DEF Typed
  <2>2. r.at + 1 \in 1 .. (Len(r.cmd.ops) + 1) /\ r.at + 1 > 1
    BY <1>3
  <2> QED BY <1>3, <1>10, <1>11, <1>12, <2>1, <2>2 DEF Typed
<1>14. ASSUME x.alone PROVE Pending(x, store)
  <2>1. Collected(r, op, x)
    <3>1. Pending(r, store)
      BY <1>2, <1>11, <1>14
    <3> QED BY <1>1, <1>2, <1>3, <1>11, <1>12, <3>1 DEF Collected, Stores, op, ideal
  <2>2. CASE kind = "delete"
    <3>1. x.left = [k \in H |-> store[k]]
      BY <1>8, <1>11, <2>2 DEF left, upsert
    <3>2. x.left = [k \in Hits(store, "delete", op) |-> store[k]]
      BY <2>2, <3>1 DEF H
    <3> QED BY <2>1, <2>2, <3>2, CollectedDelete
  <2>3. CASE kind = "update" /\ ~upsert
    <3>1. x.left = [k \in H |-> store[k]] /\ x.fresh = FALSE /\ ~ (H = {} /\ op.upsert)
      BY <1>8, <1>10, <1>11, <2>3 DEF left, upsert
    <3>2. H = Hits(store, "update", op)
      BY <2>3 DEF H
    <3> QED BY <2>1, <2>3, <3>1, <3>2, CollectedUpdate
  <2>4. CASE kind = "update" /\ upsert
    <3>1. x.left = [k \in {op.q.id} |-> [f \in {} |-> Absent]] /\ x.fresh = TRUE /\ ById(op.q)
      BY <1>1, <1>10, <1>11, <2>4 DEF left
    <3>2. Hits(store, "update", op) = {} /\ op.upsert
      BY <1>8, <2>4 DEF H, upsert
    <3> QED BY <2>1, <2>4, <3>1, <3>2, CollectedUpsert
  <2> QED BY <1>3, <2>2, <2>3, <2>4
<1>15. x.cmd = r.cmd /\ x.alone = r.alone /\ store' \in StoreType
  BY <1>1, <1>2, <1>11 DEF Stores
<1> QED BY <1>1, <1>13, <1>14, <1>15, OthersKept

-----------------------------------------------------------------------------
(* A command that writes the next of the documents it has left.              *)
\* 1 for a document that $set changes, 0 for others.
Counted(r) == IF r.cmd.kind = "update" THEN Modified(r) ELSE 0

\* x is r with its next document written.
Written(r, x) ==
  /\ Typed(r) /\ DOMAIN r.left # {}
  /\ r.cmd.kind = "update" => SetAllowed(Op(r), NextId(r))
  /\ x \in RunType /\ x.cmd = r.cmd /\ x.at = r.at /\ x.left = DropNext(r) /\ x.fresh = r.fresh
  /\ x.n = r.n + 1 /\ x.nModified = r.nModified + Counted(r)
  /\ x.ideal = r.ideal /\ x.before = r.before /\ x.alone = r.alone

\* The next document is one to be written; what is left else stays.
LEMMA WrittenFacts ==
  ASSUME NEW r, NEW x, Written(r, x), NEW k0, k0 = NextId(r)
  PROVE  /\ k0 \in DOMAIN r.left /\ k0 \in Ids /\ k0 \in Reach(r.cmd, Op(r)) /\ k0 \in Addressed(r.cmd)
         /\ DOMAIN x.left = DOMAIN r.left \ {k0} /\ \A k \in DOMAIN x.left : x.left[k] = r.left[k]
         /\ Op(x) = Op(r) /\ \A k \in DOMAIN x.left : New(x, k) = New(r, k)
         /\ k0 \in Doing(r) /\ Doing(x) = Doing(r) \ {k0}
         /\ \A k \in DOMAIN r.left : k \in Int /\ k0 <= k
<1>1. /\ r.cmd \in Commands /\ DOMAIN r.left \in SUBSET Ids /\ DOMAIN r.left # {}
      /\ r.at \in 1 .. (Len(r.cmd.ops) + 1) /\ r.at > 1
      /\ DOMAIN r.left \subseteq Reach(r.cmd, Op(r))
  BY RunFacts DEF Written, Typed
<1>2. /\ k0 \in DOMAIN r.left /\ k0 \in Int
      /\ \A k \in DOMAIN r.left : k \in Int /\ k0 <= k
  BY <1>1, MinIsMin DEF NextId
<1>3. Len(r.cmd.ops) \in Nat
  BY <1>1, AddressedIds
<1>4. Reach(r.cmd, Op(r)) \subseteq Addressed(r.cmd)
  <2>1. r.at - 1 \in 1 .. Len(r.cmd.ops) /\ Op(r) = r.cmd.ops[r.at - 1]
    BY <1>1, <1>3 DEF Op
  <2> QED BY <1>1, <2>1, OpFacts
<1>5. DOMAIN x.left = DOMAIN r.left \ {k0} /\ \A k \in DOMAIN x.left : x.left[k] = r.left[k]
  BY DEF Written, DropNext
<1>6. x.cmd = r.cmd /\ Op(x) = Op(r)
  BY DEF Written, Op
<1>7. \A k \in DOMAIN x.left : New(x, k) = New(r, k)
  BY <1>5, <1>6 DEF New
<1>8. r.cmd.kind = "update" => SetAllowed(Op(r), k0)
  BY DEF Written
<1>9. k0 \in Doing(r)
  <2>1. \A j \in DOMAIN r.left : j <= k0 => j = k0
    BY <1>2
  <2> QED BY <1>2, <1>8, <2>1 DEF Doing
<1>10. ASSUME NEW k \in DOMAIN r.left, k # k0 PROVE k \in Doing(x) <=> k \in Doing(r)
  BY <1>5, <1>6, <1>8, <1>10 DEF Doing
<1>11. Doing(x) = Doing(r) \ {k0}
  <2>1. Doing(x) \subseteq DOMAIN r.left \ {k0} /\ Doing(r) \subseteq DOMAIN r.left
    BY <1>5 DEF Doing
  <2> QED BY <1>10, <2>1
<1> QED BY <1>1, <1>2, <1>4, <1>5, <1>6, <1>7, <1>9, <1>11

\* The counts count the documents written.
LEMMA WrittenCounts ==
  ASSUME NEW r, NEW x, Written(r, x)
  PROVE  /\ Counted(r) \in {0, 1}
         /\ x.n + Cardinality(Doing(x)) = r.n + Cardinality(Doing(r))
         /\ x.nModified + Cardinality(Changed(x)) = r.nModified + Cardinality(Changed(r))
<1> DEFINE k0 == NextId(r)
           same(k) == ApplySet(r.left[k], Op(r).set) = r.left[k]
<1>1. /\ k0 \in DOMAIN r.left /\ DOMAIN x.left = DOMAIN r.left \ {k0}
      /\ \A k \in DOMAIN x.left : x.left[k] = r.left[k]
      /\ Op(x) = Op(r) /\ k0 \in Doing(r) /\ Doing(x) = Doing(r) \ {k0}
  BY WrittenFacts
<1>2. /\ x.cmd = r.cmd /\ x.fresh = r.fresh /\ x.n = r.n + 1 /\ x.nModified = r.nModified + Counted(r)
      /\ r.n \in Nat /\ r.nModified \in Nat /\ IsFiniteSet(DOMAIN r.left)
  BY RunFacts DEF Written
<1>3. Counted(r) = IF r.cmd.kind = "update" /\ ~r.fresh /\ ~same(k0) THEN 1 ELSE 0
  BY DEF Counted, Modified
<1>4. /\ Doing(r) \subseteq DOMAIN r.left /\ Changed(r) \subseteq DOMAIN r.left
      /\ Changed(r) = {k \in Doing(r) : r.cmd.kind = "update" /\ ~r.fresh /\ ~same(k)}
  BY DEF Doing, Changed
<1>5. Changed(x) = {k \in Doing(x) : r.cmd.kind = "update" /\ ~r.fresh /\ ~same(k)}
  <2>1. Doing(x) \subseteq DOMAIN x.left
    BY DEF Doing
  <2> QED BY <1>1, <1>2, <2>1 DEF Changed
<1>6. IsFiniteSet(Doing(r)) /\ IsFiniteSet(Changed(r)) /\ IsFiniteSet(Doing(x)) /\ IsFiniteSet(Changed(x))
  <2>1. IsFiniteSet(Doing(r)) /\ IsFiniteSet(Changed(r))
    BY <1>2, <1>4, FS_Subset
  <2>2. Doing(x) \subseteq Doing(r) /\ Changed(x) \subseteq Changed(r)
    BY <1>1, <1>4, <1>5
  <2> QED BY <2>1, <2>2, FS_Subset
<1>7. /\ Cardinality(Doing(r)) \in Nat /\ Cardinality(Doing(x)) \in Nat
      /\ Cardinality(Changed(r)) \in Nat /\ Cardinality(Changed(x)) \in Nat
  BY <1>6, FS_CardinalityType
<1> HIDE DEF k0
<1>8. Cardinality(Doing(x)) = Cardinality(Doing(r)) - 1
  BY <1>1, <1>6, FS_RemoveElement
<1>9. Cardinality(Changed(x)) = Cardinality(Changed(r)) - Counted(r)
  <2>1. CASE r.cmd.kind = "update" /\ ~r.fresh /\ ~same(k0)
    <3> HIDE DEF same
    <3>1. k0 \in Changed(r) /\ Changed(x) = Changed(r) \ {k0}
      BY <1>1, <1>4, <1>5, <2>1
    <3>2. Cardinality(Changed(x)) = Cardinality(Changed(r)) - 1
      BY <1>6, <3>1, FS_RemoveElement
    <3> QED BY <1>3, <2>1, <3>2
  <2>2. CASE ~ (r.cmd.kind = "update" /\ ~r.fresh /\ ~same(k0))
    <3> HIDE DEF same
    <3>1. Changed(x) = Changed(r)
      BY <1>1, <1>4, <1>5, <2>2
    <3> QED BY <1>3, <1>7, <2>2, <3>1
  <2> QED BY <2>1, <2>2
<1>10. Counted(r) \in {0, 1}
  <2> HIDE DEF same
  <2> QED BY <1>3
<1> QED BY <1>2, <1>7, <1>8, <1>9, <1>10

LEMMA WriteStep ==
  ASSUME IInv, NEW c \in Clients, run[c] # Idle, NEW x, Written(run[c], x),
         run' = [run EXCEPT ![c] = x], begun' = begun,
         store' = [store EXCEPT ![NextId(run[c])] = New(run[c], NextId(run[c]))]
  PROVE  IInv'
<1> DEFINE r == run[c]
           k0 == NextId(r)
<1>1. Stores /\ Typed(r) /\ (r.alone => Pending(r, store)) /\ store \in StoreType
  BY DEF IInv, Running, Stores
<1>2. /\ k0 \in DOMAIN r.left /\ k0 \in Ids /\ k0 \in Reach(r.cmd, Op(r)) /\ k0 \in Addressed(r.cmd)
      /\ DOMAIN x.left = DOMAIN r.left \ {k0} /\ \A k \in DOMAIN x.left : x.left[k] = r.left[k]
      /\ Op(x) = Op(r) /\ \A k \in DOMAIN x.left : New(x, k) = New(r, k)
      /\ k0 \in Doing(r) /\ Doing(x) = Doing(r) \ {k0}
      /\ k0 \in Int /\ \A k \in DOMAIN r.left : k \in Int /\ k0 <= k
  BY WrittenFacts, IdsAssumption
<1>3. /\ Counted(r) \in {0, 1}
      /\ x.n + Cardinality(Doing(x)) = r.n + Cardinality(Doing(r))
      /\ x.nModified + Cardinality(Changed(x)) = r.nModified + Cardinality(Changed(r))
  BY WrittenCounts
<1>4. /\ x \in RunType /\ x.cmd = r.cmd /\ x.at = r.at /\ x.n = r.n + 1
      /\ x.nModified = r.nModified + Counted(r) /\ x.ideal = r.ideal /\ x.alone = r.alone
      /\ x.before = r.before /\ DOMAIN r.left # {}
  BY DEF Written
<1>5. /\ r.cmd \in Commands /\ r.n \in Nat /\ r.nModified \in 0 .. r.n
      /\ r.at \in 1 .. (Len(r.cmd.ops) + 1) /\ r.at > 1 /\ r.cmd.kind \in {"update", "delete"}
      /\ DOMAIN r.left \subseteq Reach(r.cmd, Op(r)) /\ \A k \in DOMAIN r.left : r.left[k] \in Docs
  BY <1>1, <1>4, RunFacts DEF Typed
<1> HIDE DEF k0, r
<1>6. Typed(x)
  <2>1. x.nModified \in 0 .. x.n
    BY <1>3, <1>4, <1>5
  <2>2. Reach(x.cmd, Op(x)) = Reach(r.cmd, Op(r)) /\ DOMAIN x.left \subseteq DOMAIN r.left
    BY <1>2, <1>4
  <2> QED BY <1>4, <1>5, <2>1, <2>2 DEF Typed
<1>7. New(r, k0) \in Docs \cup {Absent}
  <2>1. CASE r.cmd.kind = "update"
    <3>1. Len(r.cmd.ops) \in Nat
      BY <1>5, AddressedIds
    <3>2. r.at - 1 \in 1 .. Len(r.cmd.ops) /\ Op(r) = r.cmd.ops[r.at - 1]
      BY <1>5, <3>1 DEF Op
    <3>3. Op(r) \in UpdateOp
      BY <1>5, <2>1, <3>2, OpFacts
    <3>4. Op(r).set \in Docs
      BY <3>3 DEF UpdateOp
    <3> QED BY <1>2, <1>5, <2>1, <3>4, ApplySetType DEF New
  <2>2. CASE r.cmd.kind # "update"
    BY <2>2 DEF New
  <2> QED BY <2>1, <2>2
<1>8. /\ store' = [store EXCEPT ![k0] = New(r, k0)] /\ store' \in StoreType
      /\ \A k \in Ids \ Addressed(x.cmd) : store'[k] = store[k]
      /\ \A k \in Ids : store'[k] = IF k = k0 THEN New(r, k0) ELSE store[k]
  <2>1. store' = [store EXCEPT ![k0] = New(r, k0)]
    BY DEF k0, r
  <2> QED BY <1>1, <1>2, <1>4, <1>7, <2>1 DEF StoreType
<1>9. ASSUME x.alone PROVE Pending(x, store')
  <2>1. Pending(r, store)
    BY <1>1, <1>4, <1>9
  <2>2. Addressed(r.cmd) \subseteq Ids
    BY <1>5, AddressedIds
  <2>3. ASSUME NEW k \in Addressed(x.cmd)
        PROVE  x.ideal.store[k] = IF k \in Doing(x) THEN New(x, k) ELSE store'[k]
    <3>1. k \in Ids /\ r.ideal.store[k] = IF k \in Doing(r) THEN New(r, k) ELSE store[k]
      BY <1>4, <2>1, <2>2 DEF Pending
    <3>2. k \in Doing(x) => k \in DOMAIN x.left
      BY DEF Doing
    <3> QED BY <1>2, <1>4, <1>8, <3>1, <3>2
  <2>4. x.ideal.n = x.n + Cardinality(Doing(x)) /\ x.ideal.nModified = x.nModified + Cardinality(Changed(x))
    BY <1>3, <1>4, <2>1 DEF Pending
  <2>5. x.ideal.failed <=> Doing(x) # DOMAIN x.left
    <3>1. r.ideal.failed <=> Doing(r) # DOMAIN r.left
      BY <2>1 DEF Pending
    <3>2. Doing(r) \subseteq DOMAIN r.left
      BY DEF Doing
    <3>3. Doing(x) = DOMAIN x.left <=> Doing(r) = DOMAIN r.left
      BY <1>2, <3>2
    <3> QED BY <1>4, <3>1, <3>3
  <2>6. ASSUME NEW k \in Addressed(x.cmd), NEW j \in DOMAIN x.left, j <= k
        PROVE  x.before[k] = store'[k]
    <3>1. k \in Ids /\ k \in Int /\ k # k0 /\ j \in DOMAIN r.left
      BY <1>2, <1>4, <2>2, <2>6, IdsAssumption
    <3>2. r.before[k] = store[k]
      BY <1>4, <2>1, <2>6, <3>1 DEF Pending
    <3> QED BY <1>4, <1>8, <3>1, <3>2
  <2> QED BY <2>3, <2>4, <2>5, <2>6 DEF Pending
<1> QED BY <1>4, <1>6, <1>8, <1>9, OthersKept DEF r

LEMMA UpdateStep ==
  ASSUME IInv, NEW c \in Clients, Update(c)
  PROVE  IInv' /\ run'[c] \in RunType
<1> DEFINE r == run[c]
           x == [r EXCEPT !.left = DropNext(r), !.n = r.n + 1, !.nModified = r.nModified + Modified(r)]
<1>1. /\ r # Idle /\ r.cmd.kind = "update" /\ DOMAIN r.left # {} /\ SetAllowed(Op(r), NextId(r))
      /\ store' = [store EXCEPT ![NextId(r)] = New(r, NextId(r))]
      /\ run' = [run EXCEPT ![c] = x] /\ begun' = begun
  BY DEF Update, Writable
<1>2. Typed(r) /\ r \in RunType
  BY <1>1 DEF IInv, Running, Typed
<1>3. Modified(r) \in {0, 1}
  BY DEF Modified
<1>4. DropNext(r) \in LeftType
  <2>1. /\ DOMAIN r.left \ {NextId(r)} \in SUBSET Ids
        /\ DropNext(r) \in [DOMAIN r.left \ {NextId(r)} -> Docs]
    BY <1>2, RunFacts DEF DropNext
  <2> HIDE DEF r
  <2> QED BY <2>1 DEF LeftType
<1>5. /\ x \in RunType /\ x.cmd = r.cmd /\ x.at = r.at /\ x.left = DropNext(r) /\ x.fresh = r.fresh
      /\ x.n = r.n + 1 /\ x.nModified = r.nModified + Modified(r)
      /\ x.ideal = r.ideal /\ x.before = r.before /\ x.alone = r.alone
  <2>1. r.n + 1 \in Nat /\ r.nModified + Modified(r) \in Nat
    BY <1>2, <1>3, RunFacts
  <2> HIDE DEF r
  <2> QED BY <1>2, <1>4, <2>1 DEF RunType
<1> HIDE DEF x
<1>6. Written(r, x)
  BY <1>1, <1>2, <1>5 DEF Written, Counted
<1>7. IInv'
  BY <1>1, <1>6, WriteStep
<1>8. run'[c] \in RunType
  BY <1>1, <1>5 DEF IInv, Stores
<1> QED BY <1>7, <1>8

LEMMA DeleteStep ==
  ASSUME IInv, NEW c \in Clients, Delete(c)
  PROVE  IInv' /\ run'[c] \in RunType
<1> DEFINE r == run[c]
           x == [r EXCEPT !.left = DropNext(r), !.n = r.n + 1]
<1>1. /\ r # Idle /\ r.cmd.kind = "delete" /\ DOMAIN r.left # {}
      /\ store' = [store EXCEPT ![NextId(r)] = New(r, NextId(r))]
      /\ run' = [run EXCEPT ![c] = x] /\ begun' = begun
  BY DEF Delete, Writable
<1>2. Typed(r) /\ r \in RunType
  BY <1>1 DEF IInv, Running, Typed
<1>3. DropNext(r) \in LeftType
  <2>1. /\ DOMAIN r.left \ {NextId(r)} \in SUBSET Ids
        /\ DropNext(r) \in [DOMAIN r.left \ {NextId(r)} -> Docs]
    BY <1>2, RunFacts DEF DropNext
  <2> HIDE DEF r
  <2> QED BY <2>1 DEF LeftType
<1>4. /\ x \in RunType /\ x.cmd = r.cmd /\ x.at = r.at /\ x.left = DropNext(r) /\ x.fresh = r.fresh
      /\ x.n = r.n + 1 /\ x.nModified = r.nModified /\ x.ideal = r.ideal /\ x.before = r.before
      /\ x.alone = r.alone /\ r.nModified + 0 = r.nModified
  <2>1. r.n + 1 \in Nat /\ r.nModified \in Nat /\ r.nModified + 0 = r.nModified
    BY <1>2, RunFacts
  <2>2. x = [r EXCEPT !.left = DropNext(r), !.n = r.n + 1]
    OBVIOUS
  <2> HIDE DEF r, x
  <2> QED BY <1>2, <1>3, <2>1, <2>2 DEF RunType
<1> HIDE DEF x
<1>5. Written(r, x)
  BY <1>1, <1>2, <1>4 DEF Written, Counted
<1>6. IInv'
  BY <1>1, <1>5, WriteStep
<1>7. run'[c] \in RunType
  BY <1>1, <1>4 DEF IInv, Stores
<1> QED BY <1>6, <1>7

-----------------------------------------------------------------------------
(* The first and the last step of a command.                                 *)
\* A command that begins is alone if it meets no other, and the ones it meets
\* are not alone from then on.
LEMMA BeginStep ==
  ASSUME IInv, NEW c \in Clients, NEW cmd \in Commands, Begin(c, cmd)
  PROVE  IInv'
<1> DEFINE met == {d \in Running : Overlap(cmd, run[d].cmd)}
           o == Outcome(store, 0, 0, FALSE)
           x == [cmd |-> cmd, at |-> 1, left |-> None, fresh |-> FALSE, n |-> 0, nModified |-> 0,
                 ideal |-> o, before |-> store, alone |-> met = {}]
<1>1. /\ run[c] = Idle /\ begun < MaxCommands /\ begun' = begun + 1 /\ store' = store
      /\ run' = [d \in Clients |-> IF d = c THEN x
                                   ELSE IF d \in met THEN [run[d] EXCEPT !.alone = FALSE] ELSE run[d]]
  BY DEF Begin
<1>2. Stores /\ DOMAIN run = Clients /\ store \in StoreType
  BY DEF IInv, Stores
<1>3. Stores'
  <2>1. begun' \in 0 .. MaxCommands
    BY <1>1, <1>2, IdsAssumption DEF Stores
  <2>2. DOMAIN run' = Clients
    BY <1>1
  <2> QED BY <1>1, <1>2, <2>1, <2>2 DEF Stores
<1>4. /\ x \in RunType /\ Typed(x) /\ x.cmd = cmd /\ x.left = None /\ DOMAIN x.left = {}
      /\ x.n = 0 /\ x.nModified = 0 /\ x.ideal = o /\ x.alone = (met = {})
  <2>1. None \in LeftType /\ DOMAIN None = {}
    <3>1. None \in [{} -> Docs] /\ {} \in SUBSET Ids
      BY DEF None
    <3> QED BY <3>1 DEF LeftType
  <2>2. o \in OutcomeType
    BY <1>2 DEF Outcome, OutcomeType
  <2>3. Len(cmd.ops) \in Nat
    BY AddressedIds
  <2>4. /\ x.cmd = cmd /\ x.left = None /\ x.at = 1 /\ x.n = 0 /\ x.nModified = 0 /\ x.ideal = o
        /\ x.alone = (met = {})
    OBVIOUS
  <2>5. x \in RunType
    <3> HIDE DEF o, met
    <3> QED BY <1>2, <2>1, <2>2 DEF RunType
  <2> HIDE DEF x, o, met
  <2> QED BY <2>1, <2>3, <2>4, <2>5 DEF Typed
<1>5. o.store = store /\ o.n = 0 /\ o.nModified = 0 /\ o.failed = FALSE
  BY DEF Outcome
<1> HIDE DEF x, o
<1>6. Pending(x, store)
  <2>1. /\ Doing(x) = {} /\ Cardinality(Doing(x)) = 0 /\ Changed(x) = {} /\ Cardinality(Changed(x)) = 0
    BY <1>4, NothingLeft
  <2> QED BY <1>4, <1>5, <2>1 DEF Pending
<1>7. ASSUME NEW d \in Running', d # c
      PROVE  /\ d \in Running /\ d \in Clients
             /\ d \in met => run'[d] = [run[d] EXCEPT !.alone = FALSE]
             /\ d \notin met => run'[d] = run[d]
  BY <1>1, <1>7 DEF Running
<1>8. run'[c] = x /\ c \notin Running /\ Running' \subseteq Running \cup {c}
  BY <1>1, <1>7 DEF Running
<1>9. ASSUME NEW d \in Running', d # c
      PROVE  /\ Typed(run'[d]) /\ run'[d].cmd = run[d].cmd
             /\ run'[d].alone => d \notin met
  <2>1. Typed(run[d]) /\ run[d] \in RunType
    BY <1>7, <1>9 DEF IInv, Typed
  <2>2. CASE d \in met
    <3> DEFINE y == [run[d] EXCEPT !.alone = FALSE]
    <3>1. run'[d] = y
      BY <1>7, <1>9, <2>2
    <3>2. /\ y \in RunType /\ y.cmd = run[d].cmd /\ y.at = run[d].at /\ y.left = run[d].left
          /\ y.n = run[d].n /\ y.nModified = run[d].nModified /\ y.alone = FALSE
      BY <2>1 DEF RunType
    <3> HIDE DEF y
    <3>3. Op(y) = Op(run[d])
      BY <3>2 DEF Op
    <3>4. Typed(y)
      BY <2>1, <3>2, <3>3 DEF Typed
    <3> QED BY <3>1, <3>2, <3>4
  <2>3. CASE d \notin met
    BY <1>7, <1>9, <2>1, <2>3
  <2> QED BY <2>2, <2>3
<1>10. ASSUME NEW d \in Running' PROVE Typed(run'[d])
  <2>1. CASE d = c
    BY <1>4, <1>8, <2>1
  <2> QED BY <1>9, <2>1
<1>11. ASSUME NEW d \in Running', d # c PROVE Overlap(cmd, run[d].cmd) <=> d \in met
  BY <1>7, <1>11
<1> HIDE DEF met
<1>12. ASSUME NEW d \in Running', run'[d].alone PROVE Apart(d)'
  <2> SUFFICES ASSUME NEW e \in Running', e # d
               PROVE  ~Overlap(run'[d].cmd, run'[e].cmd)
    BY DEF Apart
  <2>1. CASE d = c
    <3>1. met = {} /\ run'[d].cmd = cmd
      BY <1>4, <1>8, <1>12, <2>1
    <3>2. run'[e].cmd = run[e].cmd /\ e \notin met
      BY <1>9, <2>1, <3>1
    <3> QED BY <1>11, <2>1, <3>1, <3>2
  <2>2. CASE d # c /\ e = c
    <3>1. d \notin met /\ run'[d].cmd = run[d].cmd /\ run'[e].cmd = cmd
      BY <1>4, <1>8, <1>9, <1>12, <2>2
    <3>2. ~Overlap(cmd, run[d].cmd)
      BY <1>11, <2>2, <3>1
    <3> QED BY <3>1, <3>2 DEF Overlap
  <2>3. CASE d # c /\ e # c
    <3>1. /\ d \in Running /\ e \in Running /\ run'[d] = run[d] /\ run[d].alone
          /\ run'[e].cmd = run[e].cmd
      BY <1>7, <1>9, <1>12, <2>3
    <3>2. Apart(d)
      BY <3>1 DEF IInv
    <3> QED BY <3>1, <3>2 DEF Apart
  <2> QED BY <2>1, <2>2, <2>3
<1>13. ASSUME NEW d \in Running', run'[d].alone PROVE Pending(run'[d], store')
  <2>1. CASE d = c
    BY <1>1, <1>6, <1>8, <2>1
  <2>2. CASE d # c
    <3>1. d \in Running /\ run'[d] = run[d] /\ run[d].alone
      BY <1>7, <1>9, <1>13, <2>2
    <3> QED BY <1>1, <3>1 DEF IInv
  <2> QED BY <2>1, <2>2
<1> QED BY <1>3, <1>10, <1>12, <1>13 DEF IInv

\* Commands that end leave the documents of the undisturbed ones as they are.
LEMMA EndStep ==
  ASSUME IInv, begun' = begun, store' \in StoreType,
         DOMAIN run' = Clients, \A c \in Clients : run'[c] \in {run[c], Idle},
         \A c \in Running' : Apart(c) => \A k \in Addressed(run[c].cmd) : store'[k] = store[k]
  PROVE  IInv'
<1>1. \A c \in Running' : c \in Running /\ c \in Clients /\ run'[c] = run[c]
  BY DEF Running
<1>2. Stores'
  BY DEF IInv, Stores
<1>3. ASSUME NEW c \in Running' PROVE Typed(run'[c])
  BY <1>1 DEF IInv
<1>4. ASSUME NEW c \in Running', run'[c].alone PROVE Apart(c)' /\ Pending(run'[c], store')
  <2>1. Apart(c) /\ Pending(run[c], store)
    BY <1>1, <1>4 DEF IInv
  <2>2. Apart(c)'
    BY <1>1, <2>1 DEF Apart
  <2>3. \A k \in Addressed(run[c].cmd) : store'[k] = store[k]
    BY <1>4, <2>1
  <2>4. Pending(run[c], store')
    BY <2>1, <2>3 DEF Pending
  <2> QED BY <1>1, <1>4, <2>2, <2>4
<1> QED BY <1>2, <1>3, <1>4 DEF IInv

\* What a write of the next document writes, and where.
LEMMA NextWrite ==
  ASSUME NEW r, Typed(r), Writable(r), NEW k0, k0 = NextId(r)
  PROVE  /\ k0 \in DOMAIN r.left /\ k0 \in Ids /\ k0 \in Addressed(r.cmd) /\ k0 \in Int
         /\ \A k \in DOMAIN r.left : k \in Int /\ k0 <= k
         /\ New(r, k0) \in Docs \cup {Absent}
         /\ r.cmd.kind = "update" => Op(r).set \in Docs
<1>1. /\ r.cmd \in Commands /\ DOMAIN r.left \in SUBSET Ids /\ DOMAIN r.left # {}
      /\ r.at \in 1 .. (Len(r.cmd.ops) + 1) /\ r.at > 1
      /\ DOMAIN r.left \subseteq Reach(r.cmd, Op(r)) /\ \A k \in DOMAIN r.left : r.left[k] \in Docs
  BY RunFacts DEF Writable, Typed
<1>2. k0 \in DOMAIN r.left /\ k0 \in Int /\ \A k \in DOMAIN r.left : k \in Int /\ k0 <= k
  BY <1>1, MinIsMin DEF NextId
<1>3. r.at - 1 \in 1 .. Len(r.cmd.ops) /\ Op(r) = r.cmd.ops[r.at - 1]
  BY <1>1, AddressedIds DEF Op
<1>4. Reach(r.cmd, Op(r)) \subseteq Addressed(r.cmd) /\ (r.cmd.kind = "update" => Op(r) \in UpdateOp)
  BY <1>1, <1>3, OpFacts
<1>5. r.cmd.kind = "update" => Op(r).set \in Docs
  BY <1>4 DEF UpdateOp
<1>6. New(r, k0) \in Docs \cup {Absent}
  BY <1>1, <1>2, <1>5, ApplySetType DEF New
<1> QED BY <1>1, <1>2, <1>4, <1>5, <1>6

\* The document an insert is about to write.
LEMMA NextInsert ==
  ASSUME NEW r, Typed(r), Ready(r, {"insert"}), NEW op, op = r.cmd.ops[r.at]
  PROVE  /\ op.id \in Ids /\ op.doc \in Docs /\ op.id \in Addressed(r.cmd)
         /\ r.cmd.kind = "insert" /\ DOMAIN r.left = {} /\ r.at \in 1 .. Len(r.cmd.ops)
<1>1. /\ r.at \in 1 .. Len(r.cmd.ops) /\ r.cmd.kind = "insert" /\ DOMAIN r.left = {}
      /\ r.cmd \in Commands
  BY AddressedIds, RunFacts DEF Ready, Typed
<1>2. op \in InsertOp /\ Reach(r.cmd, op) \subseteq Addressed(r.cmd)
  BY <1>1, OpFacts
<1> QED BY <1>1, <1>2 DEF InsertOp, Reach

\* A command that fails may have written a document that it addresses.
LEMMA FailWrites ==
  ASSUME IInv, NEW c \in Clients, Fail(c)
  PROVE  store' \in StoreType /\ \A k \in Ids \ Addressed(run[c].cmd) : store'[k] = store[k]
<1> DEFINE r == run[c]
<1>1. Typed(r) /\ store \in StoreType
  BY DEF Fail, Running, IInv, Stores
<1>2. CASE store' = store
  BY <1>1, <1>2
<1>3. CASE Ready(r, {"insert"}) /\ store' = [store EXCEPT ![r.cmd.ops[r.at].id] = r.cmd.ops[r.at].doc]
  <2>1. /\ r.cmd.ops[r.at].id \in Ids /\ r.cmd.ops[r.at].doc \in Docs
        /\ r.cmd.ops[r.at].id \in Addressed(r.cmd)
    BY <1>1, <1>3, NextInsert
  <2> HIDE DEF r
  <2>2. store' \in StoreType /\ \A k \in Ids \ Addressed(r.cmd) : store'[k] = store[k]
    BY <1>1, <1>3, <2>1 DEF StoreType
  <2> QED BY <2>2 DEF r
<1>4. CASE Writable(r) /\ store' = [store EXCEPT ![NextId(r)] = New(r, NextId(r))]
  <2>1. NextId(r) \in Ids /\ NextId(r) \in Addressed(r.cmd) /\ New(r, NextId(r)) \in Docs \cup {Absent}
    BY <1>1, <1>4, NextWrite
  <2> HIDE DEF r
  <2>2. store' \in StoreType /\ \A k \in Ids \ Addressed(r.cmd) : store'[k] = store[k]
    BY <1>1, <1>4, <2>1 DEF StoreType
  <2> QED BY <2>2 DEF r
<1> QED BY <1>2, <1>3, <1>4 DEF Fail

-----------------------------------------------------------------------------
(* The invariant.                                                            *)
LEMMA InitInvariant == Init => IInv
<1> SUFFICES ASSUME Init PROVE IInv
  OBVIOUS
<1>1. Running = {}
  BY DEF Init, Running
<1>2. Stores
  BY IdsAssumption DEF Init, Stores, StoreType
<1> QED BY <1>1, <1>2 DEF IInv

LEMMA InductiveStep == IInv /\ [Next]_vars => IInv'
<1> SUFFICES ASSUME IInv, [Next]_vars PROVE IInv'
  OBVIOUS
<1>0. DOMAIN run = Clients
  BY DEF IInv, Stores
<1>1. ASSUME NEW c \in Clients, NEW cmd \in Commands, Begin(c, cmd) PROVE IInv'
  BY <1>1, BeginStep
<1>2. ASSUME NEW c \in Clients, Insert(c) PROVE IInv'
  BY <1>2, InsertStep
<1>3. ASSUME NEW c \in Clients, CollectDocs(c) PROVE IInv'
  BY <1>3, CollectStep
<1>4. ASSUME NEW c \in Clients, Update(c) PROVE IInv'
  BY <1>4, UpdateStep
<1>5. ASSUME NEW c \in Clients, Delete(c) PROVE IInv'
  BY <1>5, DeleteStep
<1>6. ASSUME NEW c \in Clients, Fail(c) PROVE IInv'
  <2>1. begun' = begun /\ run' = [run EXCEPT ![c] = Idle] /\ c \in Running
    BY <1>6 DEF Fail, Running
  <2>2. DOMAIN run' = Clients /\ \A d \in Clients : run'[d] \in {run[d], Idle}
    BY <1>0, <2>1
  <2>3. store' \in StoreType /\ \A k \in Ids \ Addressed(run[c].cmd) : store'[k] = store[k]
    BY <1>6, FailWrites
  <2>4. ASSUME NEW d \in Running', Apart(d), NEW k \in Addressed(run[d].cmd)
        PROVE  store'[k] = store[k]
    <3>1. d \in Running /\ d # c
      BY <1>0, <2>1, <2>4 DEF Running
    <3>2. Addressed(run[d].cmd) \cap Addressed(run[c].cmd) = {}
      BY <2>1, <2>4, <3>1 DEF Apart, Overlap
    <3>3. Addressed(run[d].cmd) \subseteq Ids
      BY <3>1, RunFacts, AddressedIds DEF IInv
    <3> QED BY <2>3, <2>4, <3>2, <3>3
  <2> QED BY <2>1, <2>2, <2>3, <2>4, EndStep
<1>7. ASSUME store' = store, begun' = begun, \/ run' = run
                                            \/ run' = [c \in Clients |-> Idle]
                                            \/ \E c \in Clients : run' = [run EXCEPT ![c] = Idle]
      PROVE  IInv'
  <2>1. DOMAIN run' = Clients /\ \A d \in Clients : run'[d] \in {run[d], Idle}
    BY <1>0, <1>7
  <2>2. store' \in StoreType
    BY <1>7 DEF IInv, Stores
  <2> QED BY <1>7, <2>1, <2>2, EndStep
<1>8. ASSUME NEW c \in Clients, Reply(c) PROVE IInv'
  BY <1>7, <1>8 DEF Reply
<1>9. CASE Restart
  BY <1>7, <1>9 DEF Restart
<1>10. CASE UNCHANGED vars
  BY <1>7, <1>10 DEF vars
<1> QED BY <1>1, <1>2, <1>3, <1>4, <1>5, <1>6, <1>8, <1>9, <1>10 DEF Next

LEMMA Invariance == Spec => []IInv
<1> QED BY InitInvariant, InductiveStep, PTL DEF Spec

-----------------------------------------------------------------------------
(* Copies of documents that nobody else changed.                             *)
\* What is left to write of a document that is not stale is as it was found.
Current(r, st, marked) ==
  \A k \in DOMAIN r.left \ marked :
    IF r.fresh THEN st[k] = Absent
    ELSE st[k] = r.left[k] /\ st[k] # Absent /\ Matches(Op(r).q, k, st[k])

Marks ==
  /\ run = [c \in Clients |-> run[c]] /\ stale \in [Clients -> SUBSET Ids]
  /\ \A c \in Running : Current(run[c], store, stale[c])

\* Documents that change are marked for the others that have them left.
LEMMA RacesMark ==
  ASSUME IInv, Marks, NEW c \in Clients, NEW d \in Clients
  PROVE  /\ Races(c) \in [Clients -> SUBSET Ids]
         /\ Races(c)[c] = stale[c]
         /\ d # c /\ d \in Running => Current(run[d], store', Races(c)[d])
<1>1. ASSUME NEW e \in Clients PROVE Raced(e) \subseteq Ids /\ stale[e] \subseteq Ids
  <2>1. stale[e] \subseteq Ids
    BY DEF Marks
  <2>2. e \in Running => DOMAIN run[e].left \subseteq Ids
    BY RunFacts DEF IInv
  <2> QED BY <2>1, <2>2 DEF Raced, Running
<1>2. Races(c) \in [Clients -> SUBSET Ids] /\ Races(c)[c] = stale[c]
  BY <1>1 DEF Races
<1>3. ASSUME d # c, d \in Running
      PROVE  Current(run[d], store', Races(c)[d])
  <2>1. Races(c)[d] = stale[d] \cup {k \in DOMAIN run[d].left : store'[k] # store[k]}
    BY <1>3 DEF Races, Raced, Running
  <2>2. Current(run[d], store, stale[d])
    BY <1>3 DEF Marks
  <2> QED BY <2>1, <2>2 DEF Current
<1> QED BY <1>2, <1>3

\* A command that goes on, or ends (x is Idle), marks what it writes.
LEMMA MarksKept ==
  ASSUME IInv, Marks, NEW c \in Clients, NEW x, NEW m \in SUBSET Ids, run' = [run EXCEPT ![c] = x],
         stale' = [Races(c) EXCEPT ![c] = m], x # Idle => Current(x, store', m)
  PROVE  Marks'
<1>1. DOMAIN run = Clients
  BY DEF IInv, Stores
<1>2. run' = [d \in Clients |-> run'[d]] /\ run'[c] = x /\ \A d \in Clients : d # c => run'[d] = run[d]
  BY <1>1
<1>3. \A d \in Clients : Races(c) \in [Clients -> SUBSET Ids]
                         /\ (d # c /\ d \in Running => Current(run[d], store', Races(c)[d]))
  BY RacesMark
<1>4. /\ stale' \in [Clients -> SUBSET Ids] /\ stale'[c] = m
      /\ \A d \in Clients : d # c => stale'[d] = Races(c)[d]
  BY <1>3
<1>5. ASSUME NEW d \in Running' PROVE Current(run'[d], store', stale'[d])
  <2>1. CASE d = c
    BY <1>2, <1>4, <1>5, <2>1 DEF Running
  <2>2. CASE d # c
    <3>1. d \in Clients /\ d \in Running /\ run'[d] = run[d] /\ stale'[d] = Races(c)[d]
      BY <1>2, <1>4, <1>5, <2>2 DEF Running
    <3> QED BY <1>3, <2>2, <3>1
  <2> QED BY <2>1, <2>2
<1> QED BY <1>2, <1>4, <1>5 DEF Marks

\* Without a change of the store, Races marks nothing.
LEMMA NothingMarked ==
  ASSUME IInv, Marks, store' = store, NEW c \in Clients
  PROVE  Races(c) = stale
<1>1. ASSUME NEW d \in Clients PROVE Raced(d) = {}
  BY DEF Raced
<1>2. stale \in [Clients -> SUBSET Ids]
  BY DEF Marks
<1> QED BY <1>1, <1>2 DEF Races

\* A command that has written its next document has the others left.
LEMMA WriteMarks ==
  ASSUME IInv, Marks, NEW c \in Clients, run[c] # Idle, Writable(run[c]), NEW x,
         x.cmd = run[c].cmd, x.at = run[c].at, x.fresh = run[c].fresh, x.left = DropNext(run[c]),
         store' = [store EXCEPT ![NextId(run[c])] = New(run[c], NextId(run[c]))],
         run' = [run EXCEPT ![c] = x], stale' = Races(c)
  PROVE  Marks'
<1> DEFINE r == run[c]
<1>1. Typed(r) /\ Current(r, store, stale[c]) /\ store \in StoreType /\ stale[c] \in SUBSET Ids
  BY DEF IInv, Stores, Marks, Running
<1>2. NextId(r) \in DOMAIN r.left /\ DOMAIN r.left \subseteq Ids
  BY <1>1, NextWrite, RunFacts
<1>3. Races(c) \in [Clients -> SUBSET Ids] /\ Races(c)[c] = stale[c]
  BY RacesMark
<1>4. stale' = [Races(c) EXCEPT ![c] = stale[c]]
  BY <1>3
<1> HIDE DEF r
<1>5. ASSUME NEW k \in DOMAIN r.left \ {NextId(r)} PROVE store'[k] = store[k]
  BY <1>1, <1>2, <1>5 DEF StoreType, r
<1>6. DOMAIN x.left = DOMAIN r.left \ {NextId(r)} /\ \A k \in DOMAIN x.left : x.left[k] = r.left[k]
  BY DEF DropNext, r
<1>7. Op(x) = Op(r) /\ x.fresh = r.fresh
  BY DEF Op, r
<1>8. Current(x, store', stale[c])
  BY <1>1, <1>5, <1>6, <1>7 DEF Current
<1> QED BY <1>1, <1>4, <1>8, MarksKept

\* What is collected is current.
LEMMA CollectMarks ==
  ASSUME IInv, Marks, NEW c \in Clients, CollectDocs(c)
  PROVE  Marks'
<1> DEFINE r == run[c]
           kind == r.cmd.kind
           op == r.cmd.ops[r.at]
           upsert == Collect(kind, op) = None /\ kind = "update" /\ op.upsert
           left == IF upsert THEN [k \in {op.q.id} |-> [f \in {} |-> Absent]] ELSE Collect(kind, op)
           x == [r EXCEPT !.at = r.at + 1, !.fresh = upsert, !.ideal = OpEffect(kind, r.ideal, op),
                          !.before = r.ideal.store, !.left = left]
           all == {k \in Stored(store) : Matches(op.q, k, store[k])}
           taken == IF TakesOne(kind, op) /\ all # {} THEN {Min(all)} ELSE all
<1>1. /\ run' = [run EXCEPT ![c] = x] /\ r # Idle /\ (upsert => ById(op.q))
      /\ Ready(r, {"update", "delete"}) /\ store' = store /\ stale' = [stale EXCEPT ![c] = {}]
  BY DEF CollectDocs
<1>2. Typed(r) /\ r \in RunType /\ store \in StoreType /\ r.at \in Nat
  BY <1>1, RunFacts DEF IInv, Stores, Running, Typed
<1>3. stale' = [Races(c) EXCEPT ![c] = {}]
  BY <1>1, NothingMarked
<1>4. x.cmd = r.cmd /\ x.at = r.at + 1 /\ x.fresh = upsert /\ x.left = left
  <2> HIDE DEF r, upsert, left, op
  <2> QED BY <1>2 DEF RunType
<1>5. Op(x) = op
  <2>1. x.at - 1 = r.at
    BY <1>2, <1>4
  <2> QED BY <1>4, <2>1 DEF Op
<1>6. Collect(kind, op) = [k \in taken |-> store[k]] /\ all \in SUBSET Ids
  BY DEF Collect, Stored
<1> HIDE DEF x, r, op, all, kind
<1>7. taken \subseteq all /\ (taken = {} => all = {})
  <2>1. CASE TakesOne(kind, op) /\ all # {}
    <3>1. Min(all) \in all
      BY <1>6, <2>1, MinIsMin
    <3> QED BY <2>1, <3>1
  <2>2. CASE ~ (TakesOne(kind, op) /\ all # {})
    BY <2>2
  <2> QED BY <2>1, <2>2
<1> HIDE DEF taken
<1>8. CASE upsert
  <2>1. DOMAIN x.left = {op.q.id} /\ x.fresh = TRUE
    BY <1>4, <1>8
  <2>2. taken = {}
    BY <1>6, <1>8 DEF None
  <2>3. store[op.q.id] = Absent
    <3>1. op.q.id \notin all /\ op.q.id # NoId /\ DOMAIN op.q.where = {}
      BY <1>1, <1>7, <1>8, <2>2 DEF ById
    <3>2. op.q.id \in Ids
      <4>1. r.cmd \in Commands /\ r.at \in 1 .. Len(r.cmd.ops) /\ r.cmd.kind = "update"
        BY <1>1, <1>2, <1>8, RunFacts, AddressedIds DEF Ready, Typed, kind
      <4>2. op \in UpdateOp
        BY <4>1, OpFacts DEF op
      <4> QED BY <3>1, <4>2 DEF UpdateOp, Query
    <3>3. Matches(op.q, op.q.id, store[op.q.id])
      BY <3>1 DEF Matches
    <3> QED BY <3>1, <3>2, <3>3 DEF all, Stored
  <2> QED BY <1>1, <1>3, <2>1, <2>3, MarksKept DEF Current
<1>9. CASE ~upsert
  <2>1. x.left = [k \in taken |-> store[k]] /\ x.fresh = FALSE
    BY <1>4, <1>6, <1>9
  <2>2. \A k \in taken : store[k] # Absent /\ Matches(op.q, k, store[k])
    BY <1>7 DEF all, Stored
  <2>3. Current(x, store', {})
    BY <1>1, <1>5, <2>1, <2>2 DEF Current
  <2> QED BY <1>1, <1>3, <2>3, MarksKept
<1> QED BY <1>8, <1>9

LEMMA MarksStep == IInv /\ Marks /\ [Next]_vars => Marks'
<1> SUFFICES ASSUME IInv, Marks, [Next]_vars PROVE Marks'
  OBVIOUS
<1>0. /\ DOMAIN run = Clients /\ stale \in [Clients -> SUBSET Ids]
      /\ \A c \in Running : Typed(run[c]) /\ run[c] \in RunType /\ Current(run[c], store, stale[c])
  BY DEF IInv, Stores, Marks, Typed
<1>1. ASSUME NEW c \in Clients, NEW cmd \in Commands, Begin(c, cmd) PROVE Marks'
  <2>1. store' = store /\ stale' = stale /\ run' = [d \in Clients |-> run'[d]] /\ run'[c].left = None
    BY <1>1 DEF Begin
  <2>2. ASSUME NEW d \in Running', d # c
        PROVE  d \in Running /\ Current(run'[d], store, stale[d])
    <3>1. d \in Clients /\ d \in Running /\ run'[d] \in {[run[d] EXCEPT !.alone = FALSE], run[d]}
      BY <1>1, <2>2 DEF Begin, Running
    <3>2. /\ run'[d].left = run[d].left /\ run'[d].fresh = run[d].fresh
          /\ run'[d].cmd = run[d].cmd /\ run'[d].at = run[d].at
      BY <1>0, <3>1 DEF RunType
    <3> QED BY <1>0, <3>1, <3>2 DEF Current, Op
  <2>3. Current(run'[c], store, stale[c])
    BY <2>1 DEF Current, None
  <2> QED BY <1>0, <2>1, <2>2, <2>3 DEF Marks
<1>2. ASSUME NEW c \in Clients, Insert(c) PROVE Marks'
  <2> DEFINE r == run[c]
             x == [r EXCEPT !.at = r.at + 1, !.n = r.n + 1,
                            !.ideal = OpEffect("insert", r.ideal, r.cmd.ops[r.at])]
  <2>1. run' = [run EXCEPT ![c] = x] /\ stale' = Races(c) /\ c \in Running /\ DOMAIN r.left = {}
    BY <1>2 DEF Insert, Ready, Running
  <2>2. x.left = r.left
    <3> HIDE DEF r
    <3>1. r \in RunType
      BY <1>0, <2>1 DEF r
    <3> QED BY <3>1 DEF RunType
  <2>3. stale' = [Races(c) EXCEPT ![c] = stale[c]] /\ stale[c] \in SUBSET Ids
    BY <1>0, <2>1, RacesMark
  <2>4. Current(x, store', stale[c])
    <3> HIDE DEF x
    <3> QED BY <2>1, <2>2 DEF Current
  <2> HIDE DEF x
  <2> QED BY <2>1, <2>3, <2>4, MarksKept
<1>3. ASSUME NEW c \in Clients, CollectDocs(c) PROVE Marks'
  BY <1>3, CollectMarks
<1>4. ASSUME NEW c \in Clients, Update(c) PROVE Marks'
  <2> DEFINE r == run[c]
             x == [r EXCEPT !.left = DropNext(r), !.n = r.n + 1, !.nModified = r.nModified + Modified(r)]
  <2>1. /\ run' = [run EXCEPT ![c] = x] /\ stale' = Races(c) /\ r # Idle /\ Writable(r)
        /\ store' = [store EXCEPT ![NextId(r)] = New(r, NextId(r))]
    BY <1>4 DEF Update
  <2>2. r \in RunType
    BY <1>0, <2>1 DEF Running
  <2>3. x.left = DropNext(r) /\ x.cmd = r.cmd /\ x.at = r.at /\ x.fresh = r.fresh
    <3> HIDE DEF r
    <3> QED BY <2>2 DEF RunType
  <2> HIDE DEF x
  <2> QED BY <2>1, <2>3, WriteMarks
<1>5. ASSUME NEW c \in Clients, Delete(c) PROVE Marks'
  <2> DEFINE r == run[c]
             x == [r EXCEPT !.left = DropNext(r), !.n = r.n + 1]
  <2>1. /\ run' = [run EXCEPT ![c] = x] /\ stale' = Races(c) /\ r # Idle /\ Writable(r)
        /\ store' = [store EXCEPT ![NextId(r)] = New(r, NextId(r))]
    BY <1>5 DEF Delete
  <2>2. r \in RunType
    BY <1>0, <2>1 DEF Running
  <2>3. x.left = DropNext(r) /\ x.cmd = r.cmd /\ x.at = r.at /\ x.fresh = r.fresh
    <3> HIDE DEF r
    <3> QED BY <2>2 DEF RunType
  <2> HIDE DEF x
  <2> QED BY <2>1, <2>3, WriteMarks
<1>6. ASSUME NEW c \in Clients, Fail(c) PROVE Marks'
  <2>1. run' = [run EXCEPT ![c] = Idle] /\ stale' = [Races(c) EXCEPT ![c] = {}]
    BY <1>6 DEF Fail
  <2>2. {} \in SUBSET Ids /\ (Idle # Idle => Current(Idle, store', {}))
    OBVIOUS
  <2> QED BY <2>1, <2>2, MarksKept, Zenon
<1>7. ASSUME NEW c \in Clients, Reply(c) PROVE Marks'
  <2>1. run' = [run EXCEPT ![c] = Idle] /\ stale' = [stale EXCEPT ![c] = {}] /\ store' = store
    BY <1>7 DEF Reply
  <2>2. {} \in SUBSET Ids /\ (Idle # Idle => Current(Idle, store', {}))
    OBVIOUS
  <2>3. stale' = [Races(c) EXCEPT ![c] = {}]
    BY <2>1, NothingMarked
  <2> QED BY <2>1, <2>2, <2>3, MarksKept, Zenon
<1>8. CASE Restart
  <2>1. run' = [c \in Clients |-> Idle] /\ stale' = [c \in Clients |-> {}]
    BY <1>8 DEF Restart
  <2>2. Running' = {}
    BY <2>1 DEF Running
  <2> QED BY <2>1, <2>2 DEF Marks
<1>9. CASE UNCHANGED vars
  BY <1>9 DEF vars, Marks, Running
<1> QED BY <1>1, <1>2, <1>3, <1>4, <1>5, <1>6, <1>7, <1>8, <1>9 DEF Next

LEMMA MarksInvariance == Spec => []Marks
<1>1. Init => Marks
  BY DEF Init, Marks, Running
<1> QED BY <1>1, MarksStep, Invariance, PTL DEF Spec

-----------------------------------------------------------------------------
(* The theorems.                                                             *)
\* Documents stay documents under ids, and a command keeps to its operations
\* and to the documents these address.
THEOREM TypeCorrect == Spec => []TypeOK
<1>1. IInv /\ Marks => TypeOK
  <2> SUFFICES ASSUME IInv, Marks PROVE TypeOK
    OBVIOUS
  <2>1. ASSUME NEW c \in Running
        PROVE  /\ run[c] \in RunType
               /\ run[c].at \in 1 .. (Len(run[c].cmd.ops) + 1)
               /\ DOMAIN run[c].left \subseteq Addressed(run[c].cmd)
               /\ run[c].nModified \in 0 .. run[c].n
    <3> DEFINE r == run[c]
    <3>1. Typed(r)
      BY <2>1 DEF IInv
    <3> HIDE DEF r
    <3>2. /\ r.cmd \in Commands /\ Len(r.cmd.ops) \in Nat /\ r \in RunType
          /\ r.at \in 1 .. (Len(r.cmd.ops) + 1) /\ r.nModified \in 0 .. r.n
      BY <3>1, RunFacts, AddressedIds DEF Typed
    <3>3. DOMAIN r.left \subseteq Addressed(r.cmd)
      <4>1. CASE DOMAIN r.left = {}
        BY <4>1
      <4>2. CASE DOMAIN r.left # {}
        <5>1. r.at - 1 \in 1 .. Len(r.cmd.ops) /\ DOMAIN r.left \subseteq Reach(r.cmd, Op(r))
          BY <3>1, <3>2, <4>2 DEF Typed
        <5>2. Reach(r.cmd, Op(r)) \subseteq Addressed(r.cmd)
          BY <3>2, <5>1, OpFacts DEF Op
        <5> QED BY <5>1, <5>2
      <4> QED BY <4>1, <4>2
    <3> QED BY <3>2, <3>3 DEF r
  <2>2. run \in [Clients -> RunType \cup {Idle}]
    <3>1. \A c \in Clients : run[c] \in RunType \cup {Idle}
      BY <2>1 DEF Running
    <3> QED BY <3>1 DEF Marks
  <2> QED BY <2>1, <2>2 DEF IInv, Stores, Marks, TypeOK
<1> QED BY <1>1, Invariance, MarksInvariance, PTL

\* Whatever other connections write meanwhile, a command that nobody disturbs
\* and that is done has done what its operations say at once, in order.
THEOREM Atomic == Spec => []UndisturbedCommandIsAtomic
<1>1. IInv => UndisturbedCommandIsAtomic
  <2> SUFFICES ASSUME IInv, NEW c \in Running, run[c].alone, Done(run[c])
               PROVE  /\ \A k \in Addressed(run[c].cmd) : store[k] = run[c].ideal.store[k]
                      /\ run[c].n = run[c].ideal.n /\ run[c].nModified = run[c].ideal.nModified
                      /\ ~run[c].ideal.failed
    BY DEF UndisturbedCommandIsAtomic
  <2> DEFINE r == run[c]
  <2>1. Typed(r) /\ Pending(r, store) /\ DOMAIN r.left = {}
    BY DEF IInv, Done
  <2> HIDE DEF r
  <2>2. r.n \in Nat /\ r.nModified \in Nat
    BY <2>1, RunFacts
  <2>3. Doing(r) = {} /\ Cardinality(Doing(r)) = 0 /\ Cardinality(Changed(r)) = 0
    BY <2>1, NothingLeft
  <2> QED BY <2>1, <2>2, <2>3 DEF Pending, r
<1> QED BY <1>1, Invariance, PTL

\* A stop between two operations, or before a write of the one under way.
LEMMA StopsBetween ==
  ASSUME NEW r, Typed(r), NEW st, Pending(r, st)
  PROVE  PrefixApplied(st, Addressed(r.cmd), Before(r), After(r))
<1> DEFINE ids == Addressed(r.cmd)
<1>1. ids \subseteq Ids /\ ids \subseteq Int
  BY RunFacts, AddressedIds, IdsAssumption
<1>2. CASE DOMAIN r.left = {}
  <2>1. \A k \in ids : r.ideal.store[k] = st[k]
    BY <1>2, NothingLeft DEF Pending
  <2>2. CASE Ready(r, {"insert", "update", "delete"})
    <3>1. Before(r) = r.ideal.store
      BY <2>2 DEF Before
    <3>2. {} \in SUBSET ids /\ \A k \in ids : st[k] = Before(r)[k]
      BY <2>1, <3>1
    <3> QED BY <3>2 DEF PrefixApplied
  <2>3. CASE ~Ready(r, {"insert", "update", "delete"})
    <3>1. After(r) = r.ideal.store
      BY <2>3 DEF After
    <3>2. ids \in SUBSET ids /\ \A k \in ids : st[k] = After(r)[k]
      BY <2>1, <3>1
    <3> QED BY <3>2 DEF PrefixApplied
  <2> QED BY <2>2, <2>3
<1>3. CASE DOMAIN r.left # {}
  <2> DEFINE done == {k \in ids : \A j \in DOMAIN r.left : k < j}
  <2>1. Before(r) = r.before /\ After(r) = r.ideal.store
    BY <1>3 DEF Before, After, Ready
  <2>2. DOMAIN r.left \subseteq Int
    BY RunFacts, IdsAssumption
  <2>3. \A k \in done, j \in ids : j <= k => j \in done
    BY <1>1, <2>2
  <2>4. ASSUME NEW k \in ids PROVE st[k] = IF k \in done THEN After(r)[k] ELSE Before(r)[k]
    <3>1. CASE k \in done
      <4>1. k \notin DOMAIN r.left
        BY <1>1, <3>1
      <4>2. k \notin Doing(r)
        BY <4>1 DEF Doing
      <4> QED BY <2>1, <3>1, <4>2 DEF Pending
    <3>2. CASE k \notin done
      <4>1. \E j \in DOMAIN r.left : j <= k
        BY <1>1, <2>2, <3>2
      <4> QED BY <2>1, <3>2, <4>1 DEF Pending
    <3> QED BY <3>1, <3>2
  <2>5. done \in SUBSET ids
    OBVIOUS
  <2> QED BY <2>3, <2>4, <2>5 DEF PrefixApplied
<1> QED BY <1>2, <1>3

\* A write of the next document adds it to the prefix.
LEMMA StopsAfterWrite ==
  ASSUME NEW r, Typed(r), NEW st \in StoreType, Pending(r, st), Writable(r)
  PROVE  PrefixApplied([st EXCEPT ![NextId(r)] = New(r, NextId(r))], Addressed(r.cmd), Before(r), After(r))
<1> DEFINE ids == Addressed(r.cmd)
           k0 == NextId(r)
           to == [st EXCEPT ![k0] = New(r, k0)]
           done == {k \in ids : k <= k0}
<1>1. ids \subseteq Ids /\ ids \subseteq Int
  BY RunFacts, AddressedIds, IdsAssumption
<1>2. /\ k0 \in DOMAIN r.left /\ k0 \in Ids /\ k0 \in ids /\ k0 \in Int
      /\ \A k \in DOMAIN r.left : k \in Int /\ k0 <= k
  BY NextWrite
<1>3. Before(r) = r.before /\ After(r) = r.ideal.store
  BY <1>2 DEF Before, After, Ready
<1>4. k0 \in Doing(r)
  <2>1. \A j \in DOMAIN r.left : j <= k0 => j = k0
    BY <1>2
  <2>2. r.cmd.kind = "update" => SetAllowed(Op(r), k0)
    BY DEF Writable
  <2> QED BY <1>2, <2>1, <2>2 DEF Doing
<1> HIDE DEF k0
<1>5. \A k \in Ids : to[k] = IF k = k0 THEN New(r, k0) ELSE st[k]
  BY <1>2 DEF StoreType
<1> HIDE DEF to
<1>6. ASSUME NEW k \in ids PROVE to[k] = IF k \in done THEN After(r)[k] ELSE Before(r)[k]
  <2>1. CASE k = k0
    BY <1>1, <1>2, <1>3, <1>4, <1>5, <2>1 DEF Pending
  <2>2. CASE k < k0
    <3>1. k \notin DOMAIN r.left
      BY <1>1, <1>2, <2>2
    <3>2. k \notin Doing(r)
      BY <3>1 DEF Doing
    <3>3. r.ideal.store[k] = st[k]
      BY <3>2 DEF Pending
    <3> QED BY <1>1, <1>2, <1>3, <1>5, <2>2, <3>3
  <2>3. CASE k > k0
    <3>1. r.before[k] = st[k]
      BY <1>1, <1>2, <2>3 DEF Pending
    <3> QED BY <1>1, <1>2, <1>3, <1>5, <2>3, <3>1
  <2> QED BY <1>1, <1>2, <2>1, <2>2, <2>3
<1>7. \A k \in done, j \in ids : j <= k => j \in done
  BY <1>1, <1>2
<1>8. done \in SUBSET ids
  OBVIOUS
<1>9. PrefixApplied(to, ids, Before(r), After(r))
  BY <1>6, <1>7, <1>8 DEF PrefixApplied
<1> QED BY <1>9 DEF to, k0

\* An insert writes its document, the only one of its operation.
LEMMA StopsAfterInsert ==
  ASSUME NEW r, Typed(r), NEW st \in StoreType, Pending(r, st), Ready(r, {"insert"}),
         NEW op, op = r.cmd.ops[r.at], ~op.bad
  PROVE  PrefixApplied([st EXCEPT ![op.id] = op.doc], Addressed(r.cmd), Before(r), After(r))
<1> DEFINE ids == Addressed(r.cmd)
           to == [st EXCEPT ![op.id] = op.doc]
<1>1. ids \subseteq Ids /\ r.ideal.store \in StoreType
  BY RunFacts, AddressedIds
<1>2. op.id \in Ids /\ r.cmd.kind = "insert" /\ DOMAIN r.left = {}
  BY NextInsert
<1>3. After(r) = [r.ideal.store EXCEPT ![op.id] = op.doc]
  BY <1>2 DEF After, Ready, OpEffect, InsertEffect, Outcome
<1>4. \A k \in ids : r.ideal.store[k] = st[k]
  BY <1>2, NothingLeft DEF Pending
<1>5. \A k \in ids : to[k] = After(r)[k]
  BY <1>1, <1>2, <1>3, <1>4 DEF StoreType
<1>6. ids \in SUBSET ids
  OBVIOUS
<1> HIDE DEF to
<1>7. PrefixApplied(to, ids, Before(r), After(r))
  BY <1>5, <1>6 DEF PrefixApplied
<1> QED BY <1>7 DEF to

\* However a command that nobody disturbs ends, by its reply, by an error in
\* the middle of its writes or by a restart, it leaves what its operations do
\* up to some document of one of them, and nothing after it.
THEOREM StopsAtAPrefix == Spec => UndisturbedCommandStopsAtAPrefix
<1>1. IInv /\ [Next]_vars =>
        [\A c \in Running : run[c].alone /\ run'[c] = Idle =>
           PrefixApplied(store', Addressed(run[c].cmd), Before(run[c]), After(run[c]))]_vars
  <2> SUFFICES ASSUME IInv, Next, NEW c \in Running, run[c].alone, run'[c] = Idle
               PROVE  PrefixApplied(store', Addressed(run[c].cmd), Before(run[c]), After(run[c]))
    OBVIOUS
  <2> DEFINE r == run[c]
  <2>1. /\ Typed(r) /\ Pending(r, store) /\ store \in StoreType /\ DOMAIN run = Clients
        /\ r # Idle /\ c \in Clients
    BY DEF IInv, Stores, Running
  <2>2. CASE store' = store
    BY <2>1, <2>2, StopsBetween
  <2>3. ASSUME NEW d \in Clients, Insert(d) \/ Update(d) \/ Delete(d) PROVE FALSE
    <3>1. d = c
      BY <2>1, <2>3 DEF Insert, Update, Delete
    <3>2. run'[c] \in RunType
      BY <2>3, <3>1, InsertStep, UpdateStep, DeleteStep
    <3> QED BY <3>2, IdleAssumption
  <2>4. ASSUME NEW d \in Clients, Fail(d), store' # store
        PROVE  PrefixApplied(store', Addressed(run[c].cmd), Before(run[c]), After(run[c]))
    <3>1. d = c
      BY <2>1, <2>4 DEF Fail
    <3>2. CASE Writable(r) /\ store' = [store EXCEPT ![NextId(r)] = New(r, NextId(r))]
      BY <2>1, <3>2, StopsAfterWrite
    <3>3. ASSUME NEW op, op = r.cmd.ops[r.at], Ready(r, {"insert"}), ~op.bad,
                 store' = [store EXCEPT ![op.id] = op.doc]
          PROVE  PrefixApplied(store', Addressed(run[c].cmd), Before(run[c]), After(run[c]))
      BY <2>1, <3>3, StopsAfterInsert
    <3> QED BY <2>4, <3>1, <3>2, <3>3 DEF Fail
  <2> QED BY <2>2, <2>3, <2>4 DEF Next, Begin, CollectDocs, Reply, Restart
<1> QED BY <1>1, Invariance, PTL DEF Spec, UndisturbedCommandStopsAtAPrefix

\* A write of a document that was not changed since it was collected.
LEMMA UnracedWrite ==
  ASSUME NEW r, NEW m, Typed(r), Current(r, store, m), store \in StoreType, Writable(r),
         store' = [store EXCEPT ![NextId(r)] = New(r, NextId(r))],
         NEW k \in DOMAIN r.left \ m, store'[k] # store[k]
  PROVE  IF r.fresh THEN store[k] = Absent
         ELSE /\ store[k] # Absent /\ Matches(Op(r).q, k, store[k])
              /\ r.cmd.kind = "update" => SetApplied(store[k], Op(r).set, store'[k])
<1>1. NextId(r) \in Ids /\ DOMAIN r.left \subseteq Ids
  BY NextWrite, RunFacts
<1>2. k = NextId(r) /\ store'[k] = New(r, k)
  BY <1>1 DEF StoreType
<1>3. IF r.fresh THEN store[k] = Absent
      ELSE store[k] = r.left[k] /\ store[k] # Absent /\ Matches(Op(r).q, k, store[k])
  BY DEF Current
<1>4. ASSUME ~r.fresh, r.cmd.kind = "update"
      PROVE  SetApplied(store[k], Op(r).set, store'[k])
  <2>1. store'[k] = ApplySet(store[k], Op(r).set)
    BY <1>2, <1>3, <1>4 DEF New
  <2> QED BY <2>1 DEF ApplySet, SetApplied
<1> QED BY <1>3, <1>4

\* Commands may overlap in any way: what a write finds that was not raced is
\* what its query asked for, and it changes only what the $set names.
THEOREM UnracedMeetsQuery == Spec => UnracedWriteMeetsItsQuery
<1> DEFINE Meets(c, k) ==
      LET op == Op(run[c])
      IN  IF run[c].fresh THEN store[k] = Absent
          ELSE /\ store[k] # Absent /\ Matches(op.q, k, store[k])
               /\ run[c].cmd.kind = "update" => SetApplied(store[k], op.set, store'[k])
<1>1. IInv /\ Marks /\ [Next]_vars =>
        [\A c \in Running : run'[c] # run[c] =>
           \A k \in DOMAIN run[c].left \ stale[c] : store'[k] # store[k] => Meets(c, k)]_vars
  <2> SUFFICES ASSUME IInv, Marks, Next, NEW c \in Running, run'[c] # run[c],
                      NEW k \in DOMAIN run[c].left \ stale[c], store'[k] # store[k]
               PROVE  Meets(c, k)
    OBVIOUS
  <2>1. /\ Typed(run[c]) /\ Current(run[c], store, stale[c]) /\ store \in StoreType /\ DOMAIN run = Clients
        /\ c \in Clients
    BY DEF IInv, Stores, Running, Marks
  <2>2. ASSUME Writable(run[c]), store' = [store EXCEPT ![NextId(run[c])] = New(run[c], NextId(run[c]))]
        PROVE  Meets(c, k)
    BY <2>1, <2>2, UnracedWrite
  <2>3. ~Ready(run[c], {"insert"})
    BY DEF Ready
  <2>4. ASSUME NEW d \in Clients, Insert(d) \/ Update(d) \/ Delete(d) \/ Fail(d) PROVE Meets(c, k)
    <3>1. d = c
      BY <2>1, <2>4 DEF Insert, Update, Delete, Fail
    <3>2. Writable(run[c]) /\ store' = [store EXCEPT ![NextId(run[c])] = New(run[c], NextId(run[c]))]
      BY <2>3, <2>4, <3>1 DEF Insert, Update, Delete, Fail
    <3> QED BY <2>2, <3>2
  <2> HIDE DEF Meets
  <2> QED BY <2>4 DEF Next, Begin, CollectDocs, Reply, Restart
<1> QED BY <1>1, Invariance, MarksInvariance, PTL DEF Spec, UnracedWriteMeetsItsQuery

=============================================================================
