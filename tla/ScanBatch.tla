----------------------------- MODULE ScanBatch -----------------------------
(* scan_batch (mona-db, storage/scan.rs): one page of a query over a snapshot
   of a collection.

   A collection maps keys, which SlateDB keeps in order, to documents; a
   document is known by its class, and a predicate is the set of classes it
   matches.  A page lists its documents in key order, so a set of keys says
   what the page is.                                                         *)
EXTENDS Integers, FiniteSetsExt

CONSTANTS
  Absent,       \* no document under a key
  NoLimit       \* a find without `limit`

\* after_key = None: the scan starts below every key
Start == 0

Present(snap) == {k \in DOMAIN snap : snap[k] # Absent}

\* `limit_left == Some(0)` never comes for a negative limit: it only counts down
Unlimited(limit) == IF limit = NoLimit THEN TRUE ELSE limit < 0

Page(docs, last, exhausted, limit) ==
  [docs |-> docs, last |-> last, exhausted |-> exhausted, limit |-> limit]

\* broken: resumes at the last key instead of after it
RestInclusive(snap, after) == {k \in Present(snap) : k >= after}

\* the keys the iterator still has to yield
Rest(snap, after) == {k \in Present(snap) : k > after}

\* the last key read: that of the page's last document, or of the collection
LastKey(rest, page, full, after) == IF full THEN Max(page) ELSE Max(rest \cup {after})

\* broken: the last document the limit allows is taken for already sent
IsExhaustedEarly(full, left) == ~full \/ (IF left = NoLimit THEN FALSE ELSE left <= 1)

\* the iterator has ended, or the limit is used up
IsExhausted(full, left) == ~full \/ left = 0

Scan(snap, pred, after, skip, batchSize, limit) ==
  LET cap == Max({0, batchSize})
      rest == Rest(snap, after)
      hits == {k \in rest : snap[k] \in pred}
      rank(k) == Cardinality({j \in hits : j <= k})
      skipped == Max({0, skip})
      room == IF Unlimited(limit) THEN cap ELSE Min({cap, limit})
      page == {k \in hits : rank(k) \in (skipped + 1) .. (skipped + room)}
      full == Cardinality(page) = room
      left == IF limit = NoLimit THEN NoLimit ELSE limit - Cardinality(page)
  IN  IF cap = 0 \/ limit = 0
        THEN Page({}, after, TRUE, limit)
        ELSE Page(page, LastKey(rest, page, full, after), IsExhausted(full, left), left)

-----------------------------------------------------------------------------
(* What a query answers: the matching documents of the snapshot, in order,
   without the first `skip` of them, and at most `limit` of the others.      *)
Answer(snap, pred, skip, limit) ==
  LET hits == {k \in Present(snap) : snap[k] \in pred}
      rank(k) == Cardinality({j \in hits : j <= k})
  IN  {k \in hits : /\ rank(k) > skip
                    /\ Unlimited(limit) \/ rank(k) <= Max({0, skip}) + limit}
=============================================================================
