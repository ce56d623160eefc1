--------------------------- MODULE ScanBatchProofs ---------------------------
(* Proofs about Scan, for every collection, predicate, position and all numbers
   of a request: a page is the next piece of the answer, and what it leaves of
   the limit is right for the rest.

   Rank(S, k) counts the elements of S up to k, and First(S, n) are the n
   smallest.  The argument is about how ranks change when a set is cut in two:
   scan_batch counts from its position, the answer from the beginning.       *)
EXTENDS ScanBatch, FiniteSetTheorems, TLAPS

UpTo(S, k) == {j \in S : j <= k}
Beyond(S, k) == {j \in S : j > k}
Rank(S, k) == Cardinality(UpTo(S, k))
First(S, n) == {k \in S : Rank(S, k) <= n}

-----------------------------------------------------------------------------
(* Finite sets of integers.                                                  *)
\* A finite set of integers that is not empty has a maximum: of the sets of
\* elements above one of them, take one with no such set inside it.
LEMMA MaxIsMax ==
  ASSUME NEW S, IsFiniteSet(S), S \subseteq Int, S # {}
  PROVE  Max(S) \in S /\ \A y \in S : y <= Max(S)
<1> DEFINE Tails == {Beyond(S, x) : x \in S}
<1>1. IsWellFoundedOn(StrictSubsetOrdering(S), FiniteSubsetsOf(S))
  BY FS_StrictSubsetOrderingWellFounded
<1>2. Tails \subseteq FiniteSubsetsOf(S) /\ Tails # {}
  <2>1. \A x \in S : Beyond(S, x) \in SUBSET S /\ IsFiniteSet(Beyond(S, x))
    BY FS_Subset DEF Beyond
  <2> QED BY <2>1 DEF FiniteSubsetsOf
<1> HIDE DEF Tails
<1>3. PICK T \in Tails : \A U \in Tails : <<U, T>> \notin StrictSubsetOrdering(S)
  BY <1>1, <1>2, WFMin, Zenon
<1>4. PICK x \in S : T = Beyond(S, x)
  BY DEF Tails
<1>5. T = {}
  <2> SUFFICES ASSUME NEW y \in T PROVE FALSE
    OBVIOUS
  <2>1. y \in S /\ x \in Int /\ y \in Int /\ y > x
    BY <1>4 DEF Beyond
  <2>2. \A z \in Beyond(S, y) : z \in Int /\ z > y /\ z \in S
    BY DEF Beyond
  <2>3. ASSUME NEW z \in Beyond(S, y) PROVE z \in T
    <3>1. z \in S /\ z > x
      BY <2>1, <2>2
    <3> QED BY <1>4, <3>1 DEF Beyond
  <2>4. y \notin Beyond(S, y)
    BY <2>1, <2>2
  <2>5. T \subseteq S
    BY <1>4 DEF Beyond
  <2>6. Beyond(S, y) \in Tails
    BY <2>1 DEF Tails
  <2> QED BY <1>3, <2>3, <2>4, <2>5, <2>6, Zenon DEF StrictSubsetOrdering
<1>6. \A y \in S : x >= y
  BY <1>4, <1>5 DEF Beyond
<1> QED BY <1>6 DEF Max

\* Cutting off a part of S below an element takes the part's size off its rank.
LEMMA RankSplit ==
  ASSUME NEW S, IsFiniteSet(S), S \subseteq Int, NEW A \in SUBSET S,
         NEW k \in S \ A, \A a \in A : a < k
  PROVE  /\ Rank(S, k) = Cardinality(A) + Rank(S \ A, k)
         /\ Cardinality(A) \in Nat /\ Rank(S \ A, k) \in Nat
<1>1. UpTo(S, k) = A \cup UpTo(S \ A, k) /\ A \cap UpTo(S \ A, k) = {}
  <2>1. \A a \in A : a <= k /\ a \in S
    OBVIOUS
  <2> QED BY <2>1, Zenon DEF UpTo
<1>2. IsFiniteSet(A) /\ IsFiniteSet(UpTo(S \ A, k))
  <2>1. UpTo(S \ A, k) \in SUBSET S
    BY DEF UpTo
  <2> QED BY <2>1, FS_Subset
<1>3. Cardinality(A) \in Nat /\ Cardinality(UpTo(S \ A, k)) \in Nat
  BY <1>2, FS_CardinalityType
<1>4. Cardinality(A \cap UpTo(S \ A, k)) = 0
  BY <1>1, FS_EmptySet
<1>5. Cardinality(A \cup UpTo(S \ A, k))
        = Cardinality(A) + Cardinality(UpTo(S \ A, k)) - Cardinality(A \cap UpTo(S \ A, k))
  BY <1>2, FS_Union
<1> QED BY <1>1, <1>3, <1>4, <1>5 DEF Rank

\* Ranks run from 1 to the size of S, and increase strictly.
LEMMA RankRange ==
  ASSUME NEW S, IsFiniteSet(S), S \subseteq Int
  PROVE  /\ Cardinality(S) \in Nat
         /\ \A k \in S : k \in Int /\ Rank(S, k) \in Nat /\ 1 <= Rank(S, k) /\ Rank(S, k) <= Cardinality(S)
         /\ \A j, k \in S : j < k => Rank(S, j) < Rank(S, k)
<1>0. Cardinality(S) \in Nat /\ \A k \in S : k \in Int
  BY FS_CardinalityType
<1>1. ASSUME NEW k \in Int
      PROVE  IsFiniteSet(UpTo(S, k)) /\ Rank(S, k) \in 0 .. Cardinality(S)
  <2>1. UpTo(S, k) \in SUBSET S
    BY DEF UpTo
  <2>2. IsFiniteSet(UpTo(S, k)) /\ Cardinality(UpTo(S, k)) <= Cardinality(S)
    BY <2>1, FS_Subset
  <2> QED BY <1>0, <2>2, FS_CardinalityType DEF Rank
<1>2. ASSUME NEW k \in S PROVE Rank(S, k) # 0
  <2>1. k \in UpTo(S, k) /\ IsFiniteSet(UpTo(S, k))
    BY <1>0, <1>1 DEF UpTo
  <2> QED BY <2>1, FS_EmptySet DEF Rank
<1>3. ASSUME NEW j \in S, NEW k \in S, j < k PROVE Rank(S, j) < Rank(S, k)
  <2>1. UpTo(S, j) \in SUBSET UpTo(S, k) /\ k \in UpTo(S, k) /\ k \notin UpTo(S, j)
    <3>1. k <= k /\ ~(k <= j) /\ \A i \in S : i <= j => i <= k
      BY <1>0, <1>3
    <3> QED BY <3>1, Zenon DEF UpTo
  <2>2. IsFiniteSet(UpTo(S, k))
    BY <1>0, <1>1
  <2>3. Cardinality(UpTo(S, j)) <= Cardinality(UpTo(S, k)) /\ Cardinality(UpTo(S, j)) # Cardinality(UpTo(S, k))
    BY <2>1, <2>2, FS_Subset
  <2>4. Cardinality(UpTo(S, j)) \in Nat /\ Cardinality(UpTo(S, k)) \in Nat
    BY <1>0, <1>1 DEF Rank
  <2> QED BY <2>3, <2>4 DEF Rank
<1> QED BY <1>0, <1>1, <1>2, <1>3

\* The n smallest elements are n, or all there are.
LEMMA FirstSize ==
  ASSUME NEW S, IsFiniteSet(S), S \subseteq Int, NEW n \in Nat
  PROVE  /\ IsFiniteSet(First(S, n))
         /\ Cardinality(First(S, n)) = IF n <= Cardinality(S) THEN n ELSE Cardinality(S)
<1> DEFINE size == Cardinality(S)
           rank == [k \in S |-> Rank(S, k)]
           m == IF n <= size THEN n ELSE size
           part == [k \in First(S, n) |-> Rank(S, k)]
<1>1. size \in Nat /\ m \in Nat
  BY FS_CardinalityType
<1>2. /\ Cardinality(1 .. size) = size /\ IsFiniteSet(1 .. size)
      /\ Cardinality(1 .. m) = m /\ IsFiniteSet(1 .. m)
  <2> HIDE DEF size, m
  <2> QED BY <1>1, FS_Interval
<1>3. /\ \A k \in S : k \in Int /\ Rank(S, k) \in 1 .. size
      /\ \A j, k \in S : j < k => Rank(S, j) < Rank(S, k)
  <2>1. /\ \A k \in S : k \in Int /\ Rank(S, k) \in Nat /\ 1 <= Rank(S, k) /\ Rank(S, k) <= size
        /\ \A j, k \in S : j < k => Rank(S, j) < Rank(S, k)
    BY RankRange, Zenon
  <2> HIDE DEF size
  <2> QED BY <1>1, <2>1
<1>4. \A j, k \in S : Rank(S, j) = Rank(S, k) => j = k
  <2> SUFFICES ASSUME NEW j \in S, NEW k \in S, j # k PROVE Rank(S, j) # Rank(S, k)
    OBVIOUS
  <2> HIDE DEF size
  <2>1. CASE j < k
    BY <1>1, <1>3, <2>1
  <2>2. CASE k < j
    BY <1>1, <1>3, <2>2
  <2> QED BY <1>3, <2>1, <2>2
<1>5. rank \in Surjection(S, 1 .. size)
  <2> HIDE DEF size
  <2>1. rank \in Injection(S, 1 .. size)
    BY <1>3, <1>4 DEF Injection, IsInjective
  <2>2. Cardinality(S) = Cardinality(1 .. size)
    BY <1>2 DEF size
  <2> QED BY <1>2, <2>1, <2>2, FS_Injection
<1>6. First(S, n) \in SUBSET S
  BY DEF First
<1>7. IsFiniteSet(First(S, n))
  BY <1>6, FS_Subset
<1>8. part \in Bijection(First(S, n), 1 .. m)
  <2>1. ASSUME NEW k \in First(S, n) PROVE Rank(S, k) \in 1 .. m
    <3>1. Rank(S, k) \in 1 .. size /\ Rank(S, k) <= n
      BY <1>3, <1>6 DEF First
    <3> HIDE DEF size
    <3> QED BY <1>1, <3>1
  <2>2. \A j, k \in First(S, n) : Rank(S, j) = Rank(S, k) => j = k
    BY <1>4, <1>6
  <2>3. ASSUME NEW i \in 1 .. m PROVE \E k \in First(S, n) : Rank(S, k) = i
    <3> HIDE DEF size
    <3>1. i \in 1 .. size /\ i <= n
      BY <1>1
    <3>2. PICK k \in S : rank[k] = i
      BY <1>5, <3>1 DEF Surjection
    <3> QED BY <3>1, <3>2 DEF First
  <2> HIDE DEF m
  <2>4. part \in Injection(First(S, n), 1 .. m)
    BY <2>1, <2>2 DEF Injection, IsInjective
  <2>5. part \in Surjection(First(S, n), 1 .. m)
    BY <2>1, <2>3 DEF Surjection
  <2> QED BY <2>4, <2>5 DEF Bijection
<1> HIDE DEF m, part
<1>9. ExistsBijection(First(S, n), 1 .. m)
  BY <1>8 DEF ExistsBijection
<1>10. Cardinality(First(S, n)) = m
  BY <1>2, <1>7, <1>9, FS_Bijection
<1> QED BY <1>7, <1>10 DEF m

\* The n smallest of S, if S goes on behind a part of it below the rest, are the
\* smallest of that part and as many of the rest as it leaves over.
LEMMA FirstSplit ==
  ASSUME NEW S, IsFiniteSet(S), S \subseteq Int, NEW n \in Nat, NEW p \in Int
  PROVE  LET A == UpTo(S, p)
             B == Beyond(S, p)
             left == n - Cardinality(UpTo(First(S, n), p))
         IN  /\ left \in Nat
             /\ Beyond(First(S, n), p) = First(B, left)
<1> DEFINE A == UpTo(S, p)
           B == Beyond(S, p)
           left == n - Cardinality(UpTo(First(S, n), p))
<1>0. \A k \in S : k \in Int /\ (k <= p \/ k > p) /\ ~(k <= p /\ k > p)
  OBVIOUS
<1>1. A \in SUBSET S /\ B = S \ A /\ IsFiniteSet(A) /\ IsFiniteSet(B)
  <2>1. A \in SUBSET S /\ B \in SUBSET S /\ B = S \ A
    BY <1>0, Zenon DEF UpTo, Beyond
  <2> QED BY <2>1, FS_Subset
<1>2. ASSUME NEW k \in B
      PROVE  /\ Rank(S, k) = Cardinality(A) + Rank(B, k)
             /\ Cardinality(A) \in Nat /\ Rank(B, k) \in Nat /\ Rank(B, k) >= 1
  <2>1. k \in S \ A /\ \A a \in A : a < k
    <3>1. k \in Int /\ k > p /\ \A a \in A : a \in Int /\ a <= p
      BY <1>0, <1>1 DEF UpTo, Beyond
    <3> QED BY <1>1, <3>1
  <2>2. Rank(B, k) \in Nat /\ 1 <= Rank(B, k)
    <3>1. B \subseteq Int
      BY <1>0, <1>1
    <3> QED BY <1>1, <3>1, RankRange, Zenon
  <2> HIDE DEF A, B
  <2>3. k \in S \ A /\ Rank(B, k) = Rank(S \ A, k)
    BY <1>1
  <2>4. Rank(S, k) = Cardinality(A) + Rank(S \ A, k) /\ Cardinality(A) \in Nat /\ Rank(S \ A, k) \in Nat
    BY <1>1, <2>1, RankSplit
  <2> QED BY <2>2, <2>3, <2>4
<1>3. \A k \in A : Rank(A, k) = Rank(S, k)
  <2> SUFFICES ASSUME NEW k \in A PROVE UpTo(A, k) = UpTo(S, k)
    BY DEF Rank
  <2>1. k \in Int /\ k <= p /\ \A j \in S : j \in Int
    BY <1>0, <1>1 DEF UpTo
  <2>2. \A j \in S : j <= k => j <= p
    BY <2>1
  <2> QED BY <2>2, Zenon DEF UpTo
<1>4. UpTo(First(S, n), p) = First(A, n)
  BY <1>3, Zenon DEF First, UpTo
<1>5. Cardinality(First(A, n)) = IF n <= Cardinality(A) THEN n ELSE Cardinality(A)
  BY <1>1, FirstSize
<1>6. Cardinality(A) \in Nat
  BY <1>1, FS_CardinalityType
<1>7. left = IF n <= Cardinality(A) THEN 0 ELSE n - Cardinality(A)
  BY <1>4, <1>5, <1>6
<1>8. left \in Nat
  BY <1>6, <1>7
<1>9. \A k \in B : Rank(S, k) <= n <=> Rank(B, k) <= left
  <2> HIDE DEF A, B, left
  <2> QED BY <1>2, <1>6, <1>7
<1>10. Beyond(First(S, n), p) = First(B, left)
  <2> HIDE DEF left
  <2> QED BY <1>9, Zenon DEF First, Beyond
<1> QED BY <1>8, <1>10

-----------------------------------------------------------------------------
(* Queries.                                                                  *)
Hits(snap, pred) == {k \in Present(snap) : snap[k] \in pred}

\* the hits behind the skipped ones
Unskipped(hits, skip) == {k \in hits : Rank(hits, k) > Max({0, skip})}

\* the hits with the n ranks behind the skipped ones
Window(hits, skip, n) == {k \in hits : Rank(hits, k) \in (Max({0, skip}) + 1) .. (Max({0, skip}) + n)}

\* as many of S as the limit allows
Allowed(S, limit) == IF Unlimited(limit) THEN S ELSE First(S, limit)

\* Max and Min of two numbers.
LEMMA MaxMin ==
  ASSUME NEW m \in Int, NEW n \in Int
  PROVE  /\ Max({m, n}) = IF m < n THEN n ELSE m
         /\ Min({m, n}) = IF m < n THEN m ELSE n
<1>1. Max({m, n}) = IF m < n THEN n ELSE m
  BY DEF Max
<1>2. Min({m, n}) = IF m < n THEN m ELSE n
  BY DEF Min
<1> QED BY <1>1, <1>2

\* The hits that are not skipped are those with a rank beyond skip.
LEMMA UnskippedHits ==
  ASSUME NEW H, IsFiniteSet(H), H \subseteq Int, NEW skip \in Int
  PROVE  \A k \in H : k \in Unskipped(H, skip) <=> Rank(H, k) > skip
<1>1. Max({0, skip}) \in Nat /\ Max({0, skip}) >= skip /\ (Max({0, skip}) = skip \/ Max({0, skip}) = 0)
  BY MaxMin
<1>2. \A k \in H : Rank(H, k) \in Nat /\ 1 <= Rank(H, k)
  BY RankRange, Zenon
<1> SUFFICES ASSUME NEW k \in H PROVE Rank(H, k) > Max({0, skip}) <=> Rank(H, k) > skip
  BY Zenon DEF Unskipped
<1> QED BY <1>1, <1>2

\* Of the hits that are not skipped the first n are those with the next n ranks.
LEMMA UnskippedFirst ==
  ASSUME NEW H, IsFiniteSet(H), H \subseteq Int, NEW skip \in Int, NEW n \in Int
  PROVE  First(Unskipped(H, skip), n) = Window(H, skip, n)
<1> DEFINE gone == Max({0, skip})
           A == First(H, gone)
           D == Unskipped(H, skip)
<1>1. gone \in Nat
  BY MaxMin
<1>2. /\ Cardinality(H) \in Nat
      /\ \A k \in H : k \in Int /\ Rank(H, k) \in Nat /\ 1 <= Rank(H, k) /\ Rank(H, k) <= Cardinality(H)
      /\ \A j, k \in H : j < k => Rank(H, j) < Rank(H, k)
  BY RankRange, Zenon
<1>4. A \in SUBSET H /\ D = H \ A
  <2>1. \A k \in H : Rank(H, k) > gone <=> ~(Rank(H, k) <= gone)
    BY <1>1, <1>2
  <2> QED BY <2>1, Zenon DEF Unskipped, First
<1>5. ASSUME NEW k \in D
      PROVE  Rank(H, k) = gone + Rank(D, k) /\ Rank(D, k) \in Nat /\ Rank(H, k) >= gone + 1
  <2>1. k \in H \ A /\ Rank(H, k) > gone
    BY <1>4 DEF Unskipped
  <2>2. ASSUME NEW a \in A PROVE a < k
    <3>1. a \in H /\ Rank(H, a) <= gone
      BY DEF First
    <3>2. a # k
      BY <1>1, <1>2, <2>1, <3>1
    <3>3. ~(k < a)
      BY <1>1, <1>2, <2>1, <3>1
    <3> QED BY <1>2, <2>1, <3>1, <3>2, <3>3
  <2>3. Cardinality(A) = gone
    <3>1. Cardinality(A) = IF gone <= Cardinality(H) THEN gone ELSE Cardinality(H)
      BY <1>1, FirstSize
    <3>2. gone <= Cardinality(H)
      BY <1>1, <1>2, <2>1
    <3> QED BY <3>1, <3>2
  <2>4. Rank(H, k) >= gone + 1
    BY <1>1, <1>2, <2>1
  <2> HIDE DEF A, D, gone
  <2>5. Rank(H, k) = Cardinality(A) + Rank(H \ A, k) /\ Rank(H \ A, k) \in Nat
    BY <1>4, <2>1, <2>2, RankSplit
  <2> QED BY <1>4, <2>3, <2>4, <2>5
<1>6. \A k \in D : Rank(D, k) <= n <=> Rank(H, k) \in (gone + 1) .. (gone + n)
  <2> HIDE DEF D, gone
  <2> QED BY <1>1, <1>5
<1>7. \A k \in H : Rank(H, k) \in (gone + 1) .. (gone + n) => k \in D
  <2>1. \A k \in H : Rank(H, k) \in (gone + 1) .. (gone + n) => Rank(H, k) > gone
    BY <1>1, <1>2
  <2> QED BY <2>1 DEF Unskipped
<1>8. First(D, n) = {k \in H : Rank(H, k) \in (gone + 1) .. (gone + n)}
  <2> HIDE DEF D, gone
  <2> QED BY <1>4, <1>6, <1>7, Zenon DEF First
<1> QED BY <1>8 DEF Window

\* What a query answers: of the hits that are not skipped, as many as allowed.
LEMMA AnswerIsAllowed ==
  ASSUME NEW snap, NEW pred, NEW skip \in Int, NEW limit \in Int \cup {NoLimit},
         IsFiniteSet(Hits(snap, pred)), Hits(snap, pred) \subseteq Int
  PROVE  Answer(snap, pred, skip, limit) = Allowed(Unskipped(Hits(snap, pred), skip), limit)
<1> SUFFICES ASSUME NEW H, H = Hits(snap, pred), IsFiniteSet(H), H \subseteq Int
             PROVE  Answer(snap, pred, skip, limit) = Allowed(Unskipped(H, skip), limit)
  OBVIOUS
<1> DEFINE gone == Max({0, skip})
           D == Unskipped(H, skip)
<1>1. D = {k \in H : Rank(H, k) > skip}
      /\ \A n \in Int : First(D, n) = {k \in H : Rank(H, k) \in (gone + 1) .. (gone + n)}
  <2>1. D = {k \in H : Rank(H, k) > skip}
    BY UnskippedHits, Zenon DEF Unskipped
  <2>2. ASSUME NEW n \in Int PROVE First(D, n) = {k \in H : Rank(H, k) \in (gone + 1) .. (gone + n)}
    BY UnskippedFirst DEF Window
  <2> QED BY <2>1, <2>2
<1>2. CASE Unlimited(limit)
  BY <1>1, <1>2, Zenon DEF Answer, Allowed, Hits, Rank, UpTo
<1>3. CASE ~Unlimited(limit)
  <2>1. limit \in Nat
    BY <1>3 DEF Unlimited
  <2>2. \A k \in H : Rank(H, k) \in Nat /\ 1 <= Rank(H, k)
    BY RankRange, Zenon
  <2>3. gone \in Nat /\ gone >= skip /\ (gone = skip \/ gone = 0)
    BY MaxMin
  <2>4. \A k \in H : Rank(H, k) \in (gone + 1) .. (gone + limit)
                      <=> Rank(H, k) > skip /\ Rank(H, k) <= gone + limit
    BY <2>1, <2>2, <2>3
  <2>5. Answer(snap, pred, skip, limit) = {k \in H : Rank(H, k) > skip /\ Rank(H, k) <= gone + limit}
    BY <1>3, Zenon DEF Answer, Hits, Rank, UpTo
  <2>6. Allowed(D, limit) = {k \in H : Rank(H, k) \in (gone + 1) .. (gone + limit)}
    <3>1. limit \in Int
      BY <2>1
    <3> QED BY <1>1, <1>3, <3>1, Zenon DEF Allowed
  <2> QED BY <2>4, <2>5, <2>6, Zenon
<1> QED BY <1>2, <1>3

\* The page taken from what is left of a query.
LEMMA PageTaken ==
  ASSUME NEW B, IsFiniteSet(B), B \subseteq Int, NoLimit \notin Int,
         NEW left \in Int \cup {NoLimit}, left # 0, NEW cap \in Nat \ {0}
  PROVE  LET room == IF Unlimited(left) THEN cap ELSE Min({cap, left})
             docs == First(B, room)
         IN  /\ room \in Nat \ {0} /\ IsFiniteSet(docs) /\ Cardinality(docs) \in Nat
             /\ docs \subseteq Allowed(B, left) /\ Allowed(B, left) \subseteq B
             /\ \A k \in docs, j \in B : j < k => j \in docs
             /\ Cardinality(docs) = room =>
                  Max(docs) \in docs /\ \A k \in B : k <= Max(docs) <=> k \in docs
             /\ Cardinality(docs) # room => docs = Allowed(B, left) /\ docs = B
             /\ ~Unlimited(left) => Cardinality(docs) <= left
             /\ Cardinality(docs) = left => docs = Allowed(B, left)
<1> DEFINE room == IF Unlimited(left) THEN cap ELSE Min({cap, left})
           docs == First(B, room)
<1>1. ~Unlimited(left) => left \in Nat /\ left > 0
  BY DEF Unlimited
<1>2. room \in Nat \ {0} /\ (~Unlimited(left) => room <= left)
  BY <1>1, MaxMin
<1> HIDE DEF room
<1>3. /\ Cardinality(B) \in Nat
      /\ \A k \in B : k \in Int /\ Rank(B, k) \in Nat /\ 1 <= Rank(B, k) /\ Rank(B, k) <= Cardinality(B)
      /\ \A j, k \in B : j < k => Rank(B, j) < Rank(B, k)
  BY RankRange, Zenon
<1>4. /\ IsFiniteSet(docs) /\ Cardinality(docs) \in Nat
      /\ Cardinality(docs) = IF room <= Cardinality(B) THEN room ELSE Cardinality(B)
  BY <1>2, FirstSize, FS_CardinalityType
<1>5. docs \subseteq Allowed(B, left) /\ Allowed(B, left) \subseteq B
  <2>1. \A k \in B : ~Unlimited(left) /\ Rank(B, k) <= room => Rank(B, k) <= left
    BY <1>1, <1>2, <1>3
  <2> QED BY <2>1, Zenon DEF Allowed, First
<1>6. ASSUME NEW k \in docs, NEW j \in B, j < k PROVE j \in docs
  <2>1. k \in B /\ Rank(B, k) <= room
    BY DEF First
  <2>2. Rank(B, j) <= room
    BY <1>2, <1>3, <1>6, <2>1
  <2> QED BY <2>2 DEF First
<1>7. ASSUME Cardinality(docs) = room
      PROVE  Max(docs) \in docs /\ \A k \in B : k <= Max(docs) <=> k \in docs
  <2>1. docs # {} /\ docs \subseteq Int
    BY <1>2, <1>3, <1>7, FS_EmptySet DEF First
  <2> HIDE DEF docs
  <2>2. Max(docs) \in docs /\ \A k \in docs : k <= Max(docs)
    BY <1>4, <2>1, MaxIsMax
  <2>3. ASSUME NEW k \in B, k <= Max(docs) PROVE k \in docs
    <3>1. k \in Int /\ Max(docs) \in Int
      BY <1>3, <2>1, <2>2
    <3>2. k = Max(docs) \/ k < Max(docs)
      BY <2>3, <3>1
    <3> QED BY <1>6, <2>2, <3>2
  <2> QED BY <2>2, <2>3
<1>8. ASSUME Cardinality(docs) # room PROVE docs = Allowed(B, left) /\ docs = B
  <2>1. room > Cardinality(B)
    BY <1>2, <1>3, <1>4, <1>8
  <2>2. \A k \in B : Rank(B, k) <= room
    BY <1>2, <1>3, <2>1
  <2>3. docs = B
    BY <2>2 DEF First
  <2> QED BY <1>5, <2>3
<1>9. ~Unlimited(left) => Cardinality(docs) <= left
  BY <1>1, <1>2, <1>3, <1>4
<1>10. ASSUME Cardinality(docs) = left PROVE docs = Allowed(B, left)
  <2>1. left \in Nat /\ left > 0
    BY <1>4, <1>10
  <2>2. ~Unlimited(left)
    BY <2>1 DEF Unlimited
  <2>3. CASE Cardinality(docs) # room
    BY <1>8, <2>3
  <2>4. CASE Cardinality(docs) = room
    BY <1>10, <2>2, <2>4 DEF Allowed
  <2> QED BY <2>3, <2>4
<1> HIDE DEF docs
<1>11. /\ room \in Nat \ {0} /\ IsFiniteSet(docs) /\ Cardinality(docs) \in Nat
       /\ docs \subseteq Allowed(B, left) /\ Allowed(B, left) \subseteq B
       /\ \A k \in docs, j \in B : j < k => j \in docs
       /\ Cardinality(docs) = room =>
            Max(docs) \in docs /\ \A k \in B : k <= Max(docs) <=> k \in docs
       /\ Cardinality(docs) # room => docs = Allowed(B, left) /\ docs = B
       /\ ~Unlimited(left) => Cardinality(docs) <= left
       /\ Cardinality(docs) = left => docs = Allowed(B, left)
  BY <1>2, <1>4, <1>5, <1>6, <1>7, <1>8, <1>9, <1>10
<1> QED BY <1>11 DEF docs, room

-----------------------------------------------------------------------------
(* Pages.                                                                    *)
\* A position p in a query, with what it leaves of the limit: no hit beyond it
\* is one to be skipped, and the limit is less by the answer up to p.
Position(snap, pred, skip, limit, p, left) ==
  /\ p \in Nat
  /\ Beyond(Hits(snap, pred), p) \subseteq Unskipped(Hits(snap, pred), skip)
  /\ left = IF limit = NoLimit THEN NoLimit
            ELSE limit - Cardinality(UpTo(Answer(snap, pred, skip, limit), p))

\* A page continues the answer W from position p: it is the next piece of it.
Continues(page, W, p) ==
  /\ page.docs \subseteq Beyond(W, p)
  /\ \A k \in page.docs, j \in Beyond(W, p) : j < k => j \in page.docs
  /\ ~page.exhausted => page.last > p /\ UpTo(W, page.last) = UpTo(W, p) \cup page.docs

\* Which page scan_batch reads.
LEMMA ScanUnfolds ==
  ASSUME NEW snap, NEW pred, NEW after \in Int, NEW skip \in Int, NEW n \in Int,
         NEW limit \in Int \cup {NoLimit}, NoLimit \notin Int,
         NEW H, H = {k \in Rest(snap, after) : snap[k] \in pred}, IsFiniteSet(H), H \subseteq Int
  PROVE  LET B == Unskipped(H, skip)
             room == IF Unlimited(limit) THEN n ELSE Min({n, limit})
             docs == First(B, room)
             full == Cardinality(docs) = room
             left == IF limit = NoLimit THEN NoLimit ELSE limit - Cardinality(docs)
         IN  Scan(snap, pred, after, skip, n, limit) =
               IF n <= 0 \/ limit = 0 THEN Page({}, after, TRUE, limit)
               ELSE Page(docs, LastKey(Rest(snap, after), docs, full, after), IsExhausted(full, left), left)
<1> DEFINE B == Unskipped(H, skip)
           room == IF Unlimited(limit) THEN n ELSE Min({n, limit})
<1>1. Max({0, n}) = IF n <= 0 THEN 0 ELSE n
  BY MaxMin
<1>2. CASE n <= 0 \/ limit = 0
  BY <1>1, <1>2 DEF Scan
<1>3. CASE ~(n <= 0 \/ limit = 0)
  <2>1. Max({0, n}) = n /\ n # 0
    BY <1>1, <1>3
  <2>2. room \in Int
    <3>1. ~Unlimited(limit) => limit \in Int
      BY DEF Unlimited
    <3> QED BY <3>1, MaxMin
  <2> HIDE DEF room
  <2>3. First(B, room) = Window(H, skip, room)
    BY <2>2, UnskippedFirst
  <2>4. First(B, room) = {k \in H : Cardinality({j \in H : j <= k}) \in (Max({0, skip}) + 1) .. (Max({0, skip}) + room)}
    BY <2>3, Zenon DEF Window, Rank, UpTo
  <2>5. room = IF Unlimited(limit) THEN Max({0, n}) ELSE Min({Max({0, n}), limit})
    BY <2>1 DEF room
  <2> HIDE DEF B
  <2>6. Scan(snap, pred, after, skip, n, limit) =
         LET docs == First(B, room)
             full == Cardinality(docs) = room
             left == IF limit = NoLimit THEN NoLimit ELSE limit - Cardinality(docs)
         IN  Page(docs, LastKey(Rest(snap, after), docs, full, after), IsExhausted(full, left), left)
    BY <1>3, <2>1, <2>4, <2>5, Zenon DEF Scan
  <2> QED BY <1>3, <2>6 DEF room, B
<1> QED BY <1>2, <1>3

\* A page read from all that is left of an answer continues it, and completes it
\* when it is the last one.
LEMMA PageContinues ==
  ASSUME NEW W, IsFiniteSet(W), W \subseteq Int, NEW p \in Nat, NoLimit \notin Int,
         NEW B, IsFiniteSet(B), B \subseteq Int, \A k \in B : k > p,
         NEW left \in Int \cup {NoLimit}, left # 0, Beyond(W, p) = Allowed(B, left),
         NEW n \in Nat \ {0}, NEW rest, IsFiniteSet(rest), rest \subseteq Int, B \subseteq rest,
         NEW room, room = IF Unlimited(left) THEN n ELSE Min({n, left}),
         NEW docs, docs = First(B, room),
         NEW full, full = (Cardinality(docs) = room),
         NEW rem, rem = IF left = NoLimit THEN NoLimit ELSE left - Cardinality(docs),
         NEW page, page = Page(docs, LastKey(rest, docs, full, p), IsExhausted(full, rem), rem)
  PROVE  /\ Continues(page, W, p)
         /\ page.exhausted => W = UpTo(W, p) \cup page.docs
         /\ page \in [docs : SUBSET rest, last : rest \cup {p}, exhausted : BOOLEAN, limit : Int \cup {NoLimit}]
         /\ ~page.exhausted =>
              /\ page.last \in B
              /\ page.limit = IF left = NoLimit THEN NoLimit ELSE left - Cardinality(page.docs)
              /\ Cardinality(UpTo(W, page.last)) = Cardinality(UpTo(W, p)) + Cardinality(page.docs)
              /\ Cardinality(UpTo(W, p)) \in Nat /\ Cardinality(page.docs) \in Nat
<1>0. W = UpTo(W, p) \cup Beyond(W, p) /\ UpTo(W, p) \cap Beyond(W, p) = {}
  <2>1. \A k \in W : (k <= p \/ k > p) /\ ~(k <= p /\ k > p)
    OBVIOUS
  <2> QED BY <2>1, Zenon DEF UpTo, Beyond
<1>1. /\ room \in Nat \ {0} /\ IsFiniteSet(docs) /\ Cardinality(docs) \in Nat
      /\ docs \subseteq Allowed(B, left) /\ Allowed(B, left) \subseteq B
      /\ \A k \in docs, j \in B : j < k => j \in docs
      /\ Cardinality(docs) = room =>
           Max(docs) \in docs /\ \A k \in B : k <= Max(docs) <=> k \in docs
      /\ Cardinality(docs) # room => docs = Allowed(B, left) /\ docs = B
      /\ ~Unlimited(left) => Cardinality(docs) <= left
      /\ Cardinality(docs) = left => docs = Allowed(B, left)
  BY PageTaken
<1>2. page.docs = docs /\ page.limit = rem /\ page.exhausted = IsExhausted(full, rem)
      /\ page.last = LastKey(rest, docs, full, p)
  BY DEF Page
<1>3. docs \subseteq Beyond(W, p) /\ Beyond(W, p) \subseteq B
  BY <1>1
<1>4. ASSUME page.exhausted PROVE docs = Beyond(W, p)
  <2>1. ~full \/ rem = 0
    BY <1>2, <1>4 DEF IsExhausted
  <2>2. CASE ~full
    BY <1>1, <2>2
  <2>3. CASE rem = 0
    <3>1. left \in Int
      BY <2>3
    <3>2. Cardinality(docs) = left
      BY <1>1, <2>3, <3>1
    <3> QED BY <1>1, <3>2
  <2> QED BY <2>1, <2>2, <2>3
<1>5. ASSUME ~page.exhausted
      PROVE  /\ page.last \in docs /\ page.last > p /\ page.last \in B
             /\ UpTo(W, page.last) = UpTo(W, p) \cup docs
  <2>1. full /\ page.last = Max(docs)
    BY <1>2, <1>5 DEF IsExhausted, LastKey
  <2>2. page.last \in docs /\ page.last \in B /\ \A k \in B : k <= page.last <=> k \in docs
    BY <1>1, <1>3, <2>1
  <2> DEFINE last == page.last
  <2> HIDE DEF last
  <2>3. last \in Int /\ last > p
    BY <2>2 DEF last
  <2>4. \A k \in W : k <= last <=> k <= p \/ (k > p /\ k <= last)
    BY <2>3
  <2>5. \A k \in W : k <= last <=> k <= p \/ (k \in Beyond(W, p) /\ k <= last)
    BY <2>4, Zenon DEF Beyond
  <2>6. \A k \in B : k <= last <=> k \in docs
    BY <2>2 DEF last
  <2>7. \A k \in W : k <= last <=> k <= p \/ k \in docs
    BY <1>3, <2>5, <2>6, Zenon
  <2>8. docs \subseteq W
    BY <1>3 DEF Beyond
  <2>9. UpTo(W, last) = UpTo(W, p) \cup docs
    BY <2>7, <2>8, Zenon DEF UpTo
  <2> QED BY <2>2, <2>3, <2>9 DEF last
<1>6. Continues(page, W, p)
  <2>1. \A k \in docs, j \in Beyond(W, p) : j < k => j \in docs
    BY <1>1, <1>3, Zenon
  <2>2. ~page.exhausted => page.last > p /\ UpTo(W, page.last) = UpTo(W, p) \cup docs
    BY <1>5, Zenon
  <2>3. page.docs = docs
    BY <1>2, Zenon
  <2> QED BY <1>3, <2>1, <2>2, <2>3, Zenon DEF Continues
<1>7. page.exhausted => W = UpTo(W, p) \cup page.docs
  BY <1>0, <1>2, <1>4
<1>8. page \in [docs : SUBSET rest, last : rest \cup {p}, exhausted : BOOLEAN, limit : Int \cup {NoLimit}]
  <2>1. rem \in Int \cup {NoLimit}
    BY <1>1
  <2>2. IsExhausted(full, rem) \in BOOLEAN
    BY DEF IsExhausted
  <2>3. docs \in SUBSET rest
    BY <1>1
  <2>4. LastKey(rest, docs, full, p) \in rest \cup {p}
    <3>1. CASE full
      BY <1>1, <2>3, <3>1 DEF LastKey
    <3>2. CASE ~full
      <4>1. IsFiniteSet(rest \cup {p}) /\ rest \cup {p} \subseteq Int /\ rest \cup {p} # {}
        BY FS_AddElement
      <4>2. Max(rest \cup {p}) \in rest \cup {p}
        BY <4>1, MaxIsMax
      <4> QED BY <3>2, <4>2 DEF LastKey
    <3> QED BY <3>1, <3>2
  <2> QED BY <2>1, <2>2, <2>3, <2>4 DEF Page
<1>9. /\ Cardinality(UpTo(W, p) \cup docs) = Cardinality(UpTo(W, p)) + Cardinality(docs)
      /\ Cardinality(UpTo(W, p)) \in Nat
  <2>1. UpTo(W, p) \cap docs = {}
    BY <1>0, <1>3
  <2>2. IsFiniteSet(UpTo(W, p))
    <3>1. UpTo(W, p) \in SUBSET W
      BY DEF UpTo
    <3> QED BY <3>1, FS_Subset
  <2>3. Cardinality(UpTo(W, p) \cup docs)
          = Cardinality(UpTo(W, p)) + Cardinality(docs) - Cardinality(UpTo(W, p) \cap docs)
    BY <1>1, <2>2, FS_Union
  <2>4. Cardinality(UpTo(W, p) \cap docs) = 0 /\ Cardinality(UpTo(W, p)) \in Nat
    BY <2>1, <2>2, FS_EmptySet, FS_CardinalityType
  <2>5. Cardinality(docs) \in Nat
    BY <1>1, Zenon
  <2>6. Cardinality(UpTo(W, p) \cup docs) = Cardinality(UpTo(W, p)) + Cardinality(docs) - 0
    BY <2>3, <2>4, Zenon
  <2>7. ASSUME NEW m \in Nat, NEW k \in Nat PROVE m + k - 0 = m + k
    BY ONLY m \in Nat, k \in Nat
  <2>8. Cardinality(UpTo(W, p)) + Cardinality(docs) - 0 = Cardinality(UpTo(W, p)) + Cardinality(docs)
    BY ONLY <2>4, <2>5, <2>7
  <2>9. Cardinality(UpTo(W, p) \cup docs) = Cardinality(UpTo(W, p)) + Cardinality(docs)
    BY <2>6, <2>8, Zenon
  <2> QED BY <2>4, <2>9, Zenon
<1>10. ASSUME ~page.exhausted
       PROVE  /\ page.last \in B
              /\ page.limit = IF left = NoLimit THEN NoLimit ELSE left - Cardinality(page.docs)
              /\ Cardinality(UpTo(W, page.last)) = Cardinality(UpTo(W, p)) + Cardinality(page.docs)
              /\ Cardinality(UpTo(W, p)) \in Nat /\ Cardinality(page.docs) \in Nat
  <2>1. /\ page.last \in B /\ UpTo(W, page.last) = UpTo(W, p) \cup docs
        /\ page.docs = docs /\ page.limit = rem /\ Cardinality(docs) \in Nat
    BY <1>1, <1>2, <1>5, <1>10, Zenon
  <2> QED BY <1>9, <2>1, Zenon
<1> QED BY <1>6, <1>7, <1>8, <1>10, Zenon

-----------------------------------------------------------------------------
(* What find and getMore need of a page: its parts have their types, it is the
   next piece of the answer, the last one completes the answer, and any other
   ends at a position from which the query can go on.                        *)
PageOf(snap, pred, skip, limit, p, n, page) ==
  LET W == Answer(snap, pred, skip, limit)
  IN  /\ page \in [docs : SUBSET DOMAIN snap, last : DOMAIN snap \cup {p},
                   exhausted : BOOLEAN, limit : Int \cup {NoLimit}]
      /\ Continues(page, W, p)
      /\ page.exhausted /\ n > 0 => W = UpTo(W, p) \cup page.docs
      /\ ~page.exhausted => /\ page.last \in DOMAIN snap
                            /\ Position(snap, pred, skip, limit, page.last, page.limit)

\* The hits and the answer are finite sets of keys.
LEMMA AnswerFinite ==
  ASSUME NEW snap, IsFiniteSet(DOMAIN snap), NEW pred, NEW skip, NEW limit
  PROVE  /\ Hits(snap, pred) \in SUBSET DOMAIN snap /\ IsFiniteSet(Hits(snap, pred))
         /\ Answer(snap, pred, skip, limit) \in SUBSET Hits(snap, pred)
         /\ IsFiniteSet(Answer(snap, pred, skip, limit))
<1>1. Hits(snap, pred) \in SUBSET DOMAIN snap
  BY DEF Hits, Present
<1>2. Answer(snap, pred, skip, limit) \in SUBSET Hits(snap, pred)
  BY DEF Answer, Hits
<1> QED BY <1>1, <1>2, FS_Subset

\* A page that starts where the rest of the answer starts is a page of the query.
LEMMA ScanIsPage ==
  ASSUME NEW snap, IsFiniteSet(DOMAIN snap), DOMAIN snap \subseteq Nat, NEW pred,
         NEW skip \in Int, NEW limit \in Int \cup {NoLimit}, NoLimit \notin Int,
         NEW p \in Nat, NEW gone \in Int, NEW n \in Int, NEW left \in Int \cup {NoLimit},
         NEW W, W = Answer(snap, pred, skip, limit),
         NEW D, D = Unskipped(Hits(snap, pred), skip),
         NEW H, H = {k \in Rest(snap, p) : snap[k] \in pred},
         NEW B, B = Unskipped(H, gone), B \subseteq D,
         Beyond(W, p) = Allowed(B, left),
         left = IF limit = NoLimit THEN NoLimit ELSE limit - Cardinality(UpTo(W, p)),
         NEW page, page = Scan(snap, pred, p, gone, n, left)
  PROVE  PageOf(snap, pred, skip, limit, p, n, page)
<1> DEFINE rest == Rest(snap, p)
           room == IF Unlimited(left) THEN n ELSE Min({n, left})
           docs == First(B, room)
           full == Cardinality(docs) = room
           rem == IF left = NoLimit THEN NoLimit ELSE left - Cardinality(docs)
<1>1. /\ rest \in SUBSET DOMAIN snap /\ IsFiniteSet(rest) /\ rest \subseteq Int
      /\ H \in SUBSET rest /\ IsFiniteSet(H) /\ H \subseteq Int
      /\ B \in SUBSET H /\ IsFiniteSet(B) /\ B \subseteq Int
  <2>1. rest \in SUBSET DOMAIN snap
    BY DEF Rest, Present
  <2>2. H \in SUBSET rest
    OBVIOUS
  <2>3. B \in SUBSET H
    BY Zenon DEF Unskipped
  <2>4. IsFiniteSet(rest)
    BY <2>1, FS_Subset
  <2>5. IsFiniteSet(H)
    BY <2>2, <2>4, FS_Subset
  <2>6. IsFiniteSet(B)
    BY <2>3, <2>5, FS_Subset
  <2> QED BY <2>1, <2>2, <2>3, <2>4, <2>5, <2>6
<1>2. \A k \in B : k > p
  BY <1>1 DEF Rest
<1>3. W \subseteq Int /\ IsFiniteSet(W)
  BY AnswerFinite
<1>4. page = IF n <= 0 \/ left = 0 THEN Page({}, p, TRUE, left)
             ELSE Page(docs, LastKey(rest, docs, full, p), IsExhausted(full, rem), rem)
  BY <1>1, ScanUnfolds
<1>5. CASE n <= 0 \/ left = 0
  <2>1. page = Page({}, p, TRUE, left)
    BY <1>4, <1>5
  <2>2. left = 0 => W = UpTo(W, p)
    <3> SUFFICES ASSUME left = 0 PROVE Beyond(W, p) = {}
      BY <1>3 DEF Beyond, UpTo
    <3>1. \A k \in B : Rank(B, k) \in Nat /\ 1 <= Rank(B, k)
      BY <1>1, RankRange
    <3>2. First(B, 0) = {}
      BY <3>1 DEF First
    <3>3. ~Unlimited(left)
      BY DEF Unlimited
    <3> QED BY <3>2, <3>3 DEF Allowed
  <2>3. page.docs = {} /\ page.last = p /\ page.exhausted /\ page.limit = left
    BY <2>1 DEF Page
  <2>4. Continues(page, W, p)
    BY <2>3 DEF Continues
  <2>5. page \in [docs : SUBSET DOMAIN snap, last : DOMAIN snap \cup {p},
                  exhausted : BOOLEAN, limit : Int \cup {NoLimit}]
    BY <2>1 DEF Page
  <2>6. n > 0 => W = UpTo(W, p) \cup page.docs
    BY <1>5, <2>2, <2>3
  <2> QED BY <2>3, <2>4, <2>5, <2>6 DEF PageOf
<1>6. CASE ~(n <= 0 \/ left = 0)
  <2>1. n \in Nat \ {0} /\ left # 0
    BY <1>6
  <2> HIDE DEF rest
  <2>2. /\ Continues(page, W, p)
        /\ page.exhausted => W = UpTo(W, p) \cup page.docs
        /\ page \in [docs : SUBSET rest, last : rest \cup {p}, exhausted : BOOLEAN, limit : Int \cup {NoLimit}]
        /\ ~page.exhausted =>
             /\ page.last \in B
             /\ page.limit = IF left = NoLimit THEN NoLimit ELSE left - Cardinality(page.docs)
             /\ Cardinality(UpTo(W, page.last)) = Cardinality(UpTo(W, p)) + Cardinality(page.docs)
             /\ Cardinality(UpTo(W, p)) \in Nat /\ Cardinality(page.docs) \in Nat
    <3>1. page = Page(docs, LastKey(rest, docs, full, p), IsExhausted(full, rem), rem)
      BY <1>4, <1>6
    <3> HIDE DEF docs, rem, full, room
    <3>2. /\ room = IF Unlimited(left) THEN n ELSE Min({n, left})
          /\ docs = First(B, room) /\ full = (Cardinality(docs) = room)
          /\ rem = IF left = NoLimit THEN NoLimit ELSE left - Cardinality(docs)
      BY DEF docs, rem, full, room
    <3> QED BY <1>1, <1>2, <1>3, <2>1, <3>1, <3>2, PageContinues
  <2>3. page \in [docs : SUBSET DOMAIN snap, last : DOMAIN snap \cup {p},
                  exhausted : BOOLEAN, limit : Int \cup {NoLimit}]
    BY <1>1, <2>2
  <2>4. ASSUME ~page.exhausted
        PROVE  /\ page.last \in DOMAIN snap
               /\ Position(snap, pred, skip, limit, page.last, page.limit)
    <3>1. page.last \in B /\ page.last \in D /\ page.last \in DOMAIN snap /\ page.last \in Nat
      BY <1>1, <2>2, <2>4
    <3>2. /\ \A k \in Hits(snap, pred) : Rank(Hits(snap, pred), k) \in Nat
          /\ \A j, k \in Hits(snap, pred) : j < k => Rank(Hits(snap, pred), j) < Rank(Hits(snap, pred), k)
          /\ \A k \in Hits(snap, pred) : k \in D <=> Rank(Hits(snap, pred), k) > skip
          /\ D \subseteq Hits(snap, pred)
      <4>1. IsFiniteSet(Hits(snap, pred)) /\ Hits(snap, pred) \subseteq Int
        BY AnswerFinite
      <4>2. D \subseteq Hits(snap, pred)
        BY Zenon DEF Unskipped
      <4> QED BY <4>1, <4>2, RankRange, UnskippedHits
    <3>3. Beyond(Hits(snap, pred), page.last) \subseteq D
      <4> SUFFICES ASSUME NEW k \in Hits(snap, pred), k > page.last PROVE Rank(Hits(snap, pred), k) > skip
        BY <3>2, Zenon DEF Beyond
      <4>1. k \in Int /\ page.last < k
        BY <3>1, AnswerFinite
      <4> QED BY <3>1, <3>2, <4>1
    <3>4. page.limit = IF limit = NoLimit THEN NoLimit ELSE limit - Cardinality(UpTo(W, page.last))
      <4>1. CASE limit = NoLimit
        BY <2>2, <2>4, <4>1
      <4>2. CASE limit # NoLimit
        <5>1. limit \in Int /\ left = limit - Cardinality(UpTo(W, p)) /\ left # NoLimit
          BY <2>2, <2>4, <4>2
        <5> QED BY <2>2, <2>4, <5>1
      <4> QED BY <4>1, <4>2
    <3> QED BY <3>1, <3>3, <3>4 DEF Position
  <2> QED BY <2>2, <2>3, <2>4 DEF PageOf
<1> QED BY <1>5, <1>6

\* The page of a find: it starts below every key.
LEMMA FirstPage ==
  ASSUME NEW snap, IsFiniteSet(DOMAIN snap), DOMAIN snap \subseteq Nat \ {0}, NEW pred,
         NEW skip \in Int, NEW limit \in Int \cup {NoLimit}, NoLimit \notin Int, NEW n \in Int
  PROVE  PageOf(snap, pred, skip, limit, Start, n, Scan(snap, pred, Start, skip, n, limit))
<1> DEFINE W == Answer(snap, pred, skip, limit)
           D == Unskipped(Hits(snap, pred), skip)
           H == {k \in Rest(snap, Start) : snap[k] \in pred}
<1>1. Start \in Nat /\ \A k \in DOMAIN snap : k \in Nat /\ k > Start /\ ~(k <= Start)
  BY DEF Start
<1>2. H = Hits(snap, pred)
  BY <1>1, Zenon DEF Rest, Present, Hits
<1>3. /\ Hits(snap, pred) \in SUBSET DOMAIN snap /\ IsFiniteSet(Hits(snap, pred))
      /\ W \in SUBSET Hits(snap, pred) /\ IsFiniteSet(W)
  BY AnswerFinite
<1>4. W = Allowed(D, limit)
  BY <1>3, AnswerIsAllowed
<1>5. Beyond(W, Start) = W /\ UpTo(W, Start) = {}
  <2>1. \A k \in W : k > Start /\ ~(k <= Start)
    BY <1>1, <1>3
  <2> QED BY <2>1, Zenon DEF Beyond, UpTo
<1>6. limit = IF limit = NoLimit THEN NoLimit ELSE limit - Cardinality(UpTo(W, Start))
  BY <1>5, FS_EmptySet
<1> HIDE DEF W, D, H
<1>7. /\ W = Answer(snap, pred, skip, limit) /\ D = Unskipped(Hits(snap, pred), skip)
      /\ H = {k \in Rest(snap, Start) : snap[k] \in pred} /\ D = Unskipped(H, skip) /\ D \subseteq D
  BY <1>2 DEF W, D, H
<1>8. DOMAIN snap \subseteq Nat
  OBVIOUS
<1> QED BY <1>1, <1>4, <1>5, <1>6, <1>7, <1>8, ScanIsPage

\* The page of a getMore: it goes on from the cursor's position.
LEMMA NextPage ==
  ASSUME NEW snap, IsFiniteSet(DOMAIN snap), DOMAIN snap \subseteq Nat \ {0}, NEW pred,
         NEW skip \in Int, NEW limit \in Int \cup {NoLimit}, NoLimit \notin Int,
         NEW p, NEW left, Position(snap, pred, skip, limit, p, left), NEW n \in Int
  PROVE  PageOf(snap, pred, skip, limit, p, n, Scan(snap, pred, p, 0, n, left))
<1> DEFINE W == Answer(snap, pred, skip, limit)
           hits == Hits(snap, pred)
           D == Unskipped(hits, skip)
           H == {k \in Rest(snap, p) : snap[k] \in pred}
           B == Unskipped(H, 0)
<1>1. p \in Nat /\ Beyond(hits, p) \subseteq D
      /\ left = IF limit = NoLimit THEN NoLimit ELSE limit - Cardinality(UpTo(W, p))
  BY DEF Position
<1>2. /\ hits \in SUBSET DOMAIN snap /\ IsFiniteSet(hits) /\ hits \subseteq Int
      /\ W \in SUBSET hits /\ IsFiniteSet(W)
  BY AnswerFinite
<1>3. /\ UpTo(W, p) \in SUBSET W /\ IsFiniteSet(UpTo(W, p)) /\ Cardinality(UpTo(W, p)) \in Nat
      /\ D \in SUBSET hits /\ IsFiniteSet(D) /\ D \subseteq Int
  <2>1. UpTo(W, p) \in SUBSET W /\ D \in SUBSET hits
    BY Zenon DEF UpTo, Unskipped
  <2> QED BY <1>2, <2>1, FS_Subset, FS_CardinalityType
<1>4. H = Beyond(hits, p)
  BY Zenon DEF Rest, Present, Hits, Beyond
<1>5. H = Beyond(D, p) /\ H \in SUBSET hits /\ IsFiniteSet(H) /\ H \subseteq Int
  <2>1. H = Beyond(D, p) /\ H \in SUBSET hits
    BY <1>1, <1>3, <1>4, Zenon DEF Beyond
  <2> QED BY <1>2, <2>1, FS_Subset
<1>6. B = H
  <2>1. \A k \in H : Rank(H, k) \in Nat /\ 1 <= Rank(H, k)
    BY <1>5, RankRange
  <2>2. \A k \in H : k \in B <=> Rank(H, k) > 0
    BY <1>5, UnskippedHits
  <2>3. \A k \in H : k \in B
    BY <2>1, <2>2
  <2> QED BY <2>3, Zenon DEF Unskipped
<1>7. W = Allowed(D, limit)
  BY <1>2, AnswerIsAllowed
<1>8. Beyond(W, p) = Allowed(B, left) /\ left \in Int \cup {NoLimit}
  <2>1. CASE Unlimited(limit)
    <3>1. Unlimited(left) /\ left \in Int \cup {NoLimit}
      <4>1. CASE limit = NoLimit
        BY <1>1, <4>1 DEF Unlimited
      <4>2. CASE limit # NoLimit
        <5>1. limit \in Int /\ limit < 0
          BY <2>1, <4>2 DEF Unlimited
        <5>2. left \in Int /\ left < 0
          BY <1>1, <1>3, <4>2, <5>1
        <5> QED BY <5>2 DEF Unlimited
      <4> QED BY <4>1, <4>2
    <3>2. W = D
      BY <1>7, <2>1 DEF Allowed
    <3> QED BY <1>5, <1>6, <3>1, <3>2 DEF Allowed
  <2>2. CASE ~Unlimited(limit)
    <3>1. limit \in Nat /\ limit # NoLimit
      BY <2>2 DEF Unlimited
    <3>2. W = First(D, limit)
      BY <1>7, <2>2 DEF Allowed
    <3>3. left = limit - Cardinality(UpTo(First(D, limit), p))
      BY <1>1, <3>1, <3>2
    <3>4. left \in Nat /\ Beyond(First(D, limit), p) = First(Beyond(D, p), left)
      <4> HIDE DEF D
      <4>1. p \in Int
        BY <1>1
      <4> QED BY <1>3, <3>1, <3>3, <4>1, FirstSplit
    <3>5. ~Unlimited(left)
      BY <3>4 DEF Unlimited
    <3> QED BY <1>5, <1>6, <3>2, <3>4, <3>5 DEF Allowed
  <2> QED BY <2>1, <2>2
<1> HIDE DEF W, hits, D, H, B
<1>9. /\ W = Answer(snap, pred, skip, limit) /\ D = Unskipped(Hits(snap, pred), skip)
      /\ H = {k \in Rest(snap, p) : snap[k] \in pred} /\ B = Unskipped(H, 0) /\ B \subseteq D
  BY <1>1, <1>4, <1>6 DEF W, hits, D, H, B
<1>10. DOMAIN snap \subseteq Nat
  OBVIOUS
<1> QED BY <1>1, <1>8, <1>9, <1>10, ScanIsPage
=============================================================================
