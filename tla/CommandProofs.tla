---------------------------- MODULE CommandProofs ----------------------------
(* Proofs, for any messages, of what a command is executed with: what merging
   keeps of the sections of a message (the recursion over the sections is
   unfolded by induction on their number), that of a well-formed message this is
   all that was sent, and what the parsers take from the document that results. *)
EXTENDS ConnectionProofs, WellFoundedInduction

\* Induction over a set, the form that needs no operator for the hypothesis.
LEMMA Induction ==
  ASSUME NEW S, 0 \in S, \A n \in Nat : n \in S => n + 1 \in S
  PROVE  Nat \subseteq S
<1> DEFINE Rest == Nat \ S
<1> SUFFICES ASSUME Rest # {} PROVE FALSE
  OBVIOUS
<1>1. PICK n \in Rest : \A m \in Rest : <<m, n>> \notin OpToRel(<, Nat)
  <2>1. IsWellFoundedOn(OpToRel(<, Nat), Nat)
    BY NatLessThanWellFounded, Zenon
  <2>2. Rest \subseteq Nat
    OBVIOUS
  <2> HIDE DEF Rest
  <2> QED BY <2>1, <2>2, WFMin, Zenon
<1>2. \A m \in Nat : m < n => m \in S
  <2>1. \A m \in Nat : m < n => <<m, n>> \in OpToRel(<, Nat)
    BY DEF OpToRel
  <2> QED BY <1>1, <2>1
<1>3. n # 0 /\ n - 1 \in Nat /\ n - 1 < n
  OBVIOUS
<1>4. (n - 1) + 1 \in S
  BY <1>2, <1>3
<1> QED BY <1>4

-----------------------------------------------------------------------------
(* Documents.                                                                *)
IsSequence(s) == s \in Seq(Range(s))

\* A sequence is a function on 1 .. Len.
LEMMA SequenceFacts ==
  ASSUME NEW s, IsSequence(s)
  PROVE  Len(s) \in Nat /\ DOMAIN s = 1 .. Len(s)
BY LenProperties DEF IsSequence

LEMMA FunctionIsSequence ==
  ASSUME NEW n \in Nat, NEW s, DOMAIN s = 1 .. n, s = [i \in 1 .. n |-> s[i]]
  PROVE  IsSequence(s) /\ Len(s) = n
<1>1. s \in [1 .. n -> Range(s)]
  BY DEF Range
<1>2. s \in Seq(Range(s))
  BY <1>1, SeqDef
<1> QED BY <1>1, <1>2, LenProperties DEF IsSequence

\* A field that is found has one of the places of its key.
LEMMA GetFacts ==
  ASSUME NEW doc, NEW key
  PROVE  /\ key \in Keys(doc) <=> Places(doc, key) # {}
         /\ key \in Keys(doc) => Get(doc, key) \in {doc[i].value : i \in Places(doc, key)}
<1>1. key \in Keys(doc) <=> Places(doc, key) # {}
  BY DEF Keys, Places
<1>2. ASSUME key \in Keys(doc) PROVE Get(doc, key) \in {doc[i].value : i \in Places(doc, key)}
  BY <1>1, <1>2 DEF Get
<1> QED BY <1>1, <1>2

\* A document has a field it was given, and its other fields as before.
LEMMA InsertGets ==
  ASSUME NEW doc, IsSequence(doc), NEW name, NEW value
  PROVE  /\ IsSequence(Insert(doc, name, value))
         /\ Get(Insert(doc, name, value), name) = value
         /\ \A key : key # name => Get(Insert(doc, name, value), key) = Get(doc, key)
<1> DEFINE new == Insert(doc, name, value)
<1>1. Len(doc) \in Nat /\ DOMAIN doc = 1 .. Len(doc)
  BY SequenceFacts
<1>2. F(name, value).key = name /\ F(name, value).value = value
  BY DEF F
<1>3. /\ IsSequence(new) /\ DOMAIN doc \subseteq DOMAIN new
      /\ \A i \in DOMAIN new : new[i] = F(name, value) \/ (i \in DOMAIN doc /\ new[i] = doc[i] /\ doc[i].key # name)
      /\ \A i \in DOMAIN doc : new[i] = doc[i] \/ (new[i] = F(name, value) /\ doc[i].key = name)
      /\ \E i \in DOMAIN new : new[i] = F(name, value)
  <2>1. CASE name \in Keys(doc)
    <3>1. new = [i \in DOMAIN doc |-> IF doc[i].key = name THEN F(name, value) ELSE doc[i]]
      BY <2>1 DEF Insert
    <3>2. DOMAIN new = 1 .. Len(doc) /\ new = [i \in 1 .. Len(doc) |-> new[i]]
      BY <1>1, <3>1
    <3>3. PICK i \in DOMAIN doc : doc[i].key = name
      BY <2>1 DEF Keys
    <3> HIDE DEF new
    <3>4. IsSequence(new)
      BY <1>1, <3>2, FunctionIsSequence
    <3> QED BY <1>1, <3>1, <3>2, <3>3, <3>4
  <2>2. CASE name \notin Keys(doc)
    <3>1. new = Append(doc, F(name, value))
      BY <2>2 DEF Insert
    <3> DEFINE S == Range(doc) \cup {F(name, value)}
    <3>2. doc \in Seq(S)
      <4>1. \A i \in 1 .. Len(doc) : doc[i] \in S
        BY <1>1 DEF Range
      <4>2. doc \in [1 .. Len(doc) -> Range(doc)]
        BY SeqDef DEF IsSequence
      <4>3. doc \in [1 .. Len(doc) -> S]
        BY <1>1, <4>1, <4>2
      <4> QED BY <1>1, <4>3, SeqDef
    <3>3. /\ DOMAIN new = 1 .. Len(doc) + 1 /\ new = [i \in 1 .. Len(doc) + 1 |-> new[i]]
          /\ new[Len(doc) + 1] = F(name, value) /\ \A i \in 1 .. Len(doc) : new[i] = doc[i]
      <4>1. F(name, value) \in S
        OBVIOUS
      <4> HIDE DEF S, new
      <4>2. /\ new \in Seq(S) /\ Len(new) = Len(doc) + 1 /\ new[Len(doc) + 1] = F(name, value)
            /\ \A i \in 1 .. Len(doc) : new[i] = doc[i]
        BY <3>1, <3>2, <4>1, AppendProperties
      <4>3. DOMAIN new = 1 .. Len(doc) + 1 /\ new = [i \in DOMAIN new |-> new[i]]
        <5>1. new \in [1 .. Len(new) -> S]
          BY <4>2, SeqDef
        <5> QED BY <4>2, <5>1
      <4> QED BY <4>2, <4>3
    <3>4. \A i \in DOMAIN doc : doc[i].key # name
      BY <2>2 DEF Keys
    <3> HIDE DEF new
    <3>5. IsSequence(new)
      <4>1. Len(doc) + 1 \in Nat
        BY <1>1
      <4> QED BY <3>3, <4>1, FunctionIsSequence
    <3>6. Len(doc) + 1 \in DOMAIN new /\ DOMAIN doc \subseteq DOMAIN new
      BY <1>1, <3>3
    <3>7. ASSUME NEW i \in DOMAIN new
          PROVE  new[i] = F(name, value) \/ (i \in DOMAIN doc /\ new[i] = doc[i] /\ doc[i].key # name)
      <4>1. i = Len(doc) + 1 \/ i \in DOMAIN doc
        BY <1>1, <3>3
      <4> QED BY <1>1, <3>3, <3>4, <4>1
    <3>8. \A i \in DOMAIN doc : new[i] = doc[i]
      BY <1>1, <3>3
    <3> QED BY <3>3, <3>5, <3>6, <3>7, <3>8
  <2> QED BY <2>1, <2>2
<1> HIDE DEF new
<1>4. Get(new, name) = value
  <2>1. name \in Keys(new)
    BY <1>2, <1>3 DEF Keys
  <2>2. \A i \in Places(new, name) : new[i].value = value
    BY <1>2, <1>3 DEF Places
  <2> QED BY <2>1, <2>2, GetFacts
<1>5. ASSUME NEW key, key # name PROVE Get(new, key) = Get(doc, key)
  <2>1. Places(new, key) = Places(doc, key)
    BY <1>2, <1>3, <1>5 DEF Places
  <2>2. key \in Keys(new) <=> key \in Keys(doc)
    BY <2>1, GetFacts
  <2>3. CASE key \in Keys(doc)
    <3> DEFINE i == CHOOSE j \in Places(doc, key) : TRUE
    <3>1. i \in Places(doc, key)
      BY <2>3, GetFacts
    <3>2. i \in DOMAIN doc /\ doc[i].key = key
      BY <3>1 DEF Places
    <3>3. new[i] = doc[i]
      BY <1>2, <1>3, <1>5, <3>2
    <3>4. Get(new, key) = new[i].value /\ Get(doc, key) = doc[i].value
      BY <2>1, <2>2, <2>3 DEF Get
    <3> QED BY <3>3, <3>4
  <2> QED BY <2>2, <2>3 DEF Get
<1> QED BY <1>3, <1>4, <1>5 DEF new

-----------------------------------------------------------------------------
(* Merging of sections.                                                      *)
\* The recursion of Merged is well founded: it has a function that satisfies it.
LEMMA MergedUnfolds ==
  ASSUME NEW body, NEW sections, Len(sections) \in Nat
  PROVE  \E f : /\ f[0] = body
                /\ \A n \in 1 .. Len(sections) : f[n] = Merge(f[n - 1], sections[n])
                /\ Merged(body, sections) = f[Len(sections)]
<1> DEFINE Step(f, n) == IF n = 0 THEN body ELSE Merge(f[n - 1], sections[n])
           Defined == {k \in Nat : \E f : f = [n \in 0 .. k |-> Step(f, n)]}
<1>1. 0 \in Defined
  <2> DEFINE f == [n \in 0 .. 0 |-> body]
  <2>1. f = [n \in 0 .. 0 |-> Step(f, n)]
    <3>1. \A n \in 0 .. 0 : n = 0
      OBVIOUS
    <3> HIDE DEF f
    <3>2. f = [n \in 0 .. 0 |-> body]
      BY DEF f
    <3> QED BY <3>1, <3>2
  <2> QED BY <2>1, Zenon
<1>2. ASSUME NEW k \in Nat, k \in Defined PROVE k + 1 \in Defined
  <2>1. PICK f : f = [n \in 0 .. k |-> Step(f, n)]
    BY <1>2
  <2> DEFINE g == [n \in 0 .. k + 1 |-> IF n \in 0 .. k THEN f[n] ELSE Merge(f[k], sections[k + 1])]
  <2>2. ASSUME NEW n \in 0 .. k + 1 PROVE g[n] = Step(g, n)
    <3>1. CASE n = 0
      <4>1. n \in 0 .. k
        BY <3>1
      <4>2. f[n] = body
        BY <2>1, <3>1, <4>1
      <4> QED BY <3>1, <4>1, <4>2
    <3>2. CASE n \in 1 .. k
      <4>1. n \in 0 .. k /\ n - 1 \in 0 .. k /\ n # 0
        BY <3>2
      <4>2. f[n] = Merge(f[n - 1], sections[n])
        BY <2>1, <4>1
      <4>3. g[n] = f[n] /\ g[n - 1] = f[n - 1]
        BY <4>1
      <4> QED BY <4>1, <4>2, <4>3
    <3>3. CASE n = k + 1
      <4>1. n \notin 0 .. k /\ n - 1 = k /\ k \in 0 .. k /\ k \in 0 .. k + 1 /\ n # 0
        BY <3>3
      <4>2. g[n] = Merge(f[k], sections[k + 1]) /\ g[k] = f[k]
        BY <3>3, <4>1
      <4> QED BY <3>3, <4>1, <4>2
    <3> QED BY <3>1, <3>2, <3>3
  <2>3. g = [n \in 0 .. k + 1 |-> g[n]]
    OBVIOUS
  <2> HIDE DEF g
  <2>4. g = [n \in 0 .. k + 1 |-> Step(g, n)]
    BY <2>2, <2>3
  <2> HIDE DEF Step
  <2>5. \E h : h = [n \in 0 .. k + 1 |-> Step(h, n)]
    BY <2>4, Zenon
  <2>6. k + 1 \in Nat
    OBVIOUS
  <2> QED BY <2>5, <2>6, Zenon
<1>3. Len(sections) \in Defined
  <2> HIDE DEF Defined
  <2> QED BY <1>1, <1>2, Induction
<1> DEFINE f == CHOOSE g : g = [n \in 0 .. Len(sections) |-> Step(g, n)]
<1>4. Merged(body, sections) = f[Len(sections)]
  BY DEF Merged
<1>5. f = [n \in 0 .. Len(sections) |-> Step(f, n)]
  <2> HIDE DEF Step
  <2> QED BY <1>3
<1> HIDE DEF f
<1>6. f[0] = body /\ \A n \in 1 .. Len(sections) : f[n] = Merge(f[n - 1], sections[n])
  <2>1. \A n \in 0 .. Len(sections) : f[n] = Step(f, n)
    BY <1>5
  <2>2. 0 \in 0 .. Len(sections) /\ \A n \in 1 .. Len(sections) : n \in 0 .. Len(sections) /\ n # 0
    OBVIOUS
  <2> QED BY <2>1, <2>2
<1> QED BY <1>4, <1>6

\* The field of a sequence: its documents as an array.
Field(s) == Arr([i \in DOMAIN s.docs |-> Doc(s.docs[i])])
Names(s, key) == s.kind = "sequence" /\ s.identifier = key

\* After any sections a field is that of the last sequence of its name, or else
\* that of the body.
LEMMA MergedGets ==
  ASSUME NEW body, IsSequence(body), NEW sections, Len(sections) \in Nat, NEW key
  PROVE  /\ \A k \in 1 .. Len(sections) :
              Names(sections[k], key) /\ (\A j \in k + 1 .. Len(sections) : ~Names(sections[j], key)) =>
                Get(Merged(body, sections), key) = Field(sections[k])
         /\ (\A j \in 1 .. Len(sections) : ~Names(sections[j], key)) =>
              Get(Merged(body, sections), key) = Get(body, key)
<1>1. PICK f : /\ f[0] = body
               /\ \A n \in 1 .. Len(sections) : f[n] = Merge(f[n - 1], sections[n])
               /\ Merged(body, sections) = f[Len(sections)]
  BY MergedUnfolds
<1> DEFINE GetsLast(n) ==
      /\ IsSequence(f[n])
      /\ \A k \in 1 .. n :
           Names(sections[k], key) /\ (\A j \in k + 1 .. n : ~Names(sections[j], key)) =>
             Get(f[n], key) = Field(sections[k])
      /\ (\A j \in 1 .. n : ~Names(sections[j], key)) => Get(f[n], key) = Get(body, key)
    Proved == {n \in Nat : n <= Len(sections) => GetsLast(n)}
<1>2. 0 \in Proved
  BY <1>1
<1>3. ASSUME NEW n \in Nat, n \in Proved PROVE n + 1 \in Proved
  <2> SUFFICES ASSUME n + 1 <= Len(sections) PROVE GetsLast(n + 1)
    OBVIOUS
  <2> DEFINE s == sections[n + 1]
  <2>1. GetsLast(n) /\ n + 1 \in 1 .. Len(sections) /\ (n + 1) - 1 = n
    BY <1>3
  <2>2. f[n + 1] = Merge(f[n], s)
    BY <1>1, <2>1
  <2>3. IsSequence(f[n + 1]) /\ (Names(s, key) => Get(f[n + 1], key) = Field(s))
        /\ (~Names(s, key) => Get(f[n + 1], key) = Get(f[n], key))
    <3> HIDE DEF s
    <3>1. CASE s.kind = "sequence"
      <4>1. f[n + 1] = Insert(f[n], s.identifier, Field(s))
        BY <2>2, <3>1 DEF Merge, Field
      <4> QED BY <2>1, <3>1, <4>1, InsertGets DEF Names
    <3>2. CASE s.kind # "sequence"
      BY <2>1, <2>2, <3>2 DEF Merge, Names
    <3> QED BY <3>1, <3>2
  <2>4. ASSUME NEW k \in 1 .. n + 1, Names(sections[k], key),
               \A j \in k + 1 .. n + 1 : ~Names(sections[j], key)
        PROVE  Get(f[n + 1], key) = Field(sections[k])
    <3>1. CASE k = n + 1
      BY <2>3, <2>4, <3>1
    <3>2. CASE k \in 1 .. n
      <4>1. n + 1 \in k + 1 .. n + 1 /\ \A j \in k + 1 .. n : j \in k + 1 .. n + 1
        BY <3>2
      <4>2. ~Names(s, key) /\ \A j \in k + 1 .. n : ~Names(sections[j], key)
        BY <2>4, <4>1
      <4>3. Get(f[n], key) = Field(sections[k])
        BY <2>1, <2>4, <3>2, <4>2
      <4> QED BY <2>3, <4>2, <4>3
    <3> QED BY <3>1, <3>2
  <2>5. ASSUME \A j \in 1 .. n + 1 : ~Names(sections[j], key)
        PROVE  Get(f[n + 1], key) = Get(body, key)
    <3>1. n + 1 \in 1 .. n + 1 /\ \A j \in 1 .. n : j \in 1 .. n + 1
      OBVIOUS
    <3>2. ~Names(s, key) /\ \A j \in 1 .. n : ~Names(sections[j], key)
      BY <2>5, <3>1
    <3> QED BY <2>1, <2>3, <3>2
  <2> QED BY <2>3, <2>4, <2>5
<1>4. Len(sections) \in Proved
  <2> HIDE DEF Proved
  <2> QED BY <1>2, <1>3, Induction
<1> QED BY <1>1, <1>4
-----------------------------------------------------------------------------
(* What a well-formed message says for a name is what the command document has
   for it.                                                                   *)
\* The smallest of some places in a sequence: without one, by induction, no
\* place is among them.
LEMMA FirstPlace ==
  ASSUME NEW n \in Nat, NEW S \in SUBSET (1 .. n), S # {}
  PROVE  Min(S) \in S /\ \A i \in S : Min(S) <= i
<1> DEFINE Without == {k \in Nat : \A j \in 0 .. k : j \notin S}
<1>1. \E k \in S : \A i \in S : k <= i
  <2> SUFFICES ASSUME \A k \in S : \E i \in S : ~(k <= i) PROVE FALSE
    OBVIOUS
  <2>1. 0 \in Without
    OBVIOUS
  <2>2. ASSUME NEW k \in Nat, k \in Without PROVE k + 1 \in Without
    <3>1. k + 1 \notin S
      <4> SUFFICES ASSUME k + 1 \in S PROVE FALSE
        OBVIOUS
      <4>1. PICK i \in S : i < k + 1
        OBVIOUS
      <4>2. i \in 0 .. k
        BY <4>1
      <4> QED BY <2>2, <4>2
    <3>2. \A j \in 0 .. k + 1 : j \in 0 .. k \/ j = k + 1
      OBVIOUS
    <3> QED BY <2>2, <3>1, <3>2
  <2> HIDE DEF Without
  <2>3. Nat \subseteq Without
    BY <2>1, <2>2, Induction
  <2>4. PICK i \in S : TRUE
    OBVIOUS
  <2>5. i \in Nat /\ i \in 0 .. i
    OBVIOUS
  <2> QED BY <2>3, <2>4, <2>5 DEF Without
<1> QED BY <1>1 DEF Min

\* The largest of some places in a sequence.
LEMMA LastPlace ==
  ASSUME NEW n \in Nat, NEW S \in SUBSET (1 .. n), S # {}
  PROVE  Max(S) \in S /\ \A i \in S : i <= Max(S)
<1> DEFINE Without == {k \in Nat : \A j \in 0 .. k : n - j \notin S}
<1>1. \E k \in S : \A i \in S : i <= k
  <2> SUFFICES ASSUME \A k \in S : \E i \in S : ~(i <= k) PROVE FALSE
    OBVIOUS
  <2>1. 0 \in Without
    <3>1. n \notin S
      OBVIOUS
    <3> QED BY <3>1
  <2>2. ASSUME NEW k \in Nat, k \in Without PROVE k + 1 \in Without
    <3>1. n - (k + 1) \notin S
      <4> SUFFICES ASSUME n - (k + 1) \in S PROVE FALSE
        OBVIOUS
      <4>1. PICK i \in S : i > n - (k + 1)
        OBVIOUS
      <4>2. n - i \in 0 .. k /\ i = n - (n - i)
        BY <4>1
      <4> QED BY <2>2, <4>2
    <3>2. \A j \in 0 .. k + 1 : j \in 0 .. k \/ j = k + 1
      OBVIOUS
    <3> QED BY <2>2, <3>1, <3>2
  <2> HIDE DEF Without
  <2>3. Nat \subseteq Without
    BY <2>1, <2>2, Induction
  <2>4. PICK i \in S : TRUE
    OBVIOUS
  <2>5. n - i \in Nat /\ n - (n - i) = i /\ n - i \in 0 .. (n - i)
    OBVIOUS
  <2> QED BY <2>3, <2>4, <2>5 DEF Without
<1> QED BY <1>1 DEF Max

\* What is kept of any message for a name: its last sequence, or else the field
\* of the first body.
Named(m, key) ==
  {i \in DOMAIN m.sections : m.sections[i].kind = "sequence" /\ m.sections[i].identifier = key}
Kept(m, key) ==
  IF Named(m, key) # {} /\ m.opCode = "OP_MSG" THEN Field(m.sections[Max(Named(m, key))])
  ELSE Get(FirstBody(m), key)

LEMMA DocumentKeeps ==
  ASSUME script \in Scripts, NEW p \in DOMAIN script, script[p].kind = "message",
         NEW m, m = script[p].message, Decodes(m),
         NEW doc \in CommandDocument(m), NEW key
  PROVE  Get(doc, key) = Kept(m, key)
<1> DEFINE n == Len(m.sections)
<1>1. /\ IsSequence(m.sections) /\ n \in Nat /\ DOMAIN m.sections = 1 .. n
      /\ \A i \in 1 .. n : m.sections[i].kind = "body" => IsSequence(m.sections[i].doc)
  <2>1. /\ IsSequence(m.sections)
        /\ \A i \in DOMAIN m.sections : m.sections[i].kind = "body" => IsSequence(m.sections[i].doc)
    BY MessagesAssumption DEF IsSequence
  <2> QED BY <2>1, SequenceFacts
<1>2. /\ Bodies(m) # {}
      /\ doc = IF m.opCode = "OP_QUERY" THEN FirstBody(m) ELSE Merged(FirstBody(m), m.sections)
  BY DEF CommandDocument
<1>3. m.opCode \in {"OP_MSG", "OP_QUERY"}
  BY DEF Decodes
<1>4. CASE m.opCode = "OP_QUERY"
  BY <1>2, <1>4 DEF Kept
<1>5. CASE m.opCode = "OP_MSG"
  <2>1. doc = Merged(FirstBody(m), m.sections)
    BY <1>2, <1>5
  <2>2. IsSequence(FirstBody(m))
    <3>1. Bodies(m) \in SUBSET (1 .. n)
      BY <1>1 DEF Bodies
    <3>2. Min(Bodies(m)) \in Bodies(m)
      BY <1>1, <1>2, <3>1, FirstPlace, Zenon
    <3> QED BY <1>1, <3>1, <3>2 DEF FirstBody, Bodies
  <2>3. Named(m, key) = {i \in 1 .. n : Names(m.sections[i], key)}
    BY <1>1 DEF Named, Names
  <2>4. CASE Named(m, key) # {}
    <3> DEFINE k == Max(Named(m, key))
    <3>1. k \in Named(m, key) /\ \A i \in Named(m, key) : i <= k
      <4> Named(m, key) \in SUBSET (1 .. n)
        BY <2>3
      <4> QED BY <1>1, <2>4, LastPlace
    <3>2. k \in 1 .. n /\ Names(m.sections[k], key) /\ \A j \in k + 1 .. n : ~Names(m.sections[j], key)
      <4> HIDE DEF k
      <4>1. \A j \in k + 1 .. n : j \in 1 .. n /\ ~(j <= k)
        BY <1>1, <2>3, <3>1
      <4> QED BY <2>3, <3>1, <4>1
    <3>3. Get(doc, key) = Field(m.sections[k])
      <4>1. \A i \in 1 .. n :
              Names(m.sections[i], key) /\ (\A j \in i + 1 .. n : ~Names(m.sections[j], key)) =>
                Get(Merged(FirstBody(m), m.sections), key) = Field(m.sections[i])
        <5> DEFINE sections == m.sections
                   body == FirstBody(m)
        <5>1. Len(sections) \in Nat /\ IsSequence(body)
          BY <1>1, <2>2
        <5> HIDE DEF n, k, sections, body
        <5>2. \A i \in 1 .. Len(sections) :
                Names(sections[i], key) /\ (\A j \in i + 1 .. Len(sections) : ~Names(sections[j], key)) =>
                  Get(Merged(body, sections), key) = Field(sections[i])
          BY <5>1, MergedGets
        <5> QED BY <5>2, Zenon DEF n, sections, body
      <4> HIDE DEF k, n
      <4>2. Get(Merged(FirstBody(m), m.sections), key) = Field(m.sections[k])
        BY <3>2, <4>1, Zenon
      <4> QED BY <2>1, <4>2
    <3> QED BY <1>5, <2>4, <3>3 DEF Kept
  <2>5. CASE Named(m, key) = {}
    <3>1. \A j \in 1 .. n : ~Names(m.sections[j], key)
      BY <2>3, <2>5
    <3>2. Get(doc, key) = Get(FirstBody(m), key)
      BY <1>1, <2>1, <2>2, <3>1, MergedGets
    <3> QED BY <2>5, <3>2 DEF Kept
  <2> QED BY <2>4, <2>5
<1> QED BY <1>3, <1>4, <1>5

\* The sections of a message that decodes are a sequence, and so are its bodies.
LEMMA SectionFacts ==
  ASSUME script \in Scripts, NEW p \in DOMAIN script, script[p].kind = "message",
         NEW m, m = script[p].message, Bodies(m) # {}
  PROVE  /\ Len(m.sections) \in Nat /\ DOMAIN m.sections = 1 .. Len(m.sections)
         /\ Min(Bodies(m)) \in Bodies(m)
<1>1. IsSequence(m.sections)
  BY MessagesAssumption DEF IsSequence
<1>2. Len(m.sections) \in Nat /\ DOMAIN m.sections = 1 .. Len(m.sections)
  BY <1>1, SequenceFacts
<1>3. Bodies(m) \in SUBSET (1 .. Len(m.sections))
  BY <1>2 DEF Bodies
<1>4. Min(Bodies(m)) \in Bodies(m)
  BY <1>2, <1>3, FirstPlace, Zenon
<1> QED BY <1>2, <1>4

\* Of a well-formed message nothing is lost: what is kept is what was sent.
LEMMA KeptAsSent ==
  ASSUME script \in Scripts, NEW p \in DOMAIN script, script[p].kind = "message",
         NEW m, m = script[p].message, Decodes(m), WellFormed(m), Bodies(m) # {}, NEW key
  PROVE  Kept(m, key) = Sent(m, key)
<1>1. /\ Len(m.sections) \in Nat /\ DOMAIN m.sections = 1 .. Len(m.sections)
      /\ Min(Bodies(m)) \in Bodies(m)
  BY SectionFacts
<1> DEFINE b == Min(Bodies(m))
<1>2. /\ b \in DOMAIN m.sections /\ m.sections[b].kind = "body" /\ FirstBody(m) = m.sections[b].doc
      /\ \A i \in DOMAIN m.sections : m.sections[i].kind = "body" => i = b
  BY <1>1 DEF Bodies, FirstBody, WellFormed
<1> HIDE DEF b
<1>3. CASE Named(m, key) # {}
  <2> DEFINE k == Max(Named(m, key))
  <2>1. k \in Named(m, key)
    <3>1. Named(m, key) \in SUBSET (1 .. Len(m.sections))
      BY <1>1 DEF Named
    <3> QED BY <1>1, <1>3, <3>1, LastPlace, Zenon
  <2> HIDE DEF k
  <2>2. /\ k \in DOMAIN m.sections /\ m.sections[k].kind = "sequence" /\ m.sections[k].identifier = key
    BY <2>1 DEF Named
  <2>3. m.opCode = "OP_MSG" /\ Holding(m, key) = {k}
    BY <2>2 DEF WellFormed
  <2>4. Kept(m, key) = Field(m.sections[k])
    BY <1>3, <2>3 DEF Kept, k
  <2>5. (CHOOSE i \in Holding(m, key) : TRUE) = k
    BY <2>3
  <2>6. Sent(m, key) = Field(m.sections[k])
    BY <2>2, <2>3, <2>5 DEF Sent, Field
  <2> QED BY <2>4, <2>6
<1>4. CASE Named(m, key) = {}
  <2>1. Kept(m, key) = Get(m.sections[b].doc, key)
    BY <1>2, <1>4 DEF Kept
  <2>2. Holding(m, key) = IF key \in Keys(m.sections[b].doc) THEN {b} ELSE {}
    BY <1>2, <1>4 DEF Holding, Named
  <2>3. CASE key \in Keys(m.sections[b].doc)
    <3>1. Holding(m, key) = {b} /\ (CHOOSE i \in Holding(m, key) : TRUE) = b
      BY <2>2, <2>3
    <3> QED BY <1>2, <2>1, <3>1 DEF Sent
  <2>4. CASE key \notin Keys(m.sections[b].doc)
    BY <2>1, <2>2, <2>4 DEF Sent, Get
  <2> QED BY <2>3, <2>4
<1> QED BY <1>3, <1>4
-----------------------------------------------------------------------------
(* Fields and integers.                                                      *)
\* What a field is replaced by or added as is a field again.
LEMMA InsertKeepsFields ==
  ASSUME NEW doc, IsSequence(doc), \A i \in DOMAIN doc : FieldOK(doc[i]),
         NEW name, NEW value, FieldOK(F(name, value))
  PROVE  LET new == Insert(doc, name, value) IN \A i \in DOMAIN new : FieldOK(new[i])
<1> DEFINE new == Insert(doc, name, value)
<1>1. Len(doc) \in Nat /\ DOMAIN doc = 1 .. Len(doc)
  BY SequenceFacts
<1>2. CASE name \in Keys(doc)
  <2>1. new = [i \in DOMAIN doc |-> IF doc[i].key = name THEN F(name, value) ELSE doc[i]]
    BY <1>2 DEF Insert
  <2> HIDE DEF new
  <2>2. \A i \in DOMAIN new : i \in DOMAIN doc /\ new[i] \in {F(name, value), doc[i]}
    BY <2>1
  <2> QED BY <2>2 DEF new
<1>3. CASE name \notin Keys(doc)
  <2>1. new = Append(doc, F(name, value))
    BY <1>3 DEF Insert
  <2> DEFINE S == Range(doc) \cup {F(name, value)}
  <2>2. doc \in Seq(S) /\ F(name, value) \in S /\ \A x \in S : FieldOK(x)
    <3>1. doc \in [1 .. Len(doc) -> Range(doc)]
      BY SeqDef DEF IsSequence
    <3>2. doc \in [1 .. Len(doc) -> S]
      BY <3>1
    <3>3. \A x \in Range(doc) : FieldOK(x)
      BY DEF Range
    <3> QED BY <1>1, <3>2, <3>3, SeqDef
  <2> HIDE DEF S, new
  <2>3. new \in Seq(S)
    BY <2>1, <2>2, AppendProperties
  <2>4. \A i \in DOMAIN new : new[i] \in S
    BY <2>3, ElementOfSeq, LenProperties
  <2> QED BY <2>2, <2>4 DEF new
<1> QED BY <1>2, <1>3

\* A sequence's documents make a field: an array of documents.
LEMMA SequenceIsField ==
  ASSUME NEW s
  PROVE  FieldOK(F(s.identifier, Field(s)))
<1> DEFINE f == F(s.identifier, Field(s))
<1>1. f.key = s.identifier /\ f.value = Field(s)
  BY DEF F
<1>2. Typed(Field(s))
  BY DEF Typed, Field, Arr, Is
<1>3. \A i \in DOMAIN Field(s).array : Typed(Field(s).array[i])
  <2>1. \A i \in DOMAIN Field(s).array : Field(s).array[i] = Doc(s.docs[i])
    BY DEF Field, Arr
  <2>2. \A d : Typed(Doc(d))
    BY DEF Typed, Doc, Is
  <2> QED BY <2>1, <2>2
<1> QED BY <1>1, <1>2, <1>3 DEF FieldOK

LEMMA MergedKeepsFields ==
  ASSUME NEW body, IsSequence(body), \A i \in DOMAIN body : FieldOK(body[i]),
         NEW sections, Len(sections) \in Nat
  PROVE  LET doc == Merged(body, sections)
         IN  IsSequence(doc) /\ \A i \in DOMAIN doc : FieldOK(doc[i])
<1>1. PICK f : /\ f[0] = body
               /\ \A n \in 1 .. Len(sections) : f[n] = Merge(f[n - 1], sections[n])
               /\ Merged(body, sections) = f[Len(sections)]
  BY MergedUnfolds
<1> DEFINE Proved == {n \in Nat : n <= Len(sections) =>
                      IsSequence(f[n]) /\ \A i \in DOMAIN f[n] : FieldOK(f[n][i])}
<1>2. 0 \in Proved
  BY <1>1
<1>3. ASSUME NEW n \in Nat, n \in Proved PROVE n + 1 \in Proved
  <2> SUFFICES ASSUME n + 1 <= Len(sections)
               PROVE  IsSequence(f[n + 1]) /\ \A i \in DOMAIN f[n + 1] : FieldOK(f[n + 1][i])
    OBVIOUS
  <2> DEFINE s == sections[n + 1]
  <2>1. /\ IsSequence(f[n]) /\ \A i \in DOMAIN f[n] : FieldOK(f[n][i])
        /\ n + 1 \in 1 .. Len(sections) /\ (n + 1) - 1 = n
    BY <1>3
  <2>2. f[n + 1] = Merge(f[n], s)
    BY <1>1, <2>1
  <2> HIDE DEF s
  <2>3. f[n + 1] = Insert(f[n], s.identifier, Field(s)) \/ f[n + 1] = f[n]
    BY <2>2 DEF Merge, Field
  <2> QED BY <2>1, <2>3, SequenceIsField, InsertGets, InsertKeepsFields
<1>4. Len(sections) \in Proved
  <2> HIDE DEF Proved
  <2> QED BY <1>2, <1>3, Induction
<1> QED BY <1>1, <1>4

LEMMA DocumentFields ==
  ASSUME script \in Scripts, NEW p \in DOMAIN script, script[p].kind = "message",
         NEW m, m = script[p].message, NEW doc \in CommandDocument(m)
  PROVE  IsSequence(doc) /\ \A i \in DOMAIN doc : FieldOK(doc[i])
<1> DEFINE n == Len(m.sections)
<1>1. /\ IsSequence(m.sections) /\ n \in Nat /\ DOMAIN m.sections = 1 .. n
      /\ \A i \in 1 .. n : m.sections[i].kind = "body" =>
           IsSequence(m.sections[i].doc) /\ \A j \in DOMAIN m.sections[i].doc : FieldOK(m.sections[i].doc[j])
  <2>1. /\ IsSequence(m.sections)
        /\ \A i \in DOMAIN m.sections : m.sections[i].kind = "body" =>
             IsSequence(m.sections[i].doc) /\ \A j \in DOMAIN m.sections[i].doc : FieldOK(m.sections[i].doc[j])
    BY MessagesAssumption DEF IsSequence
  <2> QED BY <2>1, SequenceFacts
<1>2. Bodies(m) # {} /\ (doc = FirstBody(m) \/ doc = Merged(FirstBody(m), m.sections))
  BY DEF CommandDocument
<1>3. Bodies(m) \in SUBSET (1 .. n)
  BY <1>1 DEF Bodies
<1>4. Min(Bodies(m)) \in Bodies(m)
  BY <1>1, <1>2, <1>3, FirstPlace, Zenon
<1>5. IsSequence(FirstBody(m)) /\ \A i \in DOMAIN FirstBody(m) : FieldOK(FirstBody(m)[i])
  BY <1>1, <1>3, <1>4 DEF FirstBody, Bodies
<1> QED BY <1>1, <1>2, <1>5, MergedKeepsFields

LEMMA Clamped ==
  ASSUME NEW n \in Int, NEW max \in Nat
  PROVE  /\ Clamp(n, max) \in Int
         /\ InRange(n, max) => Clamp(n, max) = n
<1>1. \A a, b \in Int : Min({a, b}) = IF a <= b THEN a ELSE b
  BY DEF Min
<1>2. \A a, b \in Int : Max({a, b}) = IF a >= b THEN a ELSE b
  BY DEF Max
<1>3. Clamp(n, max) = IF -max - 1 >= (IF n <= max THEN n ELSE max) THEN -max - 1 ELSE (IF n <= max THEN n ELSE max)
  BY <1>1, <1>2 DEF Clamp
<1> QED BY <1>3 DEF InRange

\* What every reader of a field makes of an integer, whatever its type.
LEMMA IntegerRead ==
  ASSUME NEW u, Typed(u), NEW n \in Integer(u)
  PROVE  /\ n \in Int /\ Integer(u) = {n}
         /\ InRange(n, I32MAX) => Number(u) = {n}
         /\ ~InRange(n, I32MAX) => Number(u) \in {{}, {Clamp(n, I32MAX)}}
         /\ CursorId(u) = {Clamp(n, I64MAX)}
         /\ String(u) = {} /\ Filter(u) = {} /\ Documents(u) = {} /\ CursorIds(u) = {}
         /\ ~Is(u, "document") /\ ~Is(u, "array") /\ u # None
<1>1. I32MAX \in Nat /\ I64MAX \in Nat /\ I32MAX < I64MAX
  BY WidthsAssumption
<1>2. \/ Is(u, "int32") /\ u.int32 = n /\ InRange(n, I32MAX)
      \/ Is(u, "int64") /\ u.int64 = n /\ InRange(n, I64MAX)
      \/ Is(u, "double") /\ u.double \in Int /\ u.double % 2 = 0 /\ n = u.double \div 2
  BY DEF Integer, Typed
<1>3. PICK t \in {"int32", "int64", "double"} : Is(u, t)
  BY <1>2
<1>4. /\ \A s : Is(u, s) => s = t
      /\ ~Is(u, "string") /\ ~Is(u, "document") /\ ~Is(u, "array") /\ ~Is(u, "none") /\ ~Is(u, "nan")
  BY <1>3 DEF Typed, Is
<1>5. u # None
  BY <1>4 DEF None, Is
<1>6. String(u) = {} /\ Filter(u) = {} /\ Documents(u) = {} /\ CursorIds(u) = {}
  BY <1>4, <1>5 DEF String, Filter, Documents, CursorIds
<1>7. /\ n \in Int /\ Integer(u) = {n}
      /\ InRange(n, I32MAX) => Number(u) = {n}
      /\ ~InRange(n, I32MAX) => Number(u) \in {{}, {Clamp(n, I32MAX)}}
      /\ CursorId(u) = {Clamp(n, I64MAX)}
  <2>1. CASE t = "int32"
    <3>1. u.int32 = n /\ InRange(n, I32MAX) /\ Is(u, "int32")
      BY <1>2, <1>3, <1>4, <2>1
    <3>2. n \in Int /\ InRange(n, I64MAX)
      BY <1>1, <3>1 DEF InRange
    <3>3. Clamp(n, I64MAX) = n
      BY <1>1, <3>2, Clamped
    <3> QED BY <3>1, <3>2, <3>3 DEF Integer, Number, CursorId
  <2>2. CASE t = "int64"
    <3>1. u.int64 = n /\ InRange(n, I64MAX) /\ Is(u, "int64") /\ ~Is(u, "int32")
      BY <1>2, <1>3, <1>4, <2>2
    <3>2. n \in Int
      BY <1>1, <3>1 DEF InRange
    <3>3. Clamp(n, I64MAX) = n
      BY <1>1, <3>1, <3>2, Clamped
    <3> QED BY <3>1, <3>2, <3>3 DEF Integer, Number, CursorId
  <2>3. CASE t = "double"
    <3>1. /\ Is(u, "double") /\ ~Is(u, "int32") /\ ~Is(u, "int64") /\ ~Is(u, "nan")
          /\ u.double \in Int /\ u.double % 2 = 0 /\ n = u.double \div 2
      BY <1>2, <1>3, <1>4, <2>3
    <3>2. n \in Int /\ u.double = 2 * n
      BY <3>1
    <3>3. \A max : Cast(u, max) = Clamp(n, max)
      <4>1. (IF u.double < 0 THEN -((-u.double) \div 2) ELSE u.double \div 2) = n
        BY <3>2
      <4> QED BY <3>1, <4>1 DEF Cast
    <3>4. InRange(n, I32MAX) => Clamp(n, I32MAX) = n
      BY <1>1, <3>2, Clamped
    <3> QED BY <3>1, <3>2, <3>3, <3>4 DEF Integer, Number, CursorId, IsDouble
  <2> QED BY <2>1, <2>2, <2>3
<1> QED BY <1>4, <1>5, <1>6, <1>7

-----------------------------------------------------------------------------
(* What the parsers take from the document.                                  *)
LEMMA TargetTaken ==
  ASSUME NEW doc, NEW key, NEW t \in Target(doc, key)
  PROVE  t = <<Get(doc, "$db").string, Get(doc, key).string>>
<1>1. \A value : String(value) \subseteq {value.string}
  BY DEF String
<1>2. PICK a \in String(Get(doc, "$db")), b \in String(Get(doc, key)) : t = <<a, b>>
  BY DEF Target
<1> QED BY <1>1, <1>2

\* A value has at most one reading.
LEMMA ReadOnce ==
  ASSUME NEW value
  PROVE  /\ \A x \in Documents(value) : Documents(value) = {x}
         /\ \A x \in Updates(value) : Updates(value) = {x}
         /\ \A x \in Deletes(value) : Deletes(value) = {x}
         /\ \A x \in CursorIds(value) : CursorIds(value) = {x}
         /\ \A x \in Filter(value) : Filter(value) = {x}
<1>1. \E y : Documents(value) \subseteq {y}
  BY DEF Documents
<1>2. PICK y : Documents(value) \subseteq {y}
  BY <1>1
<1>3. \A x \in Updates(value) : Updates(value) = {x}
  BY <1>2, Zenon DEF Updates
<1>4. \A x \in Deletes(value) : Deletes(value) = {x}
  <2> DEFINE Taken(ops) == [i \in DOMAIN ops |-> [q |-> Get(ops[i], "q").document,
                             limit |-> CHOOSE n \in DeleteLimit(Get(ops[i], "limit")) : TRUE]]
             Allowed(d) == \A i \in DOMAIN d :
                          Is(Get(d[i], "q"), "document") /\ DeleteLimit(Get(d[i], "limit")) # {}
  <2>1. Deletes(value) = {Taken(ops) : ops \in {d \in Documents(value) : Allowed(d)}}
    BY DEF Deletes
  <2> HIDE DEF Taken, Allowed
  <2> QED BY <1>2, <2>1
<1>5. \A x \in CursorIds(value) : CursorIds(value) = {x}
  BY DEF CursorIds
<1>6. \A x \in Filter(value) : Filter(value) = {x}
  BY DEF Filter
<1> QED BY <1>2, <1>3, <1>4, <1>5, <1>6

\* The values of a document's fields have one type each, as FieldOK says.
LEMMA GotTyped ==
  ASSUME NEW doc, \A i \in DOMAIN doc : FieldOK(doc[i]), NEW key
  PROVE  /\ Typed(Get(doc, key))
         /\ Is(Get(doc, key), "array") =>
              \A i \in DOMAIN Get(doc, key).array : Typed(Get(doc, key).array[i])
<1>1. CASE key \in Keys(doc)
  <2>1. PICK i \in DOMAIN doc : Get(doc, key) = doc[i].value
    BY <1>1, GetFacts DEF Places
  <2> QED BY <2>1 DEF FieldOK
<1>2. CASE key \notin Keys(doc)
  <2>1. Get(doc, key) = None
    BY <1>2 DEF Get
  <2>2. Typed(None) /\ ~Is(None, "array")
    BY DEF Typed, None, Is
  <2> QED BY <2>1, <2>2
<1> QED BY <1>1, <1>2

\* The items of an array of documents.
LEMMA DocumentsTaken ==
  ASSUME NEW value, NEW x \in Documents(value)
  PROVE  x = Items(value)
BY DEF Documents, Items

LEMMA UpdatesTaken ==
  ASSUME NEW value, NEW x \in Updates(value)
  PROVE  /\ DOMAIN x = DOMAIN Items(value)
         /\ \A i \in DOMAIN Items(value) : UpdateAsSent(x[i], Items(value)[i])
<1>1. PICK ops \in Documents(value) :
        x = [i \in DOMAIN ops |-> [q |-> Get(ops[i], "q").document, u |-> Get(ops[i], "u").document,
                                   upsert |-> Set(Get(ops[i], "upsert")), multi |-> Set(Get(ops[i], "multi"))]]
  BY Zenon DEF Updates
<1>2. ops = Items(value)
  BY DocumentsTaken
<1>3. DOMAIN x = DOMAIN ops /\ \A i \in DOMAIN ops : UpdateAsSent(x[i], ops[i])
  BY <1>1 DEF UpdateAsSent, Set
<1> QED BY <1>2, <1>3

LEMMA DeletesTaken ==
  ASSUME NEW value, NEW x \in Deletes(value)
  PROVE  /\ DOMAIN x = DOMAIN Items(value)
         /\ \A i \in DOMAIN Items(value) : DeleteAsSent(x[i], Items(value)[i])
<1> DEFINE Limit(v) == CHOOSE n \in DeleteLimit(v) : TRUE
<1>1. PICK ops \in Documents(value) :
        /\ \A i \in DOMAIN ops : DeleteLimit(Get(ops[i], "limit")) # {}
        /\ x = [i \in DOMAIN ops |-> [q |-> Get(ops[i], "q").document, limit |-> Limit(Get(ops[i], "limit"))]]
  BY Zenon DEF Deletes
<1>2. ops = Items(value)
  BY DocumentsTaken
<1>3. ASSUME NEW v, DeleteLimit(v) # {}
      PROVE  /\ v = None => Limit(v) = 0
             /\ ~Is(v, "double") => \A n \in Integer(v) : Limit(v) = n
  <2>1. v = None => DeleteLimit(v) = {0}
    BY DEF DeleteLimit, None, Is
  <2>2. ASSUME ~Is(v, "double"), NEW n \in Integer(v) PROVE DeleteLimit(v) = {n}
    <3>1. CASE Is(v, "int32")
      BY <3>1 DEF DeleteLimit, Number, Integer
    <3>2. CASE ~Is(v, "int32")
      <4>1. Is(v, "int64") /\ n = v.int64
        BY <2>2, <3>2 DEF Integer
      <4>2. DeleteLimit(v) \subseteq {n}
        BY <3>2, <4>1 DEF DeleteLimit, Number
      <4> QED BY <1>3, <4>2
    <3> QED BY <3>1, <3>2
  <2> QED BY <2>1, <2>2
<1>4. ASSUME NEW i \in DOMAIN ops PROVE DeleteAsSent(x[i], ops[i])
  <2> DEFINE v == Get(ops[i], "limit")
  <2>1. x[i] = [q |-> Get(ops[i], "q").document, limit |-> Limit(v)]
    BY <1>1
  <2>2. DeleteLimit(v) # {}
    BY <1>1
  <2> HIDE DEF Limit
  <2>3. x[i].q = Get(ops[i], "q").document /\ x[i].limit = Limit(v)
    BY <2>1
  <2>4. /\ v = None => Limit(v) = 0
        /\ ~Is(v, "double") => \A n \in Integer(v) : Limit(v) = n
    BY <1>3, <2>2
  <2> QED BY <2>3, <2>4 DEF DeleteAsSent
<1>5. DOMAIN x = DOMAIN ops
  BY <1>1
<1> QED BY <1>2, <1>4, <1>5

\* A cursor's id, sent as an integer that fits.
LEMMA IdTaken ==
  ASSUME NEW value, Typed(value), NEW n \in Integer(value), InRange(n, I64MAX)
  PROVE  CursorId(value) = {n}
BY IntegerRead, Clamped, WidthsAssumption

LEMMA CursorIdsTaken ==
  ASSUME NEW value, NEW x \in CursorIds(value), \A i \in DOMAIN value.array : Typed(value.array[i])
  PROVE  /\ Is(value, "array") /\ DOMAIN x = DOMAIN value.array
         /\ \A i \in DOMAIN value.array : \A n \in Integer(value.array[i]) : InRange(n, I64MAX) => x[i] = n
<1>1. Is(value, "array") /\ x = [i \in DOMAIN value.array |-> CHOOSE n \in CursorId(value.array[i]) : TRUE]
  BY DEF CursorIds
<1>2. ASSUME NEW i \in DOMAIN value.array, NEW n \in Integer(value.array[i]), InRange(n, I64MAX)
      PROVE  x[i] = n
  <2>1. CursorId(value.array[i]) = {n}
    BY <1>2, IdTaken
  <2> QED BY <1>1, <2>1
<1> QED BY <1>1, <1>2

\* The options of find and getMore: what is left out, and integers.
LEMMA OptionsTaken ==
  ASSUME NEW v, Typed(v)
  PROVE  /\ \A x \in Optional(v) : (v = None => x = <<>>) /\ \A n \in Small(v) : x = <<n>>
         /\ \A x \in Skip(v) : \A n \in Asked(v, 0) : x = n
         /\ \A x \in BatchSize(v) : \A n \in Asked(v, 0) : x = IF n = 0 THEN DEFAULT_BATCH_SIZE ELSE n
         /\ \A x \in GetMoreBatchSize(v) :
              /\ v = None => x = <<>>
              /\ \A n \in Small(v) : x = <<IF n = 0 THEN DEFAULT_BATCH_SIZE ELSE n>>
<1>1. CASE v = None
  <2>1. Small(v) = {}
    BY <1>1 DEF Small, Integer, None, Is
  <2> QED BY <1>1, <2>1 DEF Optional, Skip, BatchSize, GetMoreBatchSize, Asked
<1>2. CASE v # None
  <2>1. \A n \in Small(v) : Number(v) = {n}
    BY IntegerRead DEF Small
  <2>2. Asked(v, 0) = Small(v)
    BY <1>2 DEF Asked
  <2> QED BY <1>2, <2>1, <2>2 DEF Optional, Skip, BatchSize, GetMoreBatchSize, NonZero
<1> QED BY <1>1, <1>2

\* Each parser makes the command of its name, of what the document has for its
\* keys.
LEMMA CommandTaken ==
  ASSUME NEW doc, \A i \in DOMAIN doc : FieldOK(doc[i]), NEW c \in Command(doc),
         NEW m, \A key : Get(doc, key) = Sent(m, key)
  PROVE  AsSent(c, m)
<1>1. \A key : \A t \in Target(doc, key) : t = <<Sent(m, "$db").string, Sent(m, key).string>>
  BY TargetTaken
<1>2. \A key : Typed(Sent(m, key))
  <2>1. ASSUME NEW key PROVE Typed(Get(doc, key))
    BY GotTyped
  <2> QED BY <2>1
<1>3. CASE c \in {[cmd |-> "hello"], [cmd |-> "ping"], [cmd |-> "nothing"], [cmd |-> "notFound", name |-> doc[1].key]}
  BY <1>3 DEF AsSent
<1>4. CASE c \in FindCmd(doc)
  <2>1. PICK t \in Target(doc, "find"), q \in Filter(Sent(m, "filter")), l \in Optional(Sent(m, "limit")),
             s \in Skip(Sent(m, "skip")), b \in BatchSize(Sent(m, "batchSize")) :
          c = [cmd |-> "find", target |-> t, filter |-> q, limit |-> l, skip |-> s, batchSize |-> b]
    <3>1. Get(doc, "filter") = Sent(m, "filter") /\ Get(doc, "limit") = Sent(m, "limit") /\ Get(doc, "skip") = Sent(m, "skip") /\ Get(doc, "batchSize") = Sent(m, "batchSize")
      OBVIOUS
    <3> QED BY <1>4, <3>1 DEF FindCmd
  <2>2. q = IF Sent(m, "filter") = None THEN <<>> ELSE Sent(m, "filter").document
    BY DEF Filter
  <2>3. /\ Sent(m, "limit") = None => l = <<>>
        /\ \A n \in Small(Sent(m, "limit")) : l = <<n>>
    <3>1. Typed(Sent(m, "limit"))
      BY <1>2
    <3> QED BY <3>1, OptionsTaken
  <2>4. \A n \in Asked(Sent(m, "skip"), 0) : s = n
    <3>1. Typed(Sent(m, "skip"))
      BY <1>2
    <3> QED BY <3>1, OptionsTaken
  <2>5. \A n \in Asked(Sent(m, "batchSize"), 0) : b = IF n = 0 THEN DEFAULT_BATCH_SIZE ELSE n
    <3>1. Typed(Sent(m, "batchSize"))
      BY <1>2
    <3> QED BY <3>1, OptionsTaken
  <2>6. FindAsSent(c, m)
    BY <2>1, <2>2, <2>3, <2>4, <2>5 DEF FindAsSent
  <2> QED BY <1>1, <2>1, <2>6 DEF AsSent
<1>5. CASE c \in GetMoreCmd(doc)
  <2>1. PICK t \in Target(doc, "collection"), id \in CursorId(Sent(m, "getMore")),
             b \in GetMoreBatchSize(Sent(m, "batchSize")) :
          c = [cmd |-> "getMore", target |-> t, id |-> id, batchSize |-> b]
    <3>1. Get(doc, "getMore") = Sent(m, "getMore") /\ Get(doc, "batchSize") = Sent(m, "batchSize")
      OBVIOUS
    <3> QED BY <1>5, <3>1 DEF GetMoreCmd
  <2>2. \A n \in Integer(Sent(m, "getMore")) : InRange(n, I64MAX) => id = n
    <3>1. Typed(Sent(m, "getMore"))
      BY <1>2
    <3> QED BY <3>1, IdTaken
  <2>3. /\ Sent(m, "batchSize") = None => b = <<>>
        /\ \A n \in Small(Sent(m, "batchSize")) : b = <<IF n = 0 THEN DEFAULT_BATCH_SIZE ELSE n>>
    <3>1. Typed(Sent(m, "batchSize"))
      BY <1>2
    <3> QED BY <3>1, OptionsTaken
  <2>4. GetMoreAsSent(c, m)
    BY <2>1, <2>2, <2>3 DEF GetMoreAsSent
  <2> QED BY <1>1, <2>1, <2>4 DEF AsSent
<1>6. CASE c \in KillCursorsCmd(doc)
  <2>1. PICK t \in Target(doc, "killCursors"), ids \in CursorIds(Sent(m, "cursors")) :
          c = [cmd |-> "killCursors", target |-> t, ids |-> ids]
    <3>1. Get(doc, "cursors") = Sent(m, "cursors")
      OBVIOUS
    <3> QED BY <1>6, <3>1 DEF KillCursorsCmd
  <2> DEFINE sent == Sent(m, "cursors").array
  <2>2. /\ DOMAIN ids = DOMAIN sent
        /\ \A i \in DOMAIN sent : \A n \in Integer(sent[i]) : InRange(n, I64MAX) => ids[i] = n
    <3>1. Is(Sent(m, "cursors"), "array")
      BY DEF CursorIds
    <3>2. Get(doc, "cursors") = Sent(m, "cursors")
      OBVIOUS
    <3>3. \A i \in DOMAIN sent : Typed(sent[i])
      BY <3>1, <3>2, GotTyped
    <3> QED BY <3>3, CursorIdsTaken
  <2> HIDE DEF sent
  <2>3. c.cmd = "killCursors" /\ c.ids = ids /\ c.target = t
    BY <2>1
  <2> QED BY <1>1, <2>2, <2>3 DEF AsSent, sent
<1>7. CASE c \in InsertCmd(doc)
  <2>1. PICK t \in Target(doc, "insert"), d \in Documents(Sent(m, "documents")) :
          c = [cmd |-> "insert", target |-> t, documents |-> d]
    <3>1. Get(doc, "documents") = Sent(m, "documents")
      OBVIOUS
    <3> QED BY <1>7, <3>1 DEF InsertCmd
  <2>2. d = Items(Sent(m, "documents"))
    BY DocumentsTaken
  <2> QED BY <1>1, <2>1, <2>2 DEF AsSent
<1>8. CASE c \in UpdateCmd(doc)
  <2>1. PICK t \in Target(doc, "update"), u \in Updates(Sent(m, "updates")) :
          c = [cmd |-> "update", target |-> t, updates |-> u]
    <3>1. Get(doc, "updates") = Sent(m, "updates")
      OBVIOUS
    <3> QED BY <1>8, <3>1 DEF UpdateCmd
  <2> DEFINE sent == Items(Sent(m, "updates"))
  <2>2. DOMAIN u = DOMAIN sent /\ \A i \in DOMAIN sent : UpdateAsSent(u[i], sent[i])
    BY UpdatesTaken
  <2> HIDE DEF sent
  <2>3. c.cmd = "update" /\ c.updates = u /\ c.target = t
    BY <2>1
  <2> QED BY <1>1, <2>2, <2>3 DEF AsSent, sent
<1>9. CASE c \in DeleteCmd(doc)
  <2>1. PICK t \in Target(doc, "delete"), d \in Deletes(Sent(m, "deletes")) :
          c = [cmd |-> "delete", target |-> t, deletes |-> d]
    <3>1. Get(doc, "deletes") = Sent(m, "deletes")
      OBVIOUS
    <3> QED BY <1>9, <3>1 DEF DeleteCmd
  <2> DEFINE sent == Items(Sent(m, "deletes"))
  <2>2. DOMAIN d = DOMAIN sent /\ \A i \in DOMAIN sent : DeleteAsSent(d[i], sent[i])
    BY DeletesTaken
  <2> HIDE DEF sent
  <2>3. c.cmd = "delete" /\ c.deletes = d /\ c.target = t
    BY <2>1
  <2> QED BY <1>1, <2>2, <2>3 DEF AsSent, sent
<1>10. \/ c \in {[cmd |-> "hello"], [cmd |-> "ping"], [cmd |-> "nothing"], [cmd |-> "notFound", name |-> doc[1].key]}
       \/ c \in FindCmd(doc) \/ c \in GetMoreCmd(doc) \/ c \in KillCursorsCmd(doc)
       \/ c \in InsertCmd(doc) \/ c \in UpdateCmd(doc) \/ c \in DeleteCmd(doc)
  BY DEF Command, WriteCommand
<1> QED BY <1>3, <1>4, <1>5, <1>6, <1>7, <1>8, <1>9, <1>10

\* Of a well-formed message a write runs with every document, update and delete
\* that was sent for it, in a field or in a sequence wherever it stands, and any
\* command with the collection, filter, cursors and options sent: for any
\* messages, and without the parsers of the model on the side of what was sent.
THEOREM ExecutedAsSent == Spec => []CommandAsSent
<1>1. IInv => CommandAsSent
  <2> SUFFICES ASSUME IInv, NEW i \in DOMAIN executed, WellFormed(script[executed[i].msg].message)
               PROVE  AsSent(executed[i].command, script[executed[i].msg].message)
    BY DEF CommandAsSent
  <2> DEFINE c == executed[i].command
             p == executed[i].msg
             m == script[p].message
  <2>1. p \in DOMAIN script /\ script[p].kind = "message" /\ c \in Commands(m) /\ script \in Scripts
    <3>1. script \in Scripts /\ executed \in Seq(ExecutedType) /\ RequestsInOrder
      BY DEF IInv, Flow, History
    <3>2. p = i + 1 /\ script[i + 1].kind = "message" /\ c \in Commands(script[i + 1].message)
      BY <3>1 DEF RequestsInOrder
    <3>3. p \in 2 .. Len(script)
      <4>1. executed[i] \in ExecutedType
        BY <3>1, ElementOfSeq, LenProperties
      <4> QED BY <4>1 DEF ExecutedType
    <3> QED BY <3>1, <3>2, <3>3, ScriptFacts
  <2>2. Decodes(m)
    BY <2>1 DEF Commands
  <2> HIDE DEF c, p
  <2>3. CASE CommandDocument(m) = {}
    <3>1. c = [cmd |-> "nothing"]
      BY <2>1, <2>3 DEF Commands
    <3> QED BY <3>1 DEF AsSent, c, p
  <2>4. CASE CommandDocument(m) # {}
    <3>1. PICK doc \in CommandDocument(m) : c \in Command(doc)
      BY <2>1, <2>4 DEF Commands
    <3>2. Bodies(m) # {}
      BY <2>4 DEF CommandDocument
    <3>3. ASSUME NEW key PROVE Get(doc, key) = Sent(m, key)
      <4>1. Get(doc, key) = Kept(m, key)
        BY <2>1, <2>2, <3>1, DocumentKeeps
      <4>2. Kept(m, key) = Sent(m, key)
        BY <2>1, <2>2, <3>2, KeptAsSent DEF p
      <4> QED BY <4>1, <4>2
    <3>4. \A j \in DOMAIN doc : FieldOK(doc[j])
      BY <2>1, <3>1, DocumentFields
    <3> HIDE DEF m
    <3>5. AsSent(c, m)
      BY <3>1, <3>3, <3>4, CommandTaken
    <3> QED BY <3>5 DEF c, p, m
  <2> QED BY <2>3, <2>4
<1> QED BY <1>1, Invariance, PTL
-----------------------------------------------------------------------------
(* Numbers in other types.                                                   *)
OutOfRange(v) == \E n \in Integer(v) : ~InRange(n, I32MAX)

\* The result of a reader for a value and for another spelling of it: the same,
\* or an error of the other one alone.
SameOr(a, b, error) == a # {} => b = a \/ (b = {} /\ error)

Alike(w, v) ==
  /\ w # None /\ v # None
  /\ String(w) = String(v) /\ Filter(w) = Filter(v) /\ Documents(w) = Documents(v)
  /\ CursorIds(w) = CursorIds(v) /\ CursorId(w) = CursorId(v)
  /\ SameOr(Number(w), Number(v), OutOfRange(v))

LEMMA SpellingRead ==
  ASSUME NEW n \in Int, NEW v \in Spellings(n)
  PROVE  Typed(v) /\ n \in Integer(v)
<1>1. \/ v = Int32(n) /\ InRange(n, I32MAX)
      \/ v = Int64(n) /\ InRange(n, I64MAX)
      \/ v = Double(2 * n)
  BY DEF Spellings
<1>2. CASE v = Int32(n) /\ InRange(n, I32MAX)
  BY <1>2 DEF Int32, Typed, Is, Integer
<1>3. CASE v = Int64(n) /\ InRange(n, I64MAX)
  BY <1>3 DEF Int64, Typed, Is, Integer
<1>4. CASE v = Double(2 * n)
  <2>1. 2 * n \in Int /\ (2 * n) % 2 = 0 /\ (2 * n) \div 2 = n
    OBVIOUS
  <2> QED BY <1>4, <2>1 DEF Double, Typed, Is, Integer
<1> QED BY <1>1, <1>2, <1>3, <1>4

\* An integer in another type.
LEMMA IntegersAlike ==
  ASSUME NEW w, Typed(w), NEW n \in Integer(w), NEW v \in Spellings(n)
  PROVE  Alike(w, v)
<1>1. n \in Int
  BY IntegerRead
<1>2. Typed(v) /\ n \in Integer(v)
  BY <1>1, SpellingRead
<1>3. SameOr(Number(w), Number(v), OutOfRange(v))
  <2>1. CASE InRange(n, I32MAX)
    <3>1. Number(w) = {n} /\ Number(v) = {n}
      BY <1>2, <2>1, IntegerRead
    <3> QED BY <3>1 DEF SameOr
  <2>2. CASE ~InRange(n, I32MAX)
    <3>1. /\ Number(w) \in {{}, {Clamp(n, I32MAX)}} /\ Number(v) \in {{}, {Clamp(n, I32MAX)}}
          /\ OutOfRange(v)
      BY <1>2, <2>2, IntegerRead DEF OutOfRange
    <3> QED BY <3>1 DEF SameOr
  <2> QED BY <2>1, <2>2
<1>4. /\ CursorId(w) = CursorId(v) /\ String(w) = String(v) /\ Filter(w) = Filter(v)
      /\ Documents(w) = Documents(v) /\ CursorIds(w) = CursorIds(v) /\ w # None /\ v # None
  BY <1>2, IntegerRead
<1> QED BY <1>3, <1>4 DEF Alike

\* An array with one of its integers in another type.
LEMMA ArraysAlike ==
  ASSUME NEW w, Typed(w), Is(w, "array"), \A i \in DOMAIN w.array : Typed(w.array[i]),
         NEW i \in DOMAIN w.array, NEW n \in Integer(w.array[i]), NEW u \in Spellings(n),
         NEW v, v = Arr([w.array EXCEPT ![i] = u])
  PROVE  Alike(w, v)
<1> DEFINE a == w.array
           b == [a EXCEPT ![i] = u]
<1>1. Is(v, "array") /\ v.array = b /\ \A t : Is(v, t) => t = "array"
  BY DEF Arr, Is
<1>2. \A t : Is(w, t) => t = "array"
  BY DEF Typed, Is
<1>3. DOMAIN b = DOMAIN a /\ b[i] = u /\ \A j \in DOMAIN a : j # i => b[j] = a[j]
  OBVIOUS
<1>4. n \in Int /\ Typed(u) /\ n \in Integer(u)
  BY IntegerRead, SpellingRead
<1>5. Alike(a[i], u)
  BY IntegersAlike
<1>6. ~Is(a[i], "document") /\ ~Is(u, "document")
  BY <1>4, IntegerRead
<1>7. w # None /\ v # None
  BY <1>1, <1>2 DEF None, Is
<1> HIDE DEF a, b
<1>8. Documents(w) = {} /\ Documents(v) = {}
  BY <1>1, <1>3, <1>6 DEF Documents, a
<1>9. CursorIds(w) = CursorIds(v)
  <2>1. \A j \in DOMAIN a : CursorId(a[j]) = CursorId(b[j])
    BY <1>3, <1>5 DEF Alike
  <2> DEFINE ids(s) == [j \in DOMAIN s |-> CHOOSE x \in CursorId(s[j]) : TRUE]
  <2>2. ids(a) = ids(b)
    BY <1>3, <2>1
  <2>3. (\A j \in DOMAIN a : CursorId(a[j]) # {}) <=> (\A j \in DOMAIN b : CursorId(b[j]) # {})
    BY <1>3, <2>1
  <2>4. CursorIds(w) = IF \A j \in DOMAIN a : CursorId(a[j]) # {} THEN {ids(a)} ELSE {}
    BY DEF CursorIds, a
  <2>5. CursorIds(v) = IF \A j \in DOMAIN b : CursorId(b[j]) # {} THEN {ids(b)} ELSE {}
    <3>1. CursorIds(v) = IF \A j \in DOMAIN v.array : CursorId(v.array[j]) # {} THEN {ids(v.array)} ELSE {}
      BY <1>1 DEF CursorIds
    <3> HIDE DEF ids
    <3> QED BY <1>1, <3>1
  <2> HIDE DEF ids
  <2> QED BY <2>2, <2>3, <2>4, <2>5
<1>10. /\ String(w) = {} /\ String(v) = {} /\ Filter(w) = {} /\ Filter(v) = {}
       /\ CursorId(w) = {} /\ CursorId(v) = {} /\ Number(w) = {}
  BY <1>1, <1>2, <1>7 DEF String, Filter, CursorId, Number, IsDouble
<1> QED BY <1>7, <1>8, <1>9, <1>10 DEF Alike, SameOr

LEMMA RespelledAlike ==
  ASSUME NEW f, FieldOK(f), NEW v \in Respelled(f.value)
  PROVE  Alike(f.value, v)
<1> DEFINE w == f.value
<1>1. Typed(w) /\ (Is(w, "array") => \A i \in DOMAIN w.array : Typed(w.array[i]))
  BY DEF FieldOK
<1>2. CASE \E n \in Integer(w) : v \in Spellings(n)
  BY <1>1, <1>2, IntegersAlike
<1>3. CASE /\ Is(w, "array")
           /\ \E i \in DOMAIN w.array : \E n \in Integer(w.array[i]) : \E u \in Spellings(n) :
                v = Arr([w.array EXCEPT ![i] = u])
  BY <1>1, <1>3, ArraysAlike
<1>4. v \in RespelledNumber(w) => \E n \in Integer(w) : v \in Spellings(n)
  BY DEF RespelledNumber
<1>5. ASSUME NEW i \in DOMAIN w.array, v \in RespelledItem(w.array, i)
      PROVE  \E n \in Integer(w.array[i]) : \E u \in Spellings(n) : v = Arr([w.array EXCEPT ![i] = u])
  <2>1. PICK u \in RespelledNumber(w.array[i]) : v = Arr([w.array EXCEPT ![i] = u])
    BY <1>5 DEF RespelledItem
  <2>2. PICK n \in Integer(w.array[i]) : u \in Spellings(n)
    BY DEF RespelledNumber
  <2> QED BY <2>1, <2>2
<1>6. v \in RespelledNumber(w) \/ (Is(w, "array") /\ \E i \in DOMAIN w.array : v \in RespelledItem(w.array, i))
  BY DEF Respelled
<1> QED BY <1>2, <1>3, <1>4, <1>5, <1>6

\* A document with another value in the place of one, read by key.
LEMMA ReplacedGets ==
  ASSUME NEW doc, IsSequence(doc), \A j \in DOMAIN doc : FieldOK(doc[j]),
         NEW i \in DOMAIN doc, NEW v, NEW new, DOMAIN new = DOMAIN doc,
         \A j \in DOMAIN doc : j # i => new[j] = doc[j], new[i].key = doc[i].key, new[i].value = v
  PROVE  /\ Keys(new) = Keys(doc) /\ doc # <<>> /\ new # <<>> /\ new[1].key = doc[1].key
         /\ \A key : \/ Get(new, key) = Get(doc, key)
                     \/ Get(doc, key) = doc[i].value /\ Get(new, key) = v
<1>1. Len(doc) \in Nat /\ DOMAIN doc = 1 .. Len(doc) /\ 1 \in DOMAIN doc
  BY SequenceFacts
<1>2. \A j \in DOMAIN doc : new[j].key = doc[j].key
  OBVIOUS
<1>3. Keys(new) = Keys(doc) /\ \A key : Places(new, key) = Places(doc, key)
  BY <1>2 DEF Keys, Places
<1>4. doc # <<>> /\ new # <<>>
  BY <1>1
<1>5. ASSUME NEW key
      PROVE  \/ Get(new, key) = Get(doc, key)
             \/ Get(doc, key) = doc[i].value /\ Get(new, key) = v
  <2>1. CASE key \in Keys(doc)
    <3> DEFINE j == CHOOSE k \in Places(doc, key) : TRUE
    <3>1. j \in DOMAIN doc
      BY <2>1, GetFacts DEF Places
    <3>2. Places(new, key) = Places(doc, key) /\ key \in Keys(new)
      BY <1>3, <2>1
    <3>3. Get(doc, key) = doc[j].value /\ Get(new, key) = new[j].value
      BY <2>1, <3>2 DEF Get
    <3> HIDE DEF j
    <3> QED BY <3>1, <3>3
  <2> QED BY <1>3, <2>1 DEF Get
<1> QED BY <1>1, <1>2, <1>3, <1>4, <1>5

\* Readers of numbers.
LEMMA OptionsAlike ==
  ASSUME NEW w, NEW v, Alike(w, v)
  PROVE  /\ SameOr(Optional(w), Optional(v), OutOfRange(v))
         /\ SameOr(Skip(w), Skip(v), OutOfRange(v))
         /\ SameOr(BatchSize(w), BatchSize(v), OutOfRange(v))
         /\ SameOr(GetMoreBatchSize(w), GetMoreBatchSize(v), OutOfRange(v))
<1>1. w # None /\ v # None /\ SameOr(Number(w), Number(v), OutOfRange(v))
  BY DEF Alike
<1>2. SameOr(Optional(w), Optional(v), OutOfRange(v))
  BY <1>1 DEF SameOr, Optional
<1>3. SameOr(Skip(w), Skip(v), OutOfRange(v))
  BY <1>1 DEF SameOr, Skip
<1>4. SameOr(BatchSize(w), BatchSize(v), OutOfRange(v))
  BY <1>1 DEF SameOr, BatchSize
<1>5. SameOr(GetMoreBatchSize(w), GetMoreBatchSize(v), OutOfRange(v))
  BY <1>1 DEF SameOr, GetMoreBatchSize
<1> QED BY <1>2, <1>3, <1>4, <1>5

\* The parsers, as products of what their fields give.
FindOf(T, Q, L, S, B) ==
  {[cmd |-> "find", target |-> t, filter |-> f, limit |-> l, skip |-> s, batchSize |-> b] :
     t \in T, f \in Q, l \in L, s \in S, b \in B}
GetMoreOf(T, N, B) ==
  {[cmd |-> "getMore", target |-> t, id |-> n, batchSize |-> b] : t \in T, n \in N, b \in B}

\* A product is empty when a factor is.
LEMMA FindsAlike ==
  ASSUME NEW T, NEW Q, NEW L, NEW S, NEW B, NEW L2, NEW S2, NEW B2, NEW error \in BOOLEAN,
         SameOr(L, L2, error), SameOr(S, S2, error), SameOr(B, B2, error)
  PROVE  SameOr(FindOf(T, Q, L, S, B), FindOf(T, Q, L2, S2, B2), error)
<1>1. FindOf(T, Q, L, S, B) # {} => L # {} /\ S # {} /\ B # {}
  BY DEF FindOf
<1>2. L2 = {} \/ S2 = {} \/ B2 = {} => FindOf(T, Q, L2, S2, B2) = {}
  BY DEF FindOf
<1> QED BY <1>1, <1>2 DEF SameOr

LEMMA GetMoresAlike ==
  ASSUME NEW T, NEW N, NEW B, NEW B2, NEW error \in BOOLEAN, SameOr(B, B2, error)
  PROVE  SameOr(GetMoreOf(T, N, B), GetMoreOf(T, N, B2), error)
<1>1. (GetMoreOf(T, N, B) # {} => B # {}) /\ (B2 = {} => GetMoreOf(T, N, B2) = {})
  BY DEF GetMoreOf
<1> QED BY <1>1 DEF SameOr

\* The command of a document with a number in another type.
LEMMA CommandsAlike ==
  ASSUME NEW doc, NEW new, NEW v, Keys(new) = Keys(doc), doc # <<>>, new # <<>>, new[1].key = doc[1].key,
         \A key : Get(new, key) = Get(doc, key) \/ (Get(new, key) = v /\ Alike(Get(doc, key), v))
  PROVE  SameOr(Command(doc), Command(new), OutOfRange(v))
<1> DEFINE out == OutOfRange(v)
<1>1. \A key : /\ String(Get(new, key)) = String(Get(doc, key)) /\ Filter(Get(new, key)) = Filter(Get(doc, key))
              /\ Documents(Get(new, key)) = Documents(Get(doc, key))
              /\ CursorIds(Get(new, key)) = CursorIds(Get(doc, key)) /\ CursorId(Get(new, key)) = CursorId(Get(doc, key))
  BY DEF Alike
<1>2. \A key : /\ SameOr(Optional(Get(doc, key)), Optional(Get(new, key)), out)
              /\ SameOr(Skip(Get(doc, key)), Skip(Get(new, key)), out)
              /\ SameOr(BatchSize(Get(doc, key)), BatchSize(Get(new, key)), out)
              /\ SameOr(GetMoreBatchSize(Get(doc, key)), GetMoreBatchSize(Get(new, key)), out)
  BY OptionsAlike DEF SameOr
<1>3. \A key : Target(new, key) = Target(doc, key)
  BY <1>1 DEF Target
<1>4. SameOr(FindCmd(doc), FindCmd(new), out)
  <2>1. \A d : FindCmd(d) = FindOf(Target(d, "find"), Filter(Get(d, "filter")), Optional(Get(d, "limit")),
                                  Skip(Get(d, "skip")), BatchSize(Get(d, "batchSize")))
    BY DEF FindCmd, FindOf
  <2>2. out \in BOOLEAN
    BY DEF OutOfRange
  <2> HIDE DEF out
  <2> QED BY <1>1, <1>2, <1>3, <2>1, <2>2, FindsAlike
<1>5. SameOr(GetMoreCmd(doc), GetMoreCmd(new), out)
  <2>1. \A d : GetMoreCmd(d) = GetMoreOf(Target(d, "collection"), CursorId(Get(d, "getMore")),
                                        GetMoreBatchSize(Get(d, "batchSize")))
    BY DEF GetMoreCmd, GetMoreOf
  <2>2. out \in BOOLEAN
    BY DEF OutOfRange
  <2> HIDE DEF out
  <2> QED BY <1>1, <1>2, <1>3, <2>1, <2>2, GetMoresAlike
<1>6. KillCursorsCmd(new) = KillCursorsCmd(doc)
  BY <1>1, <1>3 DEF KillCursorsCmd
<1>7. WriteCommand(new) = WriteCommand(doc)
  <2>1. InsertCmd(new) = InsertCmd(doc)
    BY <1>1, <1>3 DEF InsertCmd
  <2>2. UpdateCmd(new) = UpdateCmd(doc)
    BY <1>1, <1>3 DEF UpdateCmd, Updates
  <2>3. DeleteCmd(new) = DeleteCmd(doc)
    <3>1. \A a, b : Documents(a) = Documents(b) => Deletes(a) = Deletes(b)
      BY Zenon DEF Deletes
    <3> QED BY <1>1, <1>3, <3>1 DEF DeleteCmd
  <2> QED BY <2>1, <2>2, <2>3 DEF WriteCommand
<1> HIDE DEF out
<1>8. SameOr(Command(doc), Command(new), out)
  <2>1. \A a : SameOr(a, a, out)
    BY DEF SameOr
  <2> QED BY <1>4, <1>5, <1>6, <1>7, <2>1 DEF Command
<1> QED BY <1>8 DEF out
\* A document is one command at most.
LEMMA CommandOnce ==
  ASSUME NEW doc, NEW c \in Command(doc)
  PROVE  Command(doc) = {c}
<1>1. ASSUME NEW key PROVE \E t : Target(doc, key) \subseteq {t}
  <2>1. Target(doc, key) \subseteq {<<Get(doc, "$db").string, Get(doc, key).string>>}
    BY TargetTaken
  <2> QED BY <2>1
<1>2. \A value : \E n : Number(value) \subseteq {n}
  BY DEF Number
<1>3. \A value : /\ \E n : Optional(value) \subseteq {n}
                 /\ \E n : Skip(value) \subseteq {n}
                 /\ \E n : BatchSize(value) \subseteq {n}
                 /\ \E n : GetMoreBatchSize(value) \subseteq {n}
  <2> SUFFICES ASSUME NEW value
               PROVE  /\ \E n : Optional(value) \subseteq {n}
                      /\ \E n : Skip(value) \subseteq {n}
                      /\ \E n : BatchSize(value) \subseteq {n}
                      /\ \E n : GetMoreBatchSize(value) \subseteq {n}
    OBVIOUS
  <2>1. PICK n : Number(value) \subseteq {n}
    BY <1>2
  <2>2. Optional(value) \subseteq {<<>>} \/ Optional(value) \subseteq {<<n>>}
    BY <2>1 DEF Optional
  <2>3. Skip(value) \subseteq {0} \/ Skip(value) \subseteq {n}
    BY <2>1 DEF Skip
  <2>4. BatchSize(value) \subseteq {DEFAULT_BATCH_SIZE} \/ BatchSize(value) \subseteq {NonZero(n)}
    BY <2>1 DEF BatchSize
  <2>5. GetMoreBatchSize(value) \subseteq {<<>>} \/ GetMoreBatchSize(value) \subseteq {<<NonZero(n)>>}
    BY <2>1 DEF GetMoreBatchSize
  <2> QED BY <2>2, <2>3, <2>4, <2>5
<1>4. ASSUME c \in FindCmd(doc) PROVE FindCmd(doc) = {c}
  <2>1. PICK t, q, l, n, b : /\ Target(doc, "find") \subseteq {t} /\ Filter(Get(doc, "filter")) \subseteq {q}
                             /\ Optional(Get(doc, "limit")) \subseteq {l} /\ Skip(Get(doc, "skip")) \subseteq {n}
                             /\ BatchSize(Get(doc, "batchSize")) \subseteq {b}
    <3>1. PICK q : Filter(Get(doc, "filter")) \subseteq {q}
      BY DEF Filter
    <3>2. PICK t : Target(doc, "find") \subseteq {t}
      BY <1>1
    <3>3. PICK l : Optional(Get(doc, "limit")) \subseteq {l}
      BY <1>3
    <3>4. PICK n : Skip(Get(doc, "skip")) \subseteq {n}
      BY <1>3
    <3>5. PICK b : BatchSize(Get(doc, "batchSize")) \subseteq {b}
      BY <1>3
    <3> QED BY <3>1, <3>2, <3>3, <3>4, <3>5
  <2>2. FindCmd(doc) \subseteq {[cmd |-> "find", target |-> t, filter |-> q, limit |-> l, skip |-> n, batchSize |-> b]}
    BY <2>1 DEF FindCmd
  <2> QED BY <1>4, <2>2
<1>5. ASSUME c \in GetMoreCmd(doc) PROVE GetMoreCmd(doc) = {c}
  <2>1. PICK t, n, b : /\ Target(doc, "collection") \subseteq {t} /\ CursorId(Get(doc, "getMore")) \subseteq {n}
                       /\ GetMoreBatchSize(Get(doc, "batchSize")) \subseteq {b}
    <3>1. \E n : CursorId(Get(doc, "getMore")) \subseteq {n}
      BY DEF CursorId
    <3> QED BY <1>1, <1>3, <3>1
  <2>2. GetMoreCmd(doc) \subseteq {[cmd |-> "getMore", target |-> t, id |-> n, batchSize |-> b]}
    BY <2>1 DEF GetMoreCmd
  <2> QED BY <1>5, <2>2
<1>6. ASSUME c \in KillCursorsCmd(doc) PROVE KillCursorsCmd(doc) = {c}
  <2>1. PICK t, x : Target(doc, "killCursors") \subseteq {t} /\ CursorIds(Get(doc, "cursors")) \subseteq {x}
    <3>1. \E x : CursorIds(Get(doc, "cursors")) \subseteq {x}
      BY ReadOnce
    <3> QED BY <1>1, <3>1
  <2> QED BY <1>6, <2>1 DEF KillCursorsCmd
<1>7. ASSUME c \in WriteCommand(doc) PROVE WriteCommand(doc) = {c}
  <2>1. \E x : InsertCmd(doc) \subseteq {x}
    <3>1. PICK t, x : Target(doc, "insert") \subseteq {t} /\ Documents(Get(doc, "documents")) \subseteq {x}
      BY <1>1, ReadOnce
    <3> QED BY <3>1 DEF InsertCmd
  <2>2. \E x : UpdateCmd(doc) \subseteq {x}
    <3>1. PICK t, x : Target(doc, "update") \subseteq {t} /\ Updates(Get(doc, "updates")) \subseteq {x}
      BY <1>1, ReadOnce
    <3> QED BY <3>1 DEF UpdateCmd
  <2>3. \E x : DeleteCmd(doc) \subseteq {x}
    <3>1. PICK t, x : Target(doc, "delete") \subseteq {t} /\ Deletes(Get(doc, "deletes")) \subseteq {x}
      BY <1>1, ReadOnce
    <3> QED BY <3>1 DEF DeleteCmd
  <2> QED BY <1>7, <2>1, <2>2, <2>3 DEF WriteCommand
<1> QED BY <1>4, <1>5, <1>6, <1>7 DEF Command

\* A number sent in another of the types that hold it makes the same command, or,
\* when it is no 32-bit integer, none at all: for any documents and widths.
THEOREM NumbersKept == Spec => []NumbersKeepMeaning
<1>1. IInv => NumbersKeepMeaning
  <2> SUFFICES ASSUME IInv, executed # <<>>,
                      NEW e, e = Last(executed),
                      NEW doc \in CommandDocument(script[e.msg].message), NEW i \in DOMAIN doc,
                      NEW v \in Respelled(doc[i].value)
               PROVE  Command([doc EXCEPT ![i].value = v]) \in
                        {{e.command}} \cup (IF \A n \in Integer(v) : InRange(n, I32MAX) THEN {} ELSE {{}})
    BY DEF NumbersKeepMeaning
  <2> DEFINE m == script[e.msg].message
             new == [doc EXCEPT ![i].value = v]
  <2>1. script \in Scripts /\ executed \in Seq(ExecutedType) /\ RequestsInOrder
    BY DEF IInv, Flow, History
  <2>2. e.msg \in DOMAIN script /\ script[e.msg].kind = "message" /\ e.command \in Commands(m)
    <3>1. Len(executed) \in DOMAIN executed /\ e = executed[Len(executed)]
      BY <2>1, LenProperties, EmptySeq DEF Last
    <3>2. e \in ExecutedType
      BY <2>1, <3>1, ElementOfSeq, LenProperties
    <3>3. e.msg \in 2 .. Len(script)
      BY <3>2 DEF ExecutedType
    <3>4. /\ e.msg = Len(executed) + 1 /\ script[Len(executed) + 1].kind = "message"
          /\ e.command \in Commands(script[Len(executed) + 1].message)
      BY <2>1, <3>1 DEF RequestsInOrder
    <3> QED BY <2>1, <3>3, <3>4, ScriptFacts
  <2>3. e.command \in Command(doc)
    <3>1. \A d \in CommandDocument(m) : d = doc
      BY DEF CommandDocument
    <3> QED BY <2>2, <3>1 DEF Commands
  <2>4. IsSequence(doc) /\ \A j \in DOMAIN doc : FieldOK(doc[j])
    BY <2>1, <2>2, DocumentFields
  <2>5. Alike(doc[i].value, v)
    BY <2>4, RespelledAlike
  <2> HIDE DEF m
  <2>6. /\ Keys(new) = Keys(doc) /\ doc # <<>> /\ new # <<>> /\ new[1].key = doc[1].key
        /\ \A key : \/ Get(new, key) = Get(doc, key)
                    \/ Get(doc, key) = doc[i].value /\ Get(new, key) = v
    <3>1. DOMAIN new = DOMAIN doc
      OBVIOUS
    <3>2. \A j \in DOMAIN doc : j # i => new[j] = doc[j]
      OBVIOUS
    <3>3. new[i].key = doc[i].key /\ new[i].value = v
      <4>1. doc[i] = F(doc[i].key, doc[i].value)
        BY <2>4 DEF FieldOK
      <4>2. DOMAIN doc[i] = {"key", "value"}
        BY <4>1 DEF F
      <4>3. new[i] = [doc[i] EXCEPT !.value = v]
        OBVIOUS
      <4> QED BY <4>2, <4>3
    <3>4. new[i].key = doc[i].key
      BY <3>3
    <3>5. new[i].value = v
      BY <3>3
    <3> HIDE DEF new
    <3> QED BY <2>4, <3>1, <3>2, <3>4, <3>5, ReplacedGets
  <2> HIDE DEF new
  <2>7. SameOr(Command(doc), Command(new), OutOfRange(v))
    BY <2>5, <2>6, CommandsAlike
  <2>8. Command(doc) = {e.command}
    BY <2>3, CommandOnce
  <2>9. Command(new) = {e.command} \/ (Command(new) = {} /\ OutOfRange(v))
    BY <2>7, <2>8 DEF SameOr
  <2> QED BY <2>9 DEF OutOfRange, new
<1> QED BY <1>1, Invariance, PTL
=============================================================================
