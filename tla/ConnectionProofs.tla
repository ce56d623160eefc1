-------------------------- MODULE ConnectionProofs --------------------------
(* Proofs, for any scripts, message sizes, limits and cuts of the stream, of the
   safety properties of Connection about order and buffering.  What a message
   is decoded and parsed to (Commands) stays a black box here, but for the two
   opcodes that decode.

   The invariant is about the units ahead of the request loop: what it has
   buffered, what lies in the socket, and the unit the client writes next.  They
   are always a gap-free piece of the stream (Runs) that begins, except once the
   connection is closed, where the next message begins (Heads).              *)
EXTENDS Connection, SequenceTheorems, FiniteSetTheorems, TLAPS

Ahead == Append(buf \o socket, next)

AheadType == [msg : Nat \ {0}, part : Nat \ {0}]
Size(u) == script[u.msg].size

\* a run is defined by its neighbours; what this means for any two of its units
\* is said as well, so that no step of the proofs has to walk along it
Runs(s) ==
  /\ \A i \in DOMAIN s : i < Len(s) => s[i + 1] = After(s[i]) /\ s[i].msg \in DOMAIN script
  /\ \A i, j \in DOMAIN s : i < j =>
       \/ s[i].msg = s[j].msg /\ s[j].part - s[i].part = j - i
       \/ s[i].msg < s[j].msg /\ j - i >= Size(s[i]) - s[i].part + s[j].part

ScriptMessages == {script[i].message : i \in {j \in DOMAIN script : script[j].kind = "message"}}
ExecutedType ==
  [msg : 2 .. Len(script), command : UNION {Commands(m) : m \in ScriptMessages},
   reply : UNION {Execute(c) : c \in UNION {Commands(m) : m \in ScriptMessages}}]
ReplyType == {Reply(m, reply) : m \in ScriptMessages, reply \in {"ok", "notOk"}}

Flow ==
  /\ script \in Scripts
  /\ next \in AheadType /\ next.msg \in 1 .. (Len(script) + 1)
  /\ next.msg \in DOMAIN script => InScript(next)
  /\ buf \in Seq(UnitType) /\ socket \in Seq(UnitType)
  /\ \A i \in DOMAIN buf : InScript(buf[i])
  /\ \A i \in DOMAIN socket : InScript(socket[i])
  /\ Runs(Ahead)

Heads ==
  /\ phase \in {"preamble", "acquire"} => executed = <<>>
  /\ phase = "preamble" => Ahead[1] = Unit(1, 1)
  /\ phase \in {"acquire", "serving"} => Ahead[1] = Unit(Len(executed) + 2, 1)

Flags ==
  /\ shut \in BOOLEAN /\ gone \in BOOLEAN
  /\ phase \in {"preamble", "acquire", "serving", "closed"}

History ==
  /\ executed \in Seq(ExecutedType)
  /\ replies \in Seq(ReplyType) /\ owed \in Seq(ReplyType) /\ Len(owed) <= 1
  /\ got \in 0 .. Len(replies) /\ Len(replies) - got <= SocketRoom
  /\ \A i \in DOMAIN executed : executed[i].reply \in Execute(executed[i].command)
  /\ RequestsInOrder /\ RepliesInOrder

IInv == Flow /\ Heads /\ Flags /\ History /\ PreambleBounded

-----------------------------------------------------------------------------
(* Runs of units.                                                            *)
\* What the assumptions say of the script that is sent.
LEMMA ScriptFacts ==
  ASSUME script \in Scripts
  PROVE  /\ Len(script) \in Nat \ {0} /\ DOMAIN script = 1 .. Len(script)
         /\ \A i \in DOMAIN script : script[i].size \in Nat \ {0}
         /\ \A i \in 2 .. Len(script) : script[i].kind \in Requests
<1>1. /\ Len(script) \in Nat /\ DOMAIN script = 1 .. Len(script) /\ script # <<>>
      /\ \A i \in DOMAIN script : script[i].size \in Nat \ {0}
      /\ script[1].kind \in Openers
      /\ \A i \in 2 .. Len(script) : script[i].kind \in Requests
  BY ScriptsAssumption
<1>2. Len(script) # 0
  <2>1. SUFFICES ASSUME Len(script) = 0 PROVE FALSE
    OBVIOUS
  <2>2. DOMAIN script = {}
    BY <1>1, <2>1
  <2> QED BY <1>1, <2>2
<1> QED BY <1>1, <1>2

LEMMA AheadFacts ==
  ASSUME NEW s \in Seq(AheadType)
  PROVE  /\ Len(s) \in Nat /\ DOMAIN s = 1 .. Len(s) /\ (s # <<>> => Len(s) # 0)
         /\ \A i \in 1 .. Len(s) : s[i].msg \in Nat \ {0} /\ s[i].part \in Nat \ {0}
<1>1. Len(s) \in Nat /\ DOMAIN s = 1 .. Len(s) /\ (s # <<>> => Len(s) # 0)
  BY LenProperties, EmptySeq
<1>2. \A i \in 1 .. Len(s) : s[i] \in AheadType
  BY ElementOfSeq
<1> QED BY <1>1, <1>2 DEF AheadType

\* The unit behind the last one keeps the run going.
LEMMA RunExtends ==
  ASSUME script \in Scripts, NEW s \in Seq(AheadType), Runs(s), s # <<>>,
         NEW u, u = s[Len(s)], u.msg \in DOMAIN script, InScript(u)
  PROVE  /\ After(u) \in AheadType
         /\ After(u).msg \in DOMAIN script => InScript(After(u))
         /\ Runs(Append(s, After(u)))
<1> DEFINE t == Append(s, After(u))
           n == Len(s)
<1>1. /\ n \in Nat \ {0} /\ DOMAIN s = 1 .. n
      /\ \A i \in 1 .. n : s[i].msg \in Nat \ {0} /\ s[i].part \in Nat \ {0}
  BY AheadFacts
<1>2. /\ script[u.msg].size \in Nat \ {0} /\ u.msg \in Nat \ {0} /\ u.part \in Nat \ {0}
      /\ u.part <= script[u.msg].size
  BY ScriptFacts, <1>1 DEF InScript
<1>3. \/ /\ After(u) = Unit(u.msg, u.part + 1) /\ u.part < script[u.msg].size
      \/ /\ After(u) = Unit(u.msg + 1, 1) /\ u.part = script[u.msg].size
  BY <1>2 DEF After
<1>4. After(u) \in AheadType
  BY <1>2, <1>3, SMTT(40) DEF Unit, AheadType
<1>5. After(u).msg \in DOMAIN script => InScript(After(u))
  <2>1. script[u.msg + 1].size \in Nat \ {0} \/ u.msg + 1 \notin DOMAIN script
    BY ScriptFacts
  <2> QED BY <1>2, <1>3, <2>1 DEF Unit, InScript
<1>6. /\ Len(t) = n + 1 /\ DOMAIN t = 1 .. n + 1 /\ t[n + 1] = After(u)
      /\ \A i \in 1 .. n : t[i] = s[i]
  BY <1>4, AppendProperties, LenProperties
<1>7. ASSUME NEW i \in DOMAIN t, i < Len(t)
      PROVE  t[i + 1] = After(t[i]) /\ t[i].msg \in DOMAIN script
  <2>1. CASE i < n
    BY <1>1, <1>6, <2>1 DEF Runs
  <2>2. CASE i = n
    BY <1>1, <1>6, <2>2
  <2> QED BY <1>1, <1>6, <1>7, <2>1, <2>2
<1>8. ASSUME NEW i \in 1 .. n + 1, NEW j \in 1 .. n + 1, i < j
      PROVE  \/ t[i].msg = t[j].msg /\ t[j].part - t[i].part = j - i
             \/ t[i].msg < t[j].msg /\ j - i >= Size(t[i]) - t[i].part + t[j].part
  <2>1. CASE j <= n
    <3>1. i \in DOMAIN s /\ j \in DOMAIN s /\ t[i] = s[i] /\ t[j] = s[j]
      BY <1>1, <1>6, <1>8, <2>1
    <3> QED BY <1>8, <3>1 DEF Runs
  <2>2. CASE j = n + 1 /\ i = n
    <3>1. t[i] = u /\ t[j] = After(u) /\ j - i = 1
      BY <1>1, <1>6, <2>2
    <3>2. Size(t[i]) = script[u.msg].size
      BY <3>1 DEF Size
    <3>3. \/ After(u).msg = u.msg /\ After(u).part = u.part + 1
          \/ After(u).msg = u.msg + 1 /\ After(u).part = 1 /\ u.part = script[u.msg].size
      BY <1>3 DEF Unit
    <3> HIDE DEF t, n
    <3> QED BY <1>2, <3>1, <3>2, <3>3
  <2>3. CASE j = n + 1 /\ i < n
    <3>1. /\ t[i] = s[i] /\ t[j] = After(u) /\ i \in 1 .. n
          /\ s[i].msg \in Nat /\ s[i].part \in Nat /\ s[i].msg \in DOMAIN script
      BY <1>1, <1>6, <2>3 DEF Runs
    <3>2. /\ Size(t[i]) = script[t[i].msg].size /\ Size(s[i]) = script[s[i].msg].size
          /\ script[s[i].msg].size \in Nat
      BY <3>1, ScriptFacts DEF Size
    <3>3. \/ After(u).msg = u.msg /\ After(u).part = u.part + 1
          \/ After(u).msg = u.msg + 1 /\ After(u).part = 1 /\ u.part = script[u.msg].size
      BY <1>3 DEF Unit
    <3>4. i \in Nat /\ j \in Nat /\ n \in Nat /\ j = n + 1
      BY <1>1, <2>3, <3>1
    <3> HIDE DEF t, n
    <3>5. \/ s[i].msg = u.msg /\ u.part - s[i].part = n - i
          \/ s[i].msg < u.msg /\ n - i >= Size(s[i]) - s[i].part + u.part
      BY <1>1, <2>3, <3>1, SMTT(40) DEF Runs, n
    <3>6. /\ t[i].msg = s[i].msg /\ t[i].part = s[i].part /\ Size(t[i]) = Size(s[i]) /\ Size(s[i]) \in Nat
          /\ t[j].msg = After(u).msg /\ t[j].part = After(u).part
      BY <3>1, <3>2
    <3>7. u.msg \in Nat /\ u.part \in Nat /\ (s[i].msg = u.msg => Size(s[i]) = script[u.msg].size)
      BY <1>2, <3>2
    <3> DEFINE m == s[i].msg
               p == s[i].part
               size == Size(s[i])
               um == u.msg
               up == u.part
               am == After(u).msg
               ap == After(u).part
    <3>8. /\ m \in Nat /\ p \in Nat /\ size \in Nat /\ um \in Nat /\ up \in Nat
          /\ \/ am = um /\ ap = up + 1
             \/ am = um + 1 /\ ap = 1 /\ (m = um => size = up)
          /\ \/ m = um /\ up - p = n - i
             \/ m < um /\ n - i >= size - p + up
      BY <3>1, <3>3, <3>5, <3>6, <3>7
    <3>9. /\ t[i].msg = m /\ t[i].part = p /\ Size(t[i]) = size
          /\ t[j].msg = am /\ t[j].part = ap
      BY <3>6
    <3> HIDE DEF m, p, size, um, up, am, ap
    <3>10. \/ m = am /\ ap - p = j - i
           \/ m < am /\ j - i >= size - p + ap
      BY <3>4, <3>8
    <3> QED BY <3>9, <3>10
  <2> QED BY <1>1, <1>6, <1>8, <2>1, <2>2, <2>3
<1> QED BY <1>4, <1>5, <1>6, <1>7, <1>8 DEF Runs

\* What remains of a run, when units are taken from its front, is a run.
LEMMA RunSuffix ==
  ASSUME NEW s \in Seq(AheadType), Runs(s), NEW k \in 0 .. Len(s) - 1
  PROVE  LET t == SubSeq(s, k + 1, Len(s))
         IN  t \in Seq(AheadType) /\ Len(t) = Len(s) - k /\ Runs(t)
             /\ \A i \in 1 .. Len(s) - k : t[i] = s[k + i]
<1> DEFINE t == SubSeq(s, k + 1, Len(s))
<1>1. Len(s) \in Nat /\ DOMAIN s = 1 .. Len(s)
  BY LenProperties
<1>2. \A i \in k + 1 .. Len(s) : s[i] \in AheadType
  BY <1>1, ElementOfSeq
<1>3. t \in Seq(AheadType) /\ Len(t) = Len(s) - k /\ \A i \in 1 .. Len(s) - k : t[i] = s[k + i]
  <2>1. k + 1 \in Int /\ Len(s) \in Int /\ k + 1 <= Len(s)
    BY <1>1
  <2>2. /\ t \in Seq(AheadType) /\ Len(t) = Len(s) - (k + 1) + 1
        /\ \A i \in 1 .. Len(s) - (k + 1) + 1 : t[i] = s[(k + 1) + i - 1]
    BY <1>2, <2>1, SubSeqProperties
  <2> HIDE DEF t
  <2>3. Len(s) - (k + 1) + 1 = Len(s) - k /\ \A i \in Nat : (k + 1) + i - 1 = k + i
    BY <1>1
  <2> QED BY <1>1, <2>2, <2>3
<1>4. DOMAIN t = 1 .. Len(s) - k
  BY <1>3, LenProperties
<1> HIDE DEF t
<1>5. \A i \in DOMAIN t : i < Len(t) => t[i + 1] = After(t[i]) /\ t[i].msg \in DOMAIN script
  <2>1. SUFFICES ASSUME NEW i \in DOMAIN t, i < Len(t)
                 PROVE  t[i + 1] = After(t[i]) /\ t[i].msg \in DOMAIN script
    OBVIOUS
  <2>2. /\ k + i \in DOMAIN s /\ k + i < Len(s) /\ t[i] = s[k + i]
        /\ t[i + 1] = s[k + (i + 1)] /\ k + (i + 1) = (k + i) + 1
    BY <1>1, <1>3, <1>4, <2>1
  <2> QED BY <2>2 DEF Runs
<1>6. ASSUME NEW i \in DOMAIN t, NEW j \in DOMAIN t, i < j
      PROVE  \/ t[i].msg = t[j].msg /\ t[j].part - t[i].part = j - i
             \/ t[i].msg < t[j].msg /\ j - i >= Size(t[i]) - t[i].part + t[j].part
  <2>1. i \in 1 .. Len(s) - k /\ j \in 1 .. Len(s) - k
    BY <1>4
  <2>2. t[i] = s[k + i] /\ t[j] = s[k + j]
    BY <1>3, <2>1
  <2>3. k + i \in 1 .. Len(s) /\ k + j \in 1 .. Len(s)
    BY <1>1, <2>1
  <2>4. k + i < k + j /\ (k + j) - (k + i) = j - i
    BY <1>1, <1>6, <2>1
  <2>5. k + i \in DOMAIN s /\ k + j \in DOMAIN s
    BY <1>1, <2>3
  <2> QED BY <2>2, <2>4, <2>5 DEF Runs
<1> QED BY <1>3, <1>5, <1>6 DEF Runs, t

\* A run that begins with a message has the next message right behind it.
LEMMA NextMessage ==
  ASSUME script \in Scripts, NEW s \in Seq(AheadType), Runs(s), NEW m \in DOMAIN script,
         s # <<>>, s[1] = Unit(m, 1), script[m].size < Len(s)
  PROVE  s[script[m].size + 1] = Unit(m + 1, 1)
<1> DEFINE n == script[m].size
<1>1. /\ Len(s) \in Nat /\ DOMAIN s = 1 .. Len(s) /\ n \in Nat \ {0} /\ n \in DOMAIN s /\ 1 \in DOMAIN s
      /\ \A i \in DOMAIN s : s[i].msg \in Nat \ {0} /\ s[i].part \in Nat \ {0}
  <2>1. n \in Nat \ {0}
    BY ScriptFacts
  <2> QED BY <2>1, AheadFacts
<1>2. s[n] = Unit(m, n)
  <2>1. CASE n = 1
    BY <2>1
  <2>2. CASE n > 1
    <3>1. s[1].msg = m /\ s[1].part = 1 /\ Size(s[1]) = n
      BY DEF Unit, Size
    <3>2. \/ s[1].msg = s[n].msg /\ s[n].part - s[1].part = n - 1
          \/ s[1].msg < s[n].msg /\ n - 1 >= Size(s[1]) - s[1].part + s[n].part
      BY <1>1, <2>2 DEF Runs
    <3>3. s[n].msg = m /\ s[n].part = n
      BY <1>1, <3>1, <3>2
    <3>4. s[n] \in AheadType
      BY <1>1, ElementOfSeq
    <3> QED BY <3>3, <3>4 DEF AheadType, Unit
  <2> QED BY <1>1, <2>1, <2>2
<1>3. s[n + 1] = After(s[n])
  BY <1>1 DEF Runs
<1> QED BY <1>1, <1>2, <1>3 DEF After, Unit

-----------------------------------------------------------------------------
(* The units ahead.                                                          *)
LEMMA AheadUnits ==
  ASSUME Flow
  PROVE  /\ Ahead \in Seq(AheadType) /\ Ahead # <<>>
         /\ Len(buf) \in Nat /\ Len(socket) \in Nat
         /\ Len(Ahead) = Len(buf) + Len(socket) + 1
         /\ DOMAIN buf = 1 .. Len(buf) /\ DOMAIN socket = 1 .. Len(socket)
         /\ \A i \in 1 .. Len(buf) : Ahead[i] = buf[i] /\ buf[i] \in UnitType /\ InScript(buf[i])
         /\ \A i \in 1 .. Len(socket) : socket[i] \in UnitType /\ InScript(socket[i])
         /\ Ahead[Len(Ahead)] = next
<1>1. UnitType \subseteq AheadType
  BY ScriptFacts DEF Flow, UnitType, AheadType
<1>2. buf \in Seq(AheadType) /\ socket \in Seq(AheadType) /\ next \in AheadType
  BY <1>1, SeqMonotonic DEF Flow
<1>3. /\ Len(buf) \in Nat /\ Len(socket) \in Nat
      /\ DOMAIN buf = 1 .. Len(buf) /\ DOMAIN socket = 1 .. Len(socket)
  BY LenProperties DEF Flow
<1>4. /\ buf \o socket \in Seq(AheadType) /\ Len(buf \o socket) = Len(buf) + Len(socket)
      /\ \A i \in 1 .. Len(buf) + Len(socket) :
           (buf \o socket)[i] = IF i <= Len(buf) THEN buf[i] ELSE socket[i - Len(buf)]
  BY <1>2, ConcatProperties
<1>5. /\ Ahead \in Seq(AheadType) /\ Ahead # <<>>
      /\ Len(Ahead) = Len(buf \o socket) + 1
      /\ \A i \in 1 .. Len(buf \o socket) : Ahead[i] = (buf \o socket)[i]
      /\ Ahead[Len(buf \o socket) + 1] = next
  BY <1>2, <1>4, AppendProperties DEF Ahead
<1>6. \A i \in 1 .. Len(buf) : Ahead[i] = buf[i]
  BY <1>3, <1>4, <1>5
<1>7. /\ \A i \in 1 .. Len(buf) : buf[i] \in UnitType
      /\ \A i \in 1 .. Len(socket) : socket[i] \in UnitType
  BY ElementOfSeq DEF Flow
<1> QED BY <1>3, <1>4, <1>5, <1>6, <1>7 DEF Flow

\* A step that leaves the script alone and makes a run of the units ahead.
LEMMA FlowStep ==
  ASSUME Flow, script' = script, NEW s, Ahead' = s, Runs(s),
         next' \in AheadType, next'.msg \in 1 .. (Len(script) + 1),
         next'.msg \in DOMAIN script => InScript(next'),
         buf' \in Seq(UnitType), socket' \in Seq(UnitType),
         \A i \in DOMAIN buf' : InScript(buf'[i]),
         \A i \in DOMAIN socket' : InScript(socket'[i])
  PROVE  Flow'
<1>1. Runs(Ahead)'
  BY DEF Runs, After, Size
<1> QED BY <1>1 DEF Flow, UnitType, InScript

LEMMA FlowSame ==
  ASSUME Flow, UNCHANGED <<script, next, buf, socket>>
  PROVE  Flow' /\ Ahead' = Ahead
<1>1. Ahead' = Ahead
  BY DEF Ahead
<1>2. Runs(Ahead)
  BY DEF Flow
<1> QED BY <1>1, <1>2, FlowStep DEF Flow

LEMMA FlowWrites ==
  ASSUME Flow, ClientWrite
  PROVE  Flow' /\ Ahead'[1] = Ahead[1]
<1>1. /\ next.msg \in DOMAIN script /\ InScript(next)
      /\ socket' = Append(socket, next) /\ next' = After(next)
      /\ UNCHANGED <<script, buf>>
  BY ScriptFacts DEF Flow, ClientWrite
<1>2. /\ After(next) \in AheadType
      /\ After(next).msg \in DOMAIN script => InScript(After(next))
      /\ Runs(Append(Ahead, After(next)))
  BY <1>1, AheadUnits, RunExtends DEF Flow
<1>3. After(next).msg \in 1 .. (Len(script) + 1)
  <2>1. After(next).msg \in {next.msg, next.msg + 1}
    BY DEF After, Unit
  <2> QED BY <1>1, <2>1, ScriptFacts DEF Flow
<1>4. next \in UnitType
  BY <1>1, ScriptFacts DEF Flow, AheadType, UnitType
<1>5. /\ socket' \in Seq(UnitType) /\ Len(socket') = Len(socket) + 1
      /\ \A i \in DOMAIN socket' : InScript(socket'[i])
  <2>1. /\ Append(socket, next) \in Seq(UnitType) /\ Len(Append(socket, next)) = Len(socket) + 1
        /\ \A i \in 1 .. Len(socket) : Append(socket, next)[i] = socket[i]
        /\ Append(socket, next)[Len(socket) + 1] = next
    BY <1>4, AppendProperties DEF Flow
  <2>2. DOMAIN Append(socket, next) = 1 .. Len(socket) + 1
    BY <2>1, LenProperties
  <2>3. Len(socket) \in Nat /\ DOMAIN socket = 1 .. Len(socket)
    BY AheadUnits
  <2>4. \A i \in DOMAIN socket : InScript(socket[i])
    BY DEF Flow
  <2> QED BY <1>1, <2>1, <2>2, <2>3, <2>4
<1>6. Ahead' = Append(Ahead, After(next))
  <2>1. buf \o Append(socket, next) = Append(buf \o socket, next)
    <3>1. Append(socket, next) = socket \o <<next>> /\ <<next>> \in Seq(UnitType)
      BY <1>4, AppendIsConcat DEF Flow
    <3>2. buf \o (socket \o <<next>>) = (buf \o socket) \o <<next>>
      BY <3>1, ConcatAssociative DEF Flow
    <3>3. buf \o socket \in Seq(UnitType)
      BY ConcatProperties DEF Flow
    <3>4. Append(buf \o socket, next) = (buf \o socket) \o <<next>>
      BY <1>4, <3>3, AppendIsConcat
    <3> QED BY <3>1, <3>2, <3>4
  <2> QED BY <1>1, <2>1 DEF Ahead
<1>7. Append(Ahead, After(next))[1] = Ahead[1]
  <2>1. Ahead \in Seq(AheadType) /\ 1 \in 1 .. Len(Ahead)
    BY AheadUnits
  <2> QED BY <1>2, <2>1, AppendProperties
<1>8. Flow'
  BY <1>1, <1>2, <1>3, <1>5, <1>6, FlowStep DEF Flow
<1> QED BY <1>6, <1>7, <1>8

\* stream.read moves units from the socket to the buffer.
LEMMA FlowReads ==
  ASSUME Flow, NEW n \in 1 .. Len(socket), UNCHANGED <<script, next>>,
         buf' = buf \o SubSeq(socket, 1, n), socket' = SubSeq(socket, n + 1, Len(socket))
  PROVE  Flow' /\ Ahead' = Ahead /\ Len(buf') = Len(buf) + n
<1>1. Len(buf) \in Nat /\ Len(socket) \in Nat /\ DOMAIN buf = 1 .. Len(buf)
  BY AheadUnits
<1>2. /\ SubSeq(socket, 1, n) \in Seq(UnitType) /\ Len(SubSeq(socket, 1, n)) = n
      /\ \A i \in 1 .. n : SubSeq(socket, 1, n)[i] = socket[i]
  <2>1. 1 \in Int /\ n \in Int /\ n - 1 + 1 = n /\ 1 <= n /\ \A i \in 1 .. n : 1 + i - 1 = i /\ socket[i] \in UnitType
    BY <1>1, AheadUnits
  <2> QED BY <2>1, SubSeqProperties
<1> DEFINE rest == SubSeq(socket, n + 1, Len(socket))
<1>0. /\ rest \in Seq(UnitType) /\ Len(rest) = Len(socket) - n
      /\ \A i \in 1 .. Len(socket) - n : rest[i] = socket[n + i]
  <2>1. /\ n + 1 \in Int /\ Len(socket) \in Int
        /\ \A i \in n + 1 .. Len(socket) : socket[i] \in UnitType
    BY <1>1, AheadUnits
  <2>2. /\ rest \in Seq(UnitType)
        /\ Len(rest) = IF n + 1 <= Len(socket) THEN Len(socket) - (n + 1) + 1 ELSE 0
        /\ \A i \in 1 .. Len(socket) - (n + 1) + 1 : rest[i] = socket[(n + 1) + i - 1]
    BY <2>1, SubSeqProperties
  <2> HIDE DEF rest
  <2>3. /\ Len(socket) - (n + 1) + 1 = Len(socket) - n
        /\ \A i \in 1 .. Len(socket) - n : (n + 1) + i - 1 = n + i
    BY <1>1
  <2>4. n + 1 <= Len(socket) \/ Len(socket) - n = 0
    BY <1>1
  <2> QED BY <1>1, <2>2, <2>3, <2>4
<1>3. /\ socket' \in Seq(UnitType) /\ Len(socket') = Len(socket) - n
      /\ \A i \in 1 .. Len(socket) - n : socket'[i] = socket[n + i]
  BY <1>0
<1>4. /\ buf' \in Seq(UnitType) /\ Len(buf') = Len(buf) + n
      /\ \A i \in 1 .. Len(buf) + n : buf'[i] = IF i <= Len(buf) THEN buf[i] ELSE SubSeq(socket, 1, n)[i - Len(buf)]
  <2>1. buf \in Seq(UnitType)
    BY DEF Flow
  <2> QED BY <1>2, <2>1, ConcatProperties
<1>5. buf' \o socket' = buf \o socket
  <2>1. SubSeq(socket, 1, n) \o SubSeq(socket, n + 1, Len(socket)) = SubSeq(socket, 1, Len(socket))
    <3>1. /\ socket \in Seq(UnitType) /\ 1 \in 1 .. Len(socket) + 1
          /\ n \in 1 - 1 .. Len(socket) /\ Len(socket) \in n .. Len(socket)
      BY <1>1 DEF Flow
    <3> QED BY <3>1, ConcatAdjacentSubSeq
  <2>2. SubSeq(socket, 1, Len(socket)) = socket
    BY SubSeqFull DEF Flow
  <2>3. (buf \o SubSeq(socket, 1, n)) \o rest = buf \o (SubSeq(socket, 1, n) \o rest)
    <3> DEFINE first == SubSeq(socket, 1, n)
    <3>1. buf \in Seq(UnitType) /\ first \in Seq(UnitType) /\ rest \in Seq(UnitType)
      BY <1>0, <1>2 DEF Flow
    <3> HIDE DEF first, rest
    <3>2. (buf \o first) \o rest = buf \o (first \o rest)
      <4>1. \A a, b, c \in Seq(UnitType) : (a \o b) \o c = a \o (b \o c)
        BY ONLY ConcatAssociative
      <4> QED BY <3>1, <4>1
    <3> QED BY <3>2 DEF first
  <2> QED BY <2>1, <2>2, <2>3
<1>6. Ahead' = Ahead
  BY <1>5 DEF Ahead
<1>7. /\ DOMAIN buf' = 1 .. Len(buf) + n /\ DOMAIN socket' = 1 .. Len(socket) - n
  BY <1>3, <1>4, LenProperties
<1>8. \A i \in DOMAIN buf' : InScript(buf'[i])
  <2>1. SUFFICES ASSUME NEW i \in 1 .. Len(buf) + n PROVE InScript(buf'[i])
    BY <1>7
  <2>2. CASE i <= Len(buf)
    BY <1>1, <1>4, <2>2, AheadUnits
  <2>3. CASE i > Len(buf)
    <3>1. i - Len(buf) \in 1 .. n /\ i - Len(buf) \in 1 .. Len(socket)
      BY <1>1, <2>3
    <3>2. buf'[i] = socket[i - Len(buf)]
      BY <1>1, <1>2, <1>4, <2>3, <3>1
    <3> QED BY <3>1, <3>2, AheadUnits
  <2> QED BY <1>1, <2>2, <2>3
<1>9. \A i \in DOMAIN socket' : InScript(socket'[i])
  <2>1. SUFFICES ASSUME NEW i \in 1 .. Len(socket) - n PROVE InScript(socket'[i])
    BY <1>7
  <2>2. n + i \in 1 .. Len(socket)
    BY <1>1
  <2> QED BY <1>3, <2>2, AheadUnits
<1>10. Runs(Ahead)
  BY DEF Flow
<1>11. Flow'
  BY <1>3, <1>4, <1>6, <1>8, <1>9, <1>10, FlowStep DEF Flow
<1> QED BY <1>4, <1>6, <1>11

\* split_to takes units off the front of the buffer.
LEMMA FlowTakes ==
  ASSUME Flow, NEW k \in 0 .. Len(buf), UNCHANGED <<script, next, socket>>,
         buf' = SubSeq(buf, k + 1, Len(buf))
  PROVE  Flow' /\ Ahead'[1] = Ahead[k + 1]
<1> DEFINE rest == SubSeq(buf, k + 1, Len(buf))
           ahead == SubSeq(Ahead, k + 1, Len(Ahead))
<1>1. /\ Len(buf) \in Nat /\ Len(socket) \in Nat /\ Len(Ahead) = Len(buf) + Len(socket) + 1
      /\ \A i \in 1 .. Len(buf) : buf[i] \in UnitType /\ InScript(buf[i])
  BY AheadUnits
<1>2. /\ rest \in Seq(UnitType) /\ Len(rest) = Len(buf) - k
      /\ \A i \in 1 .. Len(buf) - k : rest[i] = buf[k + i]
  <2>1. /\ k + 1 \in Int /\ Len(buf) \in Int
        /\ \A i \in k + 1 .. Len(buf) : buf[i] \in UnitType
    BY <1>1
  <2>2. /\ rest \in Seq(UnitType)
        /\ Len(rest) = IF k + 1 <= Len(buf) THEN Len(buf) - (k + 1) + 1 ELSE 0
        /\ \A i \in 1 .. Len(buf) - (k + 1) + 1 : rest[i] = buf[(k + 1) + i - 1]
    BY <2>1, SubSeqProperties
  <2> HIDE DEF rest
  <2>3. /\ Len(buf) - (k + 1) + 1 = Len(buf) - k
        /\ \A i \in 1 .. Len(buf) - k : (k + 1) + i - 1 = k + i
    BY <1>1
  <2>4. k + 1 <= Len(buf) \/ Len(buf) - k = 0
    BY <1>1
  <2> QED BY <1>1, <2>2, <2>3, <2>4
<1>3. /\ ahead \in Seq(AheadType) /\ Len(ahead) = Len(Ahead) - k /\ Runs(ahead)
      /\ \A i \in 1 .. Len(Ahead) - k : ahead[i] = Ahead[k + i]
  <2>1. k \in 0 .. Len(Ahead) - 1 /\ Ahead \in Seq(AheadType) /\ Runs(Ahead)
    BY <1>1, AheadUnits DEF Flow
  <2> QED BY <2>1, RunSuffix
<1>4. /\ \A i \in 1 .. Len(buf) : Ahead[i] = buf[i]
      /\ \A i \in 1 .. Len(socket) : Ahead[Len(buf) + i] = socket[i]
      /\ Ahead[Len(buf) + Len(socket) + 1] = next
      /\ \A i \in DOMAIN socket : InScript(socket[i])
  <2>1. UnitType \subseteq AheadType
    BY ScriptFacts DEF Flow, UnitType, AheadType
  <2>2. buf \in Seq(AheadType) /\ socket \in Seq(AheadType) /\ next \in AheadType
    BY <2>1, SeqMonotonic DEF Flow
  <2>3. /\ buf \o socket \in Seq(AheadType) /\ Len(buf \o socket) = Len(buf) + Len(socket)
        /\ \A i \in 1 .. Len(buf) + Len(socket) :
             (buf \o socket)[i] = IF i <= Len(buf) THEN buf[i] ELSE socket[i - Len(buf)]
    BY <2>2, ConcatProperties
  <2>4. \A i \in 1 .. Len(buf) + Len(socket) :
          Ahead[i] = IF i <= Len(buf) THEN buf[i] ELSE socket[i - Len(buf)]
    <3>1. \A i \in 1 .. Len(buf \o socket) : Append(buf \o socket, next)[i] = (buf \o socket)[i]
      BY <2>2, <2>3, AppendProperties
    <3> QED BY <2>3, <3>1 DEF Ahead
  <2>5. \A i \in 1 .. Len(socket) : Ahead[Len(buf) + i] = socket[i]
    <3>1. SUFFICES ASSUME NEW i \in 1 .. Len(socket) PROVE Ahead[Len(buf) + i] = socket[i]
      OBVIOUS
    <3>2. /\ Len(buf) + i \in 1 .. Len(buf) + Len(socket) /\ ~(Len(buf) + i <= Len(buf))
          /\ (Len(buf) + i) - Len(buf) = i
      BY <1>1
    <3> QED BY <2>4, <3>2
  <2> QED BY <1>1, <2>5, AheadUnits DEF Flow
<1>5. rest \o socket \in Seq(UnitType) /\ Len(rest \o socket) = Len(buf) - k + Len(socket)
      /\ \A i \in 1 .. Len(buf) - k + Len(socket) :
           (rest \o socket)[i] = IF i <= Len(buf) - k THEN rest[i] ELSE socket[i - (Len(buf) - k)]
  <2>1. socket \in Seq(UnitType)
    BY DEF Flow
  <2>2. rest \in Seq(UnitType)
    BY <1>2
  <2>3. Len(rest) = Len(buf) - k
    BY <1>2
  <2> HIDE DEF rest
  <2>4. /\ rest \o socket \in Seq(UnitType) /\ Len(rest \o socket) = Len(rest) + Len(socket)
        /\ \A i \in 1 .. Len(rest) + Len(socket) :
             (rest \o socket)[i] = IF i <= Len(rest) THEN rest[i] ELSE socket[i - Len(rest)]
    BY <2>1, <2>2, ConcatProperties
  <2> QED BY <2>3, <2>4
<1>6. Append(rest \o socket, next) = ahead
  <2> DEFINE left == Append(rest \o socket, next)
  <2>1. rest \o socket \in Seq(AheadType) /\ next \in AheadType
    <3>1. UnitType \subseteq AheadType
      BY ScriptFacts DEF Flow, UnitType, AheadType
    <3> HIDE DEF rest
    <3> QED BY <1>5, <3>1, SeqMonotonic DEF Flow
  <2>2. /\ left \in Seq(AheadType) /\ Len(left) = Len(rest \o socket) + 1
        /\ \A i \in 1 .. Len(rest \o socket) : left[i] = (rest \o socket)[i]
        /\ left[Len(rest \o socket) + 1] = next
    <3> HIDE DEF rest
    <3> QED BY <2>1, AppendProperties
  <2> HIDE DEF left, rest, ahead
  <2>3. Len(left) = Len(ahead) /\ Len(left) = Len(buf) - k + Len(socket) + 1
    BY <1>1, <1>3, <1>5, <2>2, SMTT(40)
  <2>4. ASSUME NEW i \in 1 .. Len(left)
        PROVE  left[i] = ahead[i]
    <3>1. ahead[i] = Ahead[k + i]
      BY <1>1, <1>3, <2>3
    <3>2. CASE i <= Len(buf) - k
      <4>1. k + i \in 1 .. Len(buf) /\ i \in 1 .. Len(buf) - k /\ i \in 1 .. Len(buf) - k + Len(socket)
        BY <1>1, <2>3, <3>2
      <4> QED BY <1>2, <1>4, <1>5, <2>2, <3>1, <3>2, <4>1
    <3>3. CASE i > Len(buf) - k /\ i <= Len(buf) - k + Len(socket)
      <4>1. /\ i - (Len(buf) - k) \in 1 .. Len(socket) /\ i \in 1 .. Len(buf) - k + Len(socket)
            /\ Len(buf) + (i - (Len(buf) - k)) = k + i /\ ~(i <= Len(buf) - k)
        BY <1>1, <2>3, <3>3
      <4>2. Ahead[Len(buf) + (i - (Len(buf) - k))] = socket[i - (Len(buf) - k)]
        BY <1>4, <4>1
      <4> QED BY <1>5, <2>2, <3>1, <4>1, <4>2
    <3>4. CASE i = Len(buf) - k + Len(socket) + 1
      <4>1. k + i = Len(buf) + Len(socket) + 1 /\ i = Len(rest \o socket) + 1
        BY <1>1, <1>5, <3>4
      <4> QED BY <1>4, <2>2, <3>1, <4>1
    <3>5. \/ i <= Len(buf) - k
          \/ i > Len(buf) - k /\ i <= Len(buf) - k + Len(socket)
          \/ i = Len(buf) - k + Len(socket) + 1
      BY <1>1, <2>3, <2>4, SMTT(40)
    <3> QED BY <3>2, <3>3, <3>4, <3>5, Zenon
  <2>5. \A a, b \in Seq(AheadType) : Len(a) = Len(b) /\ (\A i \in 1 .. Len(a) : a[i] = b[i]) => a = b
    BY ONLY SeqEqual
  <2>6. left \in Seq(AheadType) /\ ahead \in Seq(AheadType) /\ Len(left) = Len(ahead)
    BY <1>3, <2>2, <2>3
  <2>7. left = ahead
    BY <2>4, <2>5, <2>6, Zenon
  <2> QED BY <2>7 DEF left
<1>7. Ahead' = ahead
  BY <1>6 DEF Ahead
<1>8. buf' = rest /\ \A i \in DOMAIN rest : InScript(rest[i])
  <2>1. DOMAIN rest = 1 .. Len(buf) - k
    BY <1>2, LenProperties
  <2>2. buf' = rest
    OBVIOUS
  <2> HIDE DEF rest
  <2>3. ASSUME NEW i \in 1 .. Len(buf) - k
        PROVE  InScript(rest[i])
    <3>1. k + i \in 1 .. Len(buf)
      BY <1>1
    <3> QED BY <1>1, <1>2, <3>1
  <2> QED BY <2>1, <2>2, <2>3
<1> HIDE DEF rest, ahead
<1>9. Flow'
  BY <1>2, <1>3, <1>4, <1>7, <1>8, FlowStep DEF Flow
<1>10. ahead[1] = Ahead[k + 1]
  <2>1. 1 \in 1 .. Len(Ahead) - k
    BY <1>1
  <2> QED BY <1>3, <2>1
<1> QED BY <1>7, <1>9, <1>10

-----------------------------------------------------------------------------
(* The replies to a history h of the requests of the script s.               *)
Wants(e, s) ==
  /\ e.reply \in {"ok", "notOk"}
  /\ \/ s[e.msg].message.opCode = "OP_QUERY"
     \/ MoreToComeBit \notin s[e.msg].message.flags
WantingIn(h, s, n) == {i \in 1 .. n : Wants(h[i], s)}
ReplyTo(e, s) ==
  [responseTo |-> s[e.msg].message.requestId,
   format |-> IF s[e.msg].message.opCode = "OP_MSG" THEN "OP_MSG" ELSE "OP_REPLY",
   reply |-> e.reply]
Answers(h, s, a) ==
  /\ Len(a) = Cardinality(WantingIn(h, s, Len(h)))
  /\ \A i \in WantingIn(h, s, Len(h)) : a[Cardinality(WantingIn(h, s, i))] = ReplyTo(h[i], s)

LEMMA RepliesAreAnswers ==
  /\ RepliesInOrder <=> Answers(executed, script, replies \o owed)
  /\ RepliesInOrder' <=> Answers(executed', script', replies' \o owed')
BY DEF RepliesInOrder, Answers, Wanting, WantingIn, Wants, ReplyTo

\* Positions among n places: no more than there are places.
LEMMA WantingCount ==
  ASSUME NEW h, NEW s, NEW n \in Nat
  PROVE  /\ IsFiniteSet(WantingIn(h, s, n))
         /\ Cardinality(WantingIn(h, s, n)) \in 0 .. n
<1>1. IsFiniteSet(1 .. n) /\ Cardinality(1 .. n) = n
  <2>1. 1 \in Int /\ n \in Int /\ n - 1 + 1 = n
    OBVIOUS
  <2> QED BY <2>1, FS_Interval
<1>2. WantingIn(h, s, n) \in SUBSET (1 .. n)
  BY DEF WantingIn
<1>3. /\ IsFiniteSet(WantingIn(h, s, n))
      /\ Cardinality(WantingIn(h, s, n)) <= n
  BY <1>1, <1>2, FS_Subset
<1> QED BY <1>3, FS_CardinalityType

\* One more request, answered when it wants an answer.
LEMMA AnswersGrow ==
  ASSUME NEW T, NEW R, NEW h \in Seq(T), NEW s, NEW a \in Seq(R), Answers(h, s, a),
         NEW e \in T, NEW b,
         IF Wants(e, s) THEN ReplyTo(e, s) \in R /\ b = Append(a, ReplyTo(e, s)) ELSE b = a
  PROVE  Answers(Append(h, e), s, b)
<1> DEFINE g == Append(h, e)
           n == Len(h)
<1>1. /\ n \in Nat /\ Len(g) = n + 1 /\ g[n + 1] = e
      /\ \A i \in 1 .. n : g[i] = h[i]
  BY AppendProperties, LenProperties
<1> HIDE DEF g, n
<1>2. \A k \in 0 .. n : WantingIn(g, s, k) = WantingIn(h, s, k)
  BY <1>1 DEF WantingIn
<1>3. WantingIn(g, s, n + 1) = IF Wants(e, s) THEN WantingIn(h, s, n) \cup {n + 1} ELSE WantingIn(h, s, n)
  <2>1. 1 .. n + 1 = (1 .. n) \cup {n + 1}
    BY <1>1
  <2> QED BY <1>1, <2>1 DEF WantingIn
<1>4. /\ IsFiniteSet(WantingIn(h, s, n)) /\ n + 1 \notin WantingIn(h, s, n)
      /\ Cardinality(WantingIn(h, s, n)) \in Nat
      /\ WantingIn(h, s, n) \subseteq 1 .. n
  <2>1. WantingIn(h, s, n) \subseteq 1 .. n /\ n + 1 \notin 1 .. n
    BY <1>1 DEF WantingIn
  <2> QED BY <1>1, <2>1, WantingCount
<1>5. /\ Len(a) = Cardinality(WantingIn(h, s, n))
      /\ \A i \in WantingIn(h, s, n) : a[Cardinality(WantingIn(h, s, i))] = ReplyTo(h[i], s)
  BY DEF Answers, n
<1>6. ASSUME NEW i \in WantingIn(h, s, n)
      PROVE  /\ i \in 1 .. n /\ g[i] = h[i] /\ WantingIn(g, s, i) = WantingIn(h, s, i)
             /\ Cardinality(WantingIn(h, s, i)) \in 1 .. Len(a)
  <2>1. i \in 1 .. n /\ i \in 0 .. n /\ i \in Nat
    BY <1>1, <1>4
  <2>2. WantingIn(h, s, i) \in SUBSET WantingIn(h, s, n)
    BY <1>1, <2>1 DEF WantingIn
  <2>3. Cardinality(WantingIn(h, s, i)) <= Len(a)
    BY <1>4, <1>5, <2>2, FS_Subset
  <2>4. IsFiniteSet(WantingIn(h, s, i)) /\ Cardinality(WantingIn(h, s, i)) \in 0 .. i
    BY <2>1, WantingCount
  <2>5. i \in WantingIn(h, s, i)
    BY <2>1 DEF WantingIn
  <2>6. Cardinality(WantingIn(h, s, i)) # 0
    BY <2>4, <2>5, FS_EmptySet
  <2> QED BY <1>1, <1>2, <1>4, <1>5, <2>1, <2>3, <2>4, <2>6
<1>7. CASE Wants(e, s)
  <2>1. Cardinality(WantingIn(g, s, n + 1)) = Len(a) + 1
    BY <1>3, <1>4, <1>5, <1>7, FS_AddElement
  <2>2. /\ Len(b) = Len(a) + 1 /\ b[Len(a) + 1] = ReplyTo(e, s)
        /\ \A i \in 1 .. Len(a) : b[i] = a[i]
    BY <1>7, AppendProperties
  <2>3. ASSUME NEW i \in WantingIn(g, s, n + 1)
        PROVE  b[Cardinality(WantingIn(g, s, i))] = ReplyTo(g[i], s)
    <3>1. CASE i = n + 1
      BY <1>1, <2>1, <2>2, <3>1
    <3>2. CASE i \in WantingIn(h, s, n)
      BY <1>5, <1>6, <2>2, <3>2
    <3> QED BY <1>3, <1>7, <3>1, <3>2
  <2>4. Len(g) = n + 1
    BY <1>1
  <2> QED BY <2>1, <2>2, <2>3, <2>4 DEF Answers, g
<1>8. CASE ~Wants(e, s)
  <2>1. b = a /\ WantingIn(g, s, n + 1) = WantingIn(h, s, n)
    BY <1>3, <1>8
  <2>2. \A i \in WantingIn(g, s, n + 1) : b[Cardinality(WantingIn(g, s, i))] = ReplyTo(g[i], s)
    BY <1>5, <1>6, <2>1
  <2>3. Len(g) = n + 1
    BY <1>1
  <2> QED BY <1>5, <2>1, <2>2, <2>3 DEF Answers, g
<1> QED BY <1>7, <1>8

-----------------------------------------------------------------------------
(* The history.                                                              *)
LEMMA HistorySame ==
  ASSUME History, UNCHANGED <<script, executed, owed, replies>>,
         got' \in 0 .. Len(replies), Len(replies) - got' <= SocketRoom,
         phase' \in {phase, "closed"} \/ executed = <<>>
  PROVE  History'
<1>1. executed = <<>> => DOMAIN executed = {}
  BY EmptySeq, LenProperties
<1>2. RequestsInOrder'
  BY <1>1 DEF History, RequestsInOrder
<1>3. RepliesInOrder'
  BY RepliesAreAnswers DEF History
<1>4. ExecutedType' = ExecutedType /\ ReplyType' = ReplyType
  BY DEF ExecutedType, ReplyType, ScriptMessages
<1> QED BY <1>2, <1>3, <1>4 DEF History

LEMMA HistoryWrites ==
  ASSUME History, UNCHANGED <<script, executed, phase, got>>,
         replies' = replies \o owed, owed' = <<>>, owed # <<>>, Len(replies) - got < SocketRoom
  PROVE  History'
<1>1. replies \in Seq(ReplyType) /\ owed \in Seq(ReplyType) /\ Len(owed) <= 1
  BY DEF History
<1>2. /\ replies \o owed \in Seq(ReplyType) /\ Len(replies \o owed) = Len(replies) + Len(owed)
      /\ Len(replies) \in Nat /\ Len(owed) \in Nat
  BY <1>1, ConcatProperties, LenProperties
<1>3. (replies \o owed) \o <<>> = replies \o owed
  BY <1>2, ConcatEmptySeq
<1>4. RepliesInOrder'
  <2>1. Answers(executed, script, replies \o owed)
    BY RepliesAreAnswers DEF History
  <2> QED BY <1>3, <2>1, RepliesAreAnswers
<1>5. RequestsInOrder'
  BY DEF History, RequestsInOrder
<1>6. ExecutedType' = ExecutedType /\ ReplyType' = ReplyType
  BY DEF ExecutedType, ReplyType, ScriptMessages
<1>7. /\ replies' \in Seq(ReplyType) /\ owed' \in Seq(ReplyType) /\ Len(owed') <= 1
      /\ got' \in 0 .. Len(replies') /\ Len(replies') - got' <= SocketRoom
  <2>1. owed' \in Seq(ReplyType) /\ Len(owed') = 0
    BY EmptySeq
  <2>2. SocketRoom \in Nat /\ got \in 0 .. Len(replies)
    BY SizesAssumption DEF History
  <2> QED BY <1>1, <1>2, <2>1, <2>2
<1> QED BY <1>4, <1>5, <1>6, <1>7 DEF History

\* Any step that ends the connection, or that concerns the client alone.
LEMMA QuietStep ==
  ASSUME IInv, UNCHANGED <<script, next, socket, buf, executed, owed, replies>>,
         phase' \in {phase, "closed"}, shut' \in BOOLEAN, gone' \in BOOLEAN,
         got' \in 0 .. Len(replies), Len(replies) - got' <= SocketRoom
  PROVE  IInv'
<1>1. Flow' /\ Ahead' = Ahead
  BY FlowSame DEF IInv
<1>2. History'
  BY HistorySame DEF IInv
<1>3. Heads'
  BY <1>1 DEF IInv, Heads
<1>4. Flags' /\ PreambleBounded'
  BY DEF IInv, Flags, PreambleBounded
<1> QED BY <1>1, <1>2, <1>3, <1>4 DEF IInv

LEMMA ClosedStep ==
  ASSUME IInv, Close, UNCHANGED client
  PROVE  IInv'
<1>1. UNCHANGED <<script, next, socket, buf, executed, owed, replies, shut, gone, got>> /\ phase' = "closed"
  BY DEF Close, client
<1>2. /\ shut \in BOOLEAN /\ gone \in BOOLEAN
      /\ got \in 0 .. Len(replies) /\ Len(replies) - got <= SocketRoom
  BY DEF IInv, Flags, History
<1> QED BY <1>1, <1>2, QuietStep

\* What is known of the message in front when a frame of it is complete.
LEMMA FrontMessage ==
  ASSUME Flow, Heads, History, phase = "serving", HasFrame, NEW i, i = buf[1].msg
  PROVE  /\ i = Len(executed) + 2 /\ i \in 2 .. Len(script) /\ script[i].kind = "message"
         /\ FrameLength = script[i].size /\ FrameLength \in 1 .. Len(buf)
         /\ Ahead[FrameLength + 1] = Unit(i + 1, 1)
<1>1. buf # <<>> /\ ~LengthInvalid /\ FrameLength > 0
  BY DEF HasFrame, FrameLength
<1>2. /\ Len(buf) \in Nat \ {0} /\ 1 \in 1 .. Len(buf)
      /\ Ahead[1] = buf[1] /\ buf[1] \in UnitType /\ Len(Ahead) \in Nat /\ Len(buf) < Len(Ahead)
  <2>1. Len(buf) \in Nat \ {0}
    BY <1>1, EmptySeq DEF Flow
  <2> QED BY <2>1, AheadUnits
<1>3. buf[1] = Unit(Len(executed) + 2, 1)
  BY <1>2 DEF Heads
<1>4. i = Len(executed) + 2 /\ i \in 1 .. Len(script)
  BY <1>2, <1>3 DEF Unit, UnitType
<1>5. i \in 2 .. Len(script) /\ i \in DOMAIN script
  <2>1. Len(script) \in Nat /\ DOMAIN script = 1 .. Len(script)
    BY ScriptFacts DEF Flow
  <2>2. i # 1
    BY <1>4, LenProperties DEF History
  <2> QED BY <1>4, <2>1, <2>2
<1>6. script[i].kind = "message"
  BY <1>1, <1>5, ScriptFacts DEF LengthInvalid, Requests, Flow
<1>7. FrameLength = script[i].size /\ FrameLength \in 1 .. Len(buf)
  <2>1. script[i].size \in Nat \ {0}
    BY <1>5, ScriptFacts DEF Flow
  <2> QED BY <1>1, <1>2, <2>1 DEF FrameLength
<1>8. Ahead[FrameLength + 1] = Unit(i + 1, 1)
  <2>1. Ahead[1] = Unit(i, 1) /\ script[i].size < Len(Ahead)
    BY <1>2, <1>3, <1>4, <1>7
  <2> QED BY <1>5, <1>7, <2>1, AheadUnits, NextMessage DEF Flow
<1> QED BY <1>4, <1>5, <1>6, <1>7, <1>8

LEMMA DispatchStep ==
  ASSUME IInv, Dispatch
  PROVE  IInv'
<1> DEFINE i == buf[1].msg
           m == script[i].message
<1>1. /\ phase = "serving" /\ owed = <<>> /\ HasFrame
      /\ UNCHANGED <<script, next, shut, gone, got>>
  BY DEF Dispatch, client
<1>2. /\ i = Len(executed) + 2 /\ i \in 2 .. Len(script) /\ script[i].kind = "message"
      /\ FrameLength \in 1 .. Len(buf) /\ Ahead[FrameLength + 1] = Unit(i + 1, 1)
  BY <1>1, FrontMessage DEF IInv
<1>3. Len(executed) \in Nat /\ DOMAIN executed = 1 .. Len(executed) /\ executed \in Seq(ExecutedType)
  BY LenProperties DEF IInv, History
<1>4. CASE Commands(m) = {} /\ Close
  BY <1>4, ClosedStep DEF Dispatch
<1>5. ASSUME NEW c \in Commands(m), NEW reply \in Execute(c),
             buf' = SubSeq(buf, FrameLength + 1, Len(buf)),
             executed' = Append(executed, [msg |-> i, command |-> c, reply |-> reply]),
             owed' = IF Answered(m, reply) THEN <<Reply(m, reply)>> ELSE <<>>,
             phase' = IF reply = "failed" THEN "closed" ELSE phase,
             UNCHANGED <<socket, replies>>
      PROVE  IInv'
  <2> DEFINE e == [msg |-> i, command |-> c, reply |-> reply]
  <2>1. Flow' /\ Ahead'[1] = Unit(i + 1, 1)
    <3>1. FrameLength \in 0 .. Len(buf)
      BY <1>2
    <3>2. Flow
      BY DEF IInv
    <3>3. Flow' /\ Ahead'[1] = Ahead[FrameLength + 1]
      BY <1>1, <1>5, <3>1, <3>2, FlowTakes
    <3> QED BY <1>2, <3>3
  <2>2. m \in ScriptMessages
    BY <1>2, ScriptFacts DEF ScriptMessages, IInv, Flow
  <2>3. e \in ExecutedType
    BY <1>2, <2>2 DEF ExecutedType
  <2>4. /\ executed' \in Seq(ExecutedType) /\ Len(executed') = Len(executed) + 1
        /\ DOMAIN executed' = 1 .. Len(executed) + 1
        /\ executed'[Len(executed) + 1] = e
        /\ \A k \in 1 .. Len(executed) : executed'[k] = executed[k]
    <3> HIDE DEF e, i, m
    <3>1. executed' = Append(executed, e)
      BY <1>5 DEF e
    <3>2. /\ Append(executed, e) \in Seq(ExecutedType) /\ Len(Append(executed, e)) = Len(executed) + 1
          /\ Append(executed, e)[Len(executed) + 1] = e
          /\ \A k \in 1 .. Len(executed) : Append(executed, e)[k] = executed[k]
      BY <1>3, <2>3, AppendProperties
    <3>3. DOMAIN Append(executed, e) = 1 .. Len(executed) + 1
      BY <3>2, LenProperties
    <3> QED BY <3>1, <3>2, <3>3
  <2>5. Heads'
    <3>1. phase' \in {"serving", "closed"}
      BY <1>1, <1>5
    <3>2. i + 1 = Len(executed') + 2
      BY <1>2, <1>3, <2>4
    <3> QED BY <2>1, <3>1, <3>2 DEF Heads
  <2>6. RequestsInOrder'
    <3>1. ASSUME NEW k \in DOMAIN executed'
          PROVE  /\ executed'[k].msg = k + 1
                 /\ script[k + 1].kind = "message"
                 /\ executed'[k].command \in Commands(script[k + 1].message)
                 /\ executed'[k].reply = "failed" => k = Len(executed') /\ phase' = "closed"
      <4>1. CASE k = Len(executed) + 1
        <5>1. i = k + 1
          BY <1>2, <1>3, <4>1
        <5> QED BY <1>2, <1>5, <2>4, <4>1, <5>1
      <4>2. CASE k \in 1 .. Len(executed)
        <5>1. /\ executed[k].msg = k + 1
              /\ script[k + 1].kind = "message"
              /\ executed[k].command \in Commands(script[k + 1].message)
              /\ executed[k].reply # "failed"
          BY <1>1, <1>3, <4>2 DEF IInv, History, RequestsInOrder
        <5> QED BY <2>4, <4>2, <5>1
      <4> QED BY <1>3, <2>4, <4>1, <4>2
    <3> QED BY <1>1, <3>1 DEF RequestsInOrder
  <2>7. /\ Wants(e, script) <=> Answered(m, reply)
        /\ Wants(e, script) => Reply(m, reply) \in ReplyType /\ Reply(m, reply) = ReplyTo(e, script)
    <3>1. m.opCode \in {"OP_MSG", "OP_QUERY"}
      <4>1. Decodes(m)
        BY DEF Commands
      <4> QED BY <4>1 DEF Decodes
    <3>2. /\ e.reply = reply /\ e.msg = i
      OBVIOUS
    <3> HIDE DEF e, i
    <3>3. Wants(e, script) <=> Answered(m, reply)
      BY <3>1, <3>2 DEF Wants, Answered, MoreToCome
    <3>4. Wants(e, script) => Reply(m, reply) \in ReplyType
      BY <2>2, <3>2 DEF Wants, ReplyType
    <3>5. Reply(m, reply) = ReplyTo(e, script)
      BY <3>1, <3>2 DEF Reply, ReplyTo, Format
    <3> QED BY <3>3, <3>4, <3>5
  <2>8. /\ RepliesInOrder'
        /\ owed' \in Seq(ReplyType) /\ Len(owed') <= 1
    <3> HIDE DEF e, i, m
    <3>1. /\ replies \in Seq(ReplyType) /\ replies \o <<>> = replies
          /\ Answers(executed, script, replies \o owed)
      BY RepliesAreAnswers, ConcatEmptySeq DEF IInv, History
    <3>2. Answers(executed, script, replies)
      BY <1>1, <3>1
    <3>3. CASE Wants(e, script)
      <4>1. owed' = <<ReplyTo(e, script)>> /\ ReplyTo(e, script) \in ReplyType
        BY <1>5, <2>7, <3>3
      <4>2. replies' \o owed' = Append(replies, ReplyTo(e, script))
        BY <1>5, <3>1, <4>1, AppendIsConcat
      <4>3. Answers(Append(executed, e), script, replies' \o owed')
        BY <1>3, <2>3, <3>1, <3>2, <3>3, <4>1, <4>2, AnswersGrow
      <4> QED BY <1>1, <1>5, <4>1, <4>3, RepliesAreAnswers DEF e
    <3>4. CASE ~Wants(e, script)
      <4>1. owed' = <<>> /\ owed' \in Seq(ReplyType) /\ Len(owed') = 0
        BY <1>5, <2>7, <3>4, EmptySeq
      <4>2. replies' \o owed' = replies
        BY <1>5, <3>1, <4>1
      <4>3. Answers(Append(executed, e), script, replies' \o owed')
        BY <1>3, <2>3, <3>1, <3>2, <3>4, <4>2, AnswersGrow
      <4> QED BY <1>1, <1>5, <4>1, <4>3, RepliesAreAnswers DEF e
    <3> QED BY <3>3, <3>4
  <2>9. History'
    <3>1. ExecutedType' = ExecutedType /\ ReplyType' = ReplyType
      BY <1>1 DEF ExecutedType, ReplyType, ScriptMessages
    <3>2. \A k \in DOMAIN executed' : executed'[k].reply \in Execute(executed'[k].command)
      <4>1. \A k \in 1 .. Len(executed) : executed[k].reply \in Execute(executed[k].command)
        BY <1>3 DEF IInv, History
      <4>2. e.reply \in Execute(e.command)
        OBVIOUS
      <4> HIDE DEF e
      <4> QED BY <1>3, <2>4, <4>1, <4>2
    <3>3. /\ replies' \in Seq(ReplyType)
          /\ got' \in 0 .. Len(replies') /\ Len(replies') - got' <= SocketRoom
      BY <1>1, <1>5 DEF IInv, History
    <3> HIDE DEF e, i, m
    <3> QED BY <2>4, <2>6, <2>8, <3>1, <3>2, <3>3 DEF History
  <2>10. Flags' /\ PreambleBounded'
    BY <1>1, <1>5 DEF IInv, Flags, PreambleBounded
  <2> QED BY <2>1, <2>5, <2>9, <2>10 DEF IInv
<1> QED BY <1>4, <1>5 DEF Dispatch

-----------------------------------------------------------------------------
(* The other steps.                                                          *)
\* A read, while the preamble is incomplete or the buffer holds no frame.
LEMMA ReadStep ==
  ASSUME IInv, NEW cap \in Nat, Read(cap), UNCHANGED client,
         phase = "preamble" => cap = PreambleRead /\ PreambleFits
  PROVE  IInv'
<1>1. CASE Close
  BY <1>1, ClosedStep
<1>2. ASSUME NEW n \in 1 .. cap, n <= Len(socket),
             buf' = buf \o SubSeq(socket, 1, n), socket' = SubSeq(socket, n + 1, Len(socket)),
             UNCHANGED <<phase, executed, owed, replies>>
      PROVE  IInv'
  <2>1. UNCHANGED <<script, next, shut, gone, got>>
    BY DEF client
  <2>2. n \in 1 .. Len(socket) /\ Len(buf) \in Nat
    BY <1>2, AheadUnits DEF IInv
  <2>3. Flow' /\ Ahead' = Ahead /\ Len(buf') = Len(buf) + n
    BY <1>2, <2>1, <2>2, FlowReads DEF IInv
  <2>4. History'
    BY <1>2, <2>1, HistorySame DEF IInv, History
  <2>5. PreambleBounded'
    BY <1>2, <2>2, <2>3, SizesAssumption DEF PreambleBounded, PreambleFits
  <2> QED BY <1>2, <2>1, <2>3, <2>4, <2>5 DEF IInv, Heads, Flags
<1> QED BY <1>1, <1>2 DEF Read

LEMMA ParseLineStep ==
  ASSUME IInv, ParseLine
  PROVE  IInv'
<1>1. CASE Close
  BY <1>1, ClosedStep DEF ParseLine
<1>2. CASE /\ phase' = "acquire" /\ buf' = AfterLine
           /\ UNCHANGED <<socket, executed, owed, replies>>
  <2> DEFINE k == CHOOSE j \in DOMAIN buf : Newline(buf[j])
  <2>1. phase = "preamble" /\ UNCHANGED <<script, next, shut, gone, got>>
    BY DEF ParseLine, client
  <2>2. k \in DOMAIN buf /\ Newline(buf[k])
    BY DEF ParseLine, HasLine
  <2>3. /\ Len(buf) \in Nat /\ DOMAIN buf = 1 .. Len(buf) /\ Len(Ahead) > Len(buf)
        /\ Len(Ahead) \in Nat /\ DOMAIN Ahead = 1 .. Len(Ahead)
        /\ \A i \in 1 .. Len(buf) : Ahead[i] = buf[i]
    BY AheadUnits, AheadFacts DEF IInv
  <2>4. buf' = SubSeq(buf, k + 1, Len(buf))
    BY <1>2 DEF AfterLine
  <2> HIDE DEF k
  <2>5. Ahead[k] = Unit(1, script[1].size) /\ k \in DOMAIN Ahead /\ k < Len(Ahead) /\ k \in 0 .. Len(buf)
    BY <2>2, <2>3 DEF Newline
  <2>6. Ahead[k + 1] = Unit(2, 1)
    <3>1. Ahead[k + 1] = After(Ahead[k])
      BY <2>5 DEF IInv, Flow, Runs
    <3>2. script[1].size \in Nat
      BY ScriptFacts DEF IInv, Flow
    <3> QED BY <2>5, <3>1, <3>2 DEF After, Unit
  <2>7. Flow' /\ Ahead'[1] = Unit(2, 1)
    BY <1>2, <2>1, <2>4, <2>5, <2>6, FlowTakes DEF IInv
  <2>8. executed = <<>> /\ Len(executed) = 0
    BY <2>1 DEF IInv, Heads
  <2>9. History'
    BY <1>2, <2>1, <2>8, HistorySame DEF IInv, History
  <2>10. Heads' /\ Flags' /\ PreambleBounded'
    BY <1>2, <2>1, <2>7, <2>8 DEF IInv, Heads, Flags, PreambleBounded
  <2> QED BY <2>7, <2>9, <2>10 DEF IInv
<1> QED BY <1>1, <1>2 DEF ParseLine

LEMMA AcquireStep ==
  ASSUME IInv, Acquire
  PROVE  IInv'
<1>1. CASE Close
  BY <1>1, ClosedStep DEF Acquire
<1>2. CASE phase' = "serving" /\ UNCHANGED <<socket, buf, executed, owed, replies>>
  <2>1. phase = "acquire" /\ UNCHANGED <<script, next, shut, gone, got>>
    BY DEF Acquire, client
  <2>2. Flow' /\ Ahead' = Ahead
    BY <1>2, <2>1, FlowSame DEF IInv
  <2>3. executed = <<>>
    BY <2>1 DEF IInv, Heads
  <2>4. History'
    BY <1>2, <2>1, <2>3, HistorySame DEF IInv, History
  <2>5. Heads' /\ Flags' /\ PreambleBounded'
    BY <1>2, <2>1, <2>2, <2>3 DEF IInv, Heads, Flags, PreambleBounded
  <2> QED BY <2>2, <2>4, <2>5 DEF IInv
<1> QED BY <1>1, <1>2 DEF Acquire

LEMMA WriteReplyStep ==
  ASSUME IInv, WriteReply
  PROVE  IInv'
<1>1. CASE Close
  BY <1>1, ClosedStep DEF WriteReply
<1>2. CASE /\ ~gone /\ Len(replies) - got < SocketRoom
           /\ replies' = replies \o owed /\ owed' = <<>>
           /\ UNCHANGED <<socket, buf, phase, executed>>
  <2>1. owed # <<>> /\ UNCHANGED <<script, next, shut, gone, got>>
    BY DEF WriteReply, client
  <2>2. Flow' /\ Ahead' = Ahead
    BY <1>2, <2>1, FlowSame DEF IInv
  <2>3. History'
    BY <1>2, <2>1, HistoryWrites DEF IInv
  <2>4. Heads' /\ Flags' /\ PreambleBounded'
    BY <1>2, <2>1, <2>2 DEF IInv, Heads, Flags, PreambleBounded
  <2> QED BY <2>2, <2>3, <2>4 DEF IInv
<1> QED BY <1>1, <1>2 DEF WriteReply

LEMMA ClientStep ==
  ASSUME IInv, ClientWrite \/ ClientShut \/ ClientReset \/ ClientRead
  PROVE  IInv'
<1>1. CASE ClientWrite
  <2>1. UNCHANGED <<script, shut, gone, got, buf, phase, executed, owed, replies>>
    BY <1>1 DEF ClientWrite
  <2>2. Flow' /\ Ahead'[1] = Ahead[1]
    BY <1>1, FlowWrites DEF IInv
  <2>3. History'
    BY <2>1, HistorySame DEF IInv, History
  <2> QED BY <2>1, <2>2, <2>3 DEF IInv, Heads, Flags, PreambleBounded
<1>2. CASE ClientShut
  BY <1>2, QuietStep DEF ClientShut, IInv, Flags, History
<1>3. CASE ClientReset
  BY <1>3, QuietStep DEF ClientReset, IInv, Flags, History
<1>4. CASE ClientRead
  <2>1. Len(replies) \in Nat
    BY LenProperties DEF IInv, History
  <2>2. /\ got' \in 0 .. Len(replies) /\ Len(replies) - got' <= SocketRoom
    BY <1>4, <2>1, SizesAssumption DEF ClientRead, IInv, History
  <2> QED BY <1>4, <2>2, QuietStep DEF ClientRead, IInv, Flags
<1> QED BY <1>1, <1>2, <1>3, <1>4

LEMMA InitIInv == Init => IInv
<1> SUFFICES ASSUME Init PROVE IInv
  OBVIOUS
<1>1. Len(script) \in Nat \ {0} /\ script[1].size \in Nat \ {0} /\ 1 \in DOMAIN script
  BY ScriptFacts DEF Init
<1>2. next \in AheadType /\ next.msg \in 1 .. (Len(script) + 1) /\ InScript(next)
  BY <1>1 DEF Init, Unit, AheadType, InScript
<1>3. \A S : <<>> \in Seq(S) /\ Len(<<>>) = 0
  BY EmptySeq
<1>4. Ahead = <<next>> /\ Len(Ahead) = 1 /\ DOMAIN Ahead = 1 .. 1 /\ Ahead[1] = next
  <2>1. buf \o socket = <<>>
    BY <1>3, ConcatEmptySeq DEF Init
  <2> QED BY <2>1 DEF Ahead
<1>5. Runs(Ahead)
  BY <1>4 DEF Runs
<1>6. Flow
  BY <1>2, <1>3, <1>5 DEF Init, Flow
<1>7. Heads /\ Flags
  BY <1>4 DEF Init, Heads, Flags
<1>8. RepliesInOrder
  <2>1. WantingIn(executed, script, 0) = {} /\ Len(executed) = 0
    BY <1>3 DEF WantingIn, Init
  <2>2. replies \o owed = <<>>
    BY <1>3, ConcatEmptySeq DEF Init
  <2>3. Len(replies \o owed) = 0 /\ Cardinality({}) = 0
    BY <1>3, <2>2, FS_EmptySet
  <2> QED BY <2>1, <2>3, RepliesAreAnswers DEF Answers
<1>9. RequestsInOrder
  BY DEF Init, RequestsInOrder
<1>10. SocketRoom \in Nat /\ MAX_PREAMBLE_LEN \in Nat /\ PreambleRead \in Nat
  BY SizesAssumption
<1>11. History
  BY <1>3, <1>8, <1>9, <1>10 DEF Init, History
<1>12. PreambleBounded
  BY <1>3, <1>10 DEF Init, PreambleBounded
<1> QED BY <1>6, <1>7, <1>11, <1>12 DEF IInv

LEMMA NextIInv == IInv /\ [Next]_vars => IInv'
<1> SUFFICES ASSUME IInv, [Next]_vars PROVE IInv'
  OBVIOUS
<1>1. CASE ClientWrite \/ ClientShut \/ ClientReset \/ ClientRead
  BY <1>1, ClientStep
<1>2. CASE ParseLine
  BY <1>2, ParseLineStep
<1>3. CASE ReadPreamble
  <2>1. CASE Close
    BY <1>3, <2>1, ClosedStep DEF ReadPreamble
  <2>2. CASE PreambleFits /\ Read(PreambleRead)
    BY <1>3, <2>2, SizesAssumption, ReadStep DEF ReadPreamble
  <2> QED BY <1>3, <2>1, <2>2 DEF ReadPreamble
<1>4. CASE PreambleEnds \/ InvalidLength \/ Ends
  BY <1>4, ClosedStep DEF PreambleEnds, InvalidLength, Ends
<1>5. CASE Acquire
  BY <1>5, AcquireStep
<1>6. CASE Dispatch
  BY <1>6, DispatchStep
<1>7. CASE WriteReply
  BY <1>7, WriteReplyStep
<1>8. CASE ReadMore
  BY <1>8, SizesAssumption, ReadStep DEF ReadMore, Serving
<1>9. CASE UNCHANGED vars
  BY <1>9, QuietStep DEF vars, IInv, Flags, History
<1> QED BY <1>1, <1>2, <1>3, <1>4, <1>5, <1>6, <1>7, <1>8, <1>9 DEF Next, Server

\* No fairness is needed for any of it.
THEOREM Invariance == Spec => []IInv
BY InitIInv, NextIInv, PTL DEF Spec

\* Every variable of a connection keeps its type, for any script, limits and cuts
\* of the stream; no more replies are written or owed than requests executed.
THEOREM TypeCorrect == Spec => []TypeOK
<1>1. IInv => TypeOK
  <2> SUFFICES ASSUME IInv PROVE TypeOK
    OBVIOUS
  <2>1. Len(replies) + Len(owed) <= Len(executed)
    <3>1. Len(executed) \in Nat
      BY LenProperties DEF IInv, History
    <3>2. Len(replies \o owed) = Cardinality(WantingIn(executed, script, Len(executed)))
      BY RepliesAreAnswers DEF IInv, History, Answers
    <3>3. Len(replies \o owed) = Len(replies) + Len(owed)
      BY ConcatProperties DEF IInv, History
    <3>4. Cardinality(WantingIn(executed, script, Len(executed))) \in 0 .. Len(executed)
      BY <3>1, WantingCount
    <3> QED BY <3>1, <3>2, <3>3, <3>4
  <2>2. \A i \in DOMAIN executed : executed[i].msg \in 2 .. Len(script)
    <3>1. \A i \in DOMAIN executed : executed[i] \in ExecutedType
      BY LenProperties, ElementOfSeq DEF IInv, History
    <3> QED BY <3>1 DEF ExecutedType
  <2> QED BY <2>1, <2>2 DEF IInv, Flow, Flags, History, TypeOK
<1> QED BY <1>1, Invariance, PTL

\* Whatever the script, the sizes of its messages, the limits and the cuts of the
\* stream: requests are executed in order, each once, none left out.
THEOREM InOrder == Spec => []RequestsInOrder
<1>1. IInv => RequestsInOrder
  BY DEF IInv, History
<1> QED BY <1>1, Invariance, PTL

\* The replies written or owed are exactly those of the requests that want one,
\* in order, under the requestID and in the format of each.
THEOREM Replied == Spec => []RepliesInOrder
<1>1. IInv => RepliesInOrder
  BY DEF IInv, History
<1> QED BY <1>1, Invariance, PTL

\* The preamble's buffer stays bounded for any limit and any size of a read.
THEOREM PreambleFitsLimit == Spec => []PreambleBounded
<1>1. IInv => PreambleBounded
  BY DEF IInv
<1> QED BY <1>1, Invariance, PTL
=============================================================================
