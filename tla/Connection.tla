----------------------------- MODULE Connection -----------------------------
(* One client connection of the gateway: the MONA preamble (mona-gateway,
   preamble.rs), the tenant's acquisition, and the request loop of mona-db
   (server/connection.rs) over frames (wire/mod.rs), whose content module
   Messages decodes and dispatches.

   The client writes a preamble and then messages, possibly many before it
   reads a reply; TCP hands the server any non-empty piece of what was written.
   A message is a run of units, written one by one: the first holds the length
   of the message, and a preamble's last unit is the newline.                *)
EXTENDS Messages

CONSTANTS
  Scripts,          \* what clients send: an opener, then requests
  MAX_PREAMBLE_LEN, \* longest preamble without newline that is read on
  PreambleRead,     \* most units of a read while the preamble is incomplete
  READ_BUFFER_SIZE, \* most units of a read after that
  SocketRoom        \* replies the socket takes before the client reads

Openers == {"preamble", "malformed", "endless"}
Requests == {"message", "short"}

ASSUME ScriptsAssumption ==
  \A s \in Scripts :
    /\ s # <<>> /\ Len(s) \in Nat /\ DOMAIN s = 1 .. Len(s)
    /\ \A i \in DOMAIN s : s[i].size \in Nat \ {0}
    /\ s[1].kind \in Openers /\ \A i \in 2 .. Len(s) : s[i].kind \in Requests
    /\ \A i, j \in {k \in DOMAIN s : s[k].kind = "message"} :
         s[i].message.requestId = s[j].message.requestId => i = j

\* a BSON value has one type, and a number the range of its type
Typed(value) ==
  /\ \A s, t \in DOMAIN value : s = t
  /\ Is(value, "int32") => InRange(value.int32, I32MAX)
  /\ Is(value, "int64") => InRange(value.int64, I64MAX)
  /\ Is(value, "double") => value.double \in Int

FieldOK(f) ==
  /\ f = F(f.key, f.value) /\ Typed(f.value)
  /\ Is(f.value, "array") => \A i \in DOMAIN f.value.array : Typed(f.value.array[i])

ASSUME MessagesAssumption ==
  \A s \in Scripts : \A k \in {i \in DOMAIN s : s[i].kind = "message"} :
    LET sections == s[k].message.sections
    IN  /\ sections \in Seq(Range(sections))
        /\ \A i \in {j \in DOMAIN sections : sections[j].kind = "body"} :
             LET doc == sections[i].doc
             IN  doc \in Seq(Range(doc)) /\ \A j \in DOMAIN doc : FieldOK(doc[j])
ASSUME SizesAssumption ==
  /\ MAX_PREAMBLE_LEN \in Nat
  /\ {PreambleRead, READ_BUFFER_SIZE, SocketRoom} \subseteq Nat \ {0}

VARIABLES
  script,       \* what the client sends
  next,         \* the unit the client writes next
  socket,       \* units written and not read
  shut,         \* the client has shut down its side
  gone,         \* the client has reset the connection
  buf,          \* buf of read_preamble, then read_buf
  phase,        \* where handle_client is
  executed,     \* history: the commands executed, each with its message and reply
  owed,         \* the reply being written
  replies,      \* replies written
  got           \* replies the client has read

vars == <<script, next, socket, shut, gone, buf, phase, executed, owed, replies, got>>
client == <<script, next, shut, gone, got>>

Unit(i, j) == [msg |-> i, part |-> j]
After(u) == IF u.part < script[u.msg].size THEN Unit(u.msg, u.part + 1) ELSE Unit(u.msg + 1, 1)

Init ==
  /\ script \in Scripts
  /\ next = Unit(1, 1) /\ socket = <<>>
  /\ shut = FALSE /\ gone = FALSE /\ got = 0
  /\ buf = <<>> /\ phase = "preamble"
  /\ executed = <<>> /\ owed = <<>> /\ replies = <<>>

-----------------------------------------------------------------------------
ClientWrite ==
  /\ ~shut /\ ~gone /\ next.msg <= Len(script)
  /\ socket' = Append(socket, next)
  /\ next' = After(next)
  /\ UNCHANGED <<script, shut, gone, got, buf, phase, executed, owed, replies>>

ClientShut ==
  /\ ~shut /\ ~gone
  /\ shut' = TRUE
  /\ UNCHANGED <<script, next, socket, gone, got, buf, phase, executed, owed, replies>>

ClientReset ==
  /\ ~gone
  /\ gone' = TRUE
  /\ UNCHANGED <<script, next, socket, shut, got, buf, phase, executed, owed, replies>>

ClientRead ==
  /\ ~gone /\ got < Len(replies)
  /\ got' = got + 1
  /\ UNCHANGED <<script, next, socket, shut, gone, buf, phase, executed, owed, replies>>

Close ==
  /\ phase' = "closed"
  /\ UNCHANGED <<socket, buf, executed, owed, replies>>

\* stream.read, up to cap units; it fails after a reset
Read(cap) ==
  \/ gone /\ Close
  \/ /\ ~gone
     /\ \E n \in 1 .. cap :
          /\ n <= Len(socket)
          /\ buf' = buf \o SubSeq(socket, 1, n)
          /\ socket' = SubSeq(socket, n + 1, Len(socket))
     /\ UNCHANGED <<phase, executed, owed, replies>>

\* stream.read returns 0
AtEnd == ~gone /\ shut /\ socket = <<>>

-----------------------------------------------------------------------------
(* read_preamble *)
Newline(u) == script[1].kind # "endless" /\ u = Unit(1, script[1].size)
HasLine == \E i \in DOMAIN buf : Newline(buf[i])

\* broken: what was read beyond the newline is dropped
NothingAfterLine == <<>>

\* split_to the newline: the rest is leftover for the request loop
AfterLine == LET i == CHOOSE j \in DOMAIN buf : Newline(buf[j]) IN SubSeq(buf, i + 1, Len(buf))

ParseLine ==
  /\ phase = "preamble" /\ HasLine
  /\ IF script[1].kind = "preamble"
       THEN /\ phase' = "acquire" /\ buf' = AfterLine
            /\ UNCHANGED <<socket, executed, owed, replies>>
       ELSE Close
  /\ UNCHANGED client

\* broken: reads on whatever is buffered
PreambleReadable == TRUE

\* the length is looked at before a read only
PreambleFits == Len(buf) <= MAX_PREAMBLE_LEN

ReadPreamble ==
  /\ phase = "preamble" /\ ~HasLine
  /\ IF PreambleFits THEN Read(PreambleRead) ELSE Close
  /\ UNCHANGED client

PreambleEnds ==
  /\ phase = "preamble" /\ ~HasLine /\ PreambleFits /\ AtEnd
  /\ Close
  /\ UNCHANGED client

\* TenantRegistry::acquire
Acquire ==
  /\ phase = "acquire"
  /\ \/ phase' = "serving" /\ UNCHANGED <<socket, buf, executed, owed, replies>>
     \/ Close
  /\ UNCHANGED client

-----------------------------------------------------------------------------
(* handle_connection_with_buf *)

\* broken: a frame is taken as soon as its length is known
FrameOnLength ==
  IF buf = <<>> THEN 0 ELSE Min({Len(buf), script[buf[1].msg].size})

\* frame_length_available: units of the complete frame in front, 0 if none
FrameLength ==
  IF buf = <<>> THEN 0
  ELSE LET n == script[buf[1].msg].size IN IF Len(buf) < n THEN 0 ELSE n

\* the length in front is below the size of a header
LengthInvalid == buf # <<>> /\ script[buf[1].msg].kind = "short"

HasFrame == ~LengthInvalid /\ FrameLength > 0

\* broken: moreToCome is ignored
AnsweredAlways(m, reply) == reply \in {"ok", "notOk"}

\* no reply to a message with moreToCome, nor where dispatch has none to give
Answered(m, reply) == reply \in {"ok", "notOk"} /\ ~MoreToCome(m)

Reply(m, reply) == [responseTo |-> m.requestId, format |-> Format(m), reply |-> reply]

\* decode and dispatch; an error of either ends the connection
Dispatch ==
  /\ phase = "serving" /\ owed = <<>> /\ HasFrame
  /\ LET i == buf[1].msg
         m == script[i].message
     IN  \/ Commands(m) = {} /\ Close
         \/ \E c \in Commands(m) : \E reply \in Execute(c) :
              /\ buf' = SubSeq(buf, FrameLength + 1, Len(buf))
              /\ executed' = Append(executed, [msg |-> i, command |-> c, reply |-> reply])
              /\ owed' = IF Answered(m, reply) THEN <<Reply(m, reply)>> ELSE <<>>
              /\ phase' = IF reply = "failed" THEN "closed" ELSE phase
              /\ UNCHANGED <<socket, replies>>
  /\ UNCHANGED client

InvalidLength ==
  /\ phase = "serving" /\ owed = <<>> /\ LengthInvalid
  /\ Close
  /\ UNCHANGED client

\* broken: the reply stays to be written
WriteReplyAgain ==
  /\ phase = "serving" /\ owed # <<>> /\ ~gone /\ Len(replies) - got < SocketRoom
  /\ replies' = replies \o owed
  /\ UNCHANGED <<socket, buf, executed, owed, phase>>
  /\ UNCHANGED client

\* write_all waits for the client to make room, and fails after a reset
WriteReply ==
  /\ phase = "serving" /\ owed # <<>>
  /\ \/ gone /\ Close
     \/ /\ ~gone /\ Len(replies) - got < SocketRoom
        /\ replies' = replies \o owed
        /\ owed' = <<>>
        /\ UNCHANGED <<socket, buf, phase, executed>>
  /\ UNCHANGED client

Serving == phase = "serving" /\ owed = <<>> /\ ~HasFrame /\ ~LengthInvalid

ReadMore ==
  /\ Serving
  /\ Read(READ_BUFFER_SIZE)
  /\ UNCHANGED client

\* broken: with a part of a frame in the buffer the loop reads again
EndsEmpty ==
  /\ Serving /\ AtEnd /\ buf = <<>>
  /\ Close
  /\ UNCHANGED client

\* Ok, or Incomplete when a part of a frame is left over
Ends ==
  /\ Serving /\ AtEnd
  /\ Close
  /\ UNCHANGED client

Server ==
  \/ ParseLine \/ ReadPreamble \/ PreambleEnds \/ Acquire
  \/ Dispatch \/ InvalidLength \/ WriteReply \/ ReadMore \/ Ends

Next == ClientWrite \/ ClientShut \/ ClientReset \/ ClientRead \/ Server

Spec == Init /\ [][Next]_vars

\* the connection's task is scheduled, and the client reads its replies
FairSpec == Spec /\ WF_vars(Server) /\ WF_vars(ClientRead)

-----------------------------------------------------------------------------
(* Properties.                                                               *)
UnitType == [msg : 1 .. Len(script), part : Nat \ {0}]
InScript(u) == u.part <= script[u.msg].size

TypeOK ==
  /\ script \in Scripts
  /\ next.msg \in 1 .. (Len(script) + 1)
  /\ buf \in Seq(UnitType) /\ socket \in Seq(UnitType)
  /\ \A i \in DOMAIN buf : InScript(buf[i])
  /\ \A i \in DOMAIN socket : InScript(socket[i])
  /\ shut \in BOOLEAN /\ gone \in BOOLEAN
  /\ phase \in {"preamble", "acquire", "serving", "closed"}
  /\ \A i \in DOMAIN executed :
       /\ executed[i].msg \in 2 .. Len(script)
       /\ executed[i].reply \in Execute(executed[i].command)
  /\ Len(owed) <= 1 /\ Len(replies) + Len(owed) <= Len(executed)
  /\ got \in 0 .. Len(replies) /\ Len(replies) - got <= SocketRoom

\* However TCP cuts the stream, and wherever the preamble's last read ends, the
\* requests are executed one by one in the order they were sent, none twice and
\* none left out, and none after one that ends the connection.
RequestsInOrder ==
  \A i \in DOMAIN executed :
    /\ executed[i].msg = i + 1
    /\ script[i + 1].kind = "message" /\ executed[i].command \in Commands(script[i + 1].message)
    /\ executed[i].reply = "failed" => i = Len(executed) /\ phase = "closed"

\* The replies are those of the executed requests that want one, in order, each
\* under the requestID of its request and in the format the request came in.
Wanting(n) ==
  {i \in 1 .. n :
     /\ executed[i].reply \in {"ok", "notOk"}
     /\ \/ script[executed[i].msg].message.opCode = "OP_QUERY"
        \/ MoreToComeBit \notin script[executed[i].msg].message.flags}

RepliesInOrder ==
  /\ Len(replies \o owed) = Cardinality(Wanting(Len(executed)))
  /\ \A i \in Wanting(Len(executed)) :
       (replies \o owed)[Cardinality(Wanting(i))] =
         [responseTo |-> script[executed[i].msg].message.requestId,
          format |-> IF script[executed[i].msg].message.opCode = "OP_MSG" THEN "OP_MSG" ELSE "OP_REPLY",
          reply |-> executed[i].reply]

\* A message as clients must write it: no name stands in two sections
\* (mongodb-wire-protocol.md:219; of two sequences, one field twice, :181), there
\* is one body, and only OP_MSG has sequences.
Holding(m, key) ==
  {i \in DOMAIN m.sections :
     \/ m.sections[i].kind = "sequence" /\ m.sections[i].identifier = key
     \/ m.sections[i].kind = "body" /\ key \in Keys(m.sections[i].doc)}
WellFormed(m) ==
  /\ \A i, j \in Bodies(m) : i = j
  /\ \A i \in DOMAIN m.sections :
       m.sections[i].kind = "sequence" =>
         m.opCode = "OP_MSG" /\ Holding(m, m.sections[i].identifier) = {i}

\* What it says for a name: what the only section with that name holds.
Sent(m, key) ==
  IF Holding(m, key) = {} THEN None
  ELSE LET s == m.sections[CHOOSE i \in Holding(m, key) : TRUE]
       IN  IF s.kind = "body" THEN Get(s.doc, key)
           ELSE Arr([i \in DOMAIN s.docs |-> Doc(s.docs[i])])
Items(value) == [i \in DOMAIN value.array |-> value.array[i].document]

\* The integer a value means, whatever its type; no other number means one.
Integer(value) ==
  IF Is(value, "int32") THEN {value.int32}
  ELSE IF Is(value, "int64") THEN {value.int64}
  ELSE IF Is(value, "double") /\ value.double % 2 = 0 THEN {value.double \div 2}
  ELSE {}
Small(value) == {n \in Integer(value) : InRange(n, I32MAX)}
Asked(value, default) == IF value = None THEN {default} ELSE Small(value)

UpdateAsSent(op, sent) ==
  /\ op.q = Get(sent, "q").document /\ op.u = Get(sent, "u").document
  /\ op.upsert <=> Get(sent, "upsert") = [boolean |-> TRUE]
  /\ op.multi <=> Get(sent, "multi") = [boolean |-> TRUE]

\* a limit that is a double: see DeleteLimitApplied
DeleteAsSent(op, sent) ==
  LET limit == Get(sent, "limit")
  IN  /\ op.q = Get(sent, "q").document
      /\ limit = None => op.limit = 0
      /\ ~Is(limit, "double") => \A n \in Integer(limit) : op.limit = n

FindAsSent(c, m) ==
  /\ c.filter = IF Sent(m, "filter") = None THEN <<>> ELSE Sent(m, "filter").document
  /\ Sent(m, "limit") = None => c.limit = <<>>
  /\ \A n \in Small(Sent(m, "limit")) : c.limit = <<n>>
  /\ \A n \in Asked(Sent(m, "skip"), 0) : c.skip = n
  /\ \A n \in Asked(Sent(m, "batchSize"), 0) : c.batchSize = IF n = 0 THEN DEFAULT_BATCH_SIZE ELSE n

GetMoreAsSent(c, m) ==
  /\ \A n \in Integer(Sent(m, "getMore")) : InRange(n, I64MAX) => c.id = n
  /\ Sent(m, "batchSize") = None => c.batchSize = <<>>
  /\ \A n \in Small(Sent(m, "batchSize")) : c.batchSize = <<IF n = 0 THEN DEFAULT_BATCH_SIZE ELSE n>>

AsSent(c, m) ==
  /\ "target" \in DOMAIN c =>
       c.target = <<Sent(m, "$db").string, Sent(m, IF c.cmd = "getMore" THEN "collection" ELSE c.cmd).string>>
  /\ CASE c.cmd = "insert" -> c.documents = Items(Sent(m, "documents"))
       [] c.cmd = "update" ->
            LET sent == Items(Sent(m, "updates"))
            IN  /\ DOMAIN c.updates = DOMAIN sent
                /\ \A i \in DOMAIN sent : UpdateAsSent(c.updates[i], sent[i])
       [] c.cmd = "delete" ->
            LET sent == Items(Sent(m, "deletes"))
            IN  /\ DOMAIN c.deletes = DOMAIN sent
                /\ \A i \in DOMAIN sent : DeleteAsSent(c.deletes[i], sent[i])
       [] c.cmd = "killCursors" ->
            LET sent == Sent(m, "cursors").array
            IN  /\ DOMAIN c.ids = DOMAIN sent
                /\ \A i \in DOMAIN sent : \A n \in Integer(sent[i]) : InRange(n, I64MAX) => c.ids[i] = n
       [] c.cmd = "find" -> FindAsSent(c, m)
       [] c.cmd = "getMore" -> GetMoreAsSent(c, m)
       [] OTHER -> TRUE

\* Of a well-formed message, a write runs with every document, update and delete
\* that was sent for it, in a field or in a sequence wherever it stands in the
\* message, and any command with the collection, filter, cursors and options
\* sent.  Nothing is said of a message with a name in two sections, which no
\* client may send: of its documents the last sequence's are taken, and the
\* others are lost without an error (op_msg.rs:146-151).
CommandAsSent ==
  \A i \in DOMAIN executed :
    LET m == script[executed[i].msg].message
    IN  WellFormed(m) => AsSent(executed[i].command, m)

\* The ways to write an integer, and what may stand where it is written.
Spellings(n) ==
  (IF InRange(n, I32MAX) THEN {Int32(n)} ELSE {}) \cup (IF InRange(n, I64MAX) THEN {Int64(n)} ELSE {})
    \cup {Double(2 * n)}
RespelledNumber(value) == UNION {Spellings(n) : n \in Integer(value)}
RespelledItem(array, i) == {Arr([array EXCEPT ![i] = v]) : v \in RespelledNumber(array[i])}
Respelled(value) ==
  RespelledNumber(value) \cup
  (IF Is(value, "array") THEN UNION {RespelledItem(value.array, i) : i \in DOMAIN value.array} ELSE {})

\* Clients differ in the type they send a number with: for what a command is
\* taken to be it makes no difference, except that an Int64 too large for an
\* Int32 option is an error.  (A delete's limit is excepted: see below.)
NumbersKeepMeaning ==
  executed # <<>> =>
    LET e == Last(executed)
    IN  \A doc \in CommandDocument(script[e.msg].message) : \A i \in DOMAIN doc :
          \A v \in Respelled(doc[i].value) :
            Command([doc EXCEPT ![i].value = v]) \in
              {{e.command}} \cup
              (IF \A n \in Integer(v) : InRange(n, I32MAX) THEN {} ELSE {{}})

\* A delete is executed with the limits that were sent, each 0 or 1: any other is
\* an "unsupported delete limit ... (expected 0 or 1)" (write.rs:183).
DeleteLimitApplied ==
  \A i \in DOMAIN executed :
    LET c == executed[i].command
        m == script[executed[i].msg].message
    IN  WellFormed(m) /\ c.cmd = "delete" /\ executed[i].reply = "ok" =>
          \A j \in DOMAIN c.deletes :
            LET limit == Get(Items(Sent(m, "deletes"))[j], "limit")
            IN  limit = None \/ Integer(limit) = {c.deletes[j].limit}

\* The preamble's buffer never exceeds the limit by more than one read.
PreambleBounded == phase = "preamble" => Len(buf) <= MAX_PREAMBLE_LEN + PreambleRead

\* A request that was written whole, behind a good preamble and good requests,
\* is answered unless the tenant cannot be acquired, the client resets or the
\* execution of a command fails.
Good(i) ==
  /\ script[1].kind = "preamble" /\ script[1].size <= MAX_PREAMBLE_LEN + 1
  /\ \A j \in 2 .. i : script[j].kind = "message" /\ Commands(script[j].message) # {}
Whole(i) == next.msg > i
WantsReply(m) == ~MoreToCome(m) /\ \A c \in Commands(m) : c.cmd # "nothing"

RequestsAnswered ==
  \A i \in 2 .. Max({Len(s) : s \in Scripts}) :
    (i <= Len(script) /\ Good(i) /\ WantsReply(script[i].message) /\ Whole(i))
      ~> (\/ gone
          \/ phase = "closed" /\ (executed = <<>> \/ Last(executed).reply = "failed")
          \/ \E k \in DOMAIN replies :
               /\ i <= Len(script) /\ script[i].kind = "message"
               /\ replies[k].responseTo = script[i].message.requestId)

\* When the client has closed its side the connection ends, and with it the
\* tenant's guard is dropped, whatever is left in the buffer.
ConnectionEnds == (shut \/ gone) ~> phase = "closed"
=============================================================================
