------------------------------ MODULE Messages ------------------------------
(* What mona-db makes of one complete frame: decoding (wire/), the command a
   document is taken for (commands/mod.rs and the from_document functions), and
   the replies its execution can end in.

   A frame names its opcode, requestID and flag bits, then its sections and the
   number of bytes (at most five: too few for a section) behind the last one.
   A section that does not decode, for its size or its BSON, is "malformed";
   what is too short for its fixed fields has a malformed section too.  A
   document is the sequence of its fields, and a BSON value a record whose only
   field is named for its type; doubles are counted in halves.  The functions
   that may fail return the set of their results: nothing is an error.

   Queries are parsed in module Queries; here one with an unsupported operator
   stands for all that are refused.                                          *)
EXTENDS Integers, FiniteSetsExt, SequencesExt

CONSTANTS
  I32MAX, I64MAX  \* the largest integers

ASSUME WidthsAssumption == I32MAX \in Nat /\ I64MAX \in Nat /\ 101 <= I32MAX /\ I32MAX < I64MAX

DEFAULT_BATCH_SIZE == 101

\* bits of flag_bits
ChecksumPresent == 0
MoreToComeBit == 1

-----------------------------------------------------------------------------
(* Documents.                                                                *)
F(key, value) == [key |-> key, value |-> value]
Int32(n) == [int32 |-> n]
Int64(n) == [int64 |-> n]
Double(halves) == [double |-> halves]
NaN == [nan |-> TRUE]
Str(s) == [string |-> s]
Doc(fields) == [document |-> fields]
Arr(values) == [array |-> values]
None == [none |-> TRUE]

Is(value, type) == type \in DOMAIN value
Keys(doc) == {doc[i].key : i \in DOMAIN doc}
Places(doc, key) == {i \in DOMAIN doc : doc[i].key = key}
Get(doc, key) ==
  IF key \in Keys(doc) THEN doc[CHOOSE i \in Places(doc, key) : TRUE].value ELSE None

\* Document::insert keeps the place of a field it replaces
Insert(doc, key, value) ==
  IF key \in Keys(doc)
    THEN [i \in DOMAIN doc |-> IF doc[i].key = key THEN F(key, value) ELSE doc[i]]
    ELSE Append(doc, F(key, value))

-----------------------------------------------------------------------------
(* Decoding.                                                                 *)
Body(doc) == [kind |-> "body", doc |-> doc]
Sequence(identifier, docs) == [kind |-> "sequence", identifier |-> identifier, docs |-> docs]
Malformed == [kind |-> "malformed"]

Frame(opCode, requestId, flags, sections, tail) ==
  [opCode |-> opCode, requestId |-> requestId, flags |-> flags, sections |-> sections, tail |-> tail]

\* the low sixteen bits are required
KnownFlags(m) == m.flags \cap (0 .. 15) \subseteq {ChecksumPresent, MoreToComeBit}

\* four bytes at the end are a checksum when the flag says so, else a section
\* that is too short; the checksum is not compared
TailSkipped(m) == m.tail = 0 \/ (m.tail = 4 /\ ChecksumPresent \in m.flags)

\* OP_QUERY needs its query; what follows is not looked at
Decodes(m) ==
  \/ /\ m.opCode = "OP_MSG"
     /\ KnownFlags(m) /\ TailSkipped(m)
     /\ \A i \in DOMAIN m.sections : m.sections[i].kind \in {"body", "sequence"}
  \/ m.opCode = "OP_QUERY" /\ m.sections[1].kind = "body"

\* broken: a sequence's last document is left out
MergeAllButLast(doc, s) ==
  IF s.kind = "sequence"
    THEN Insert(doc, s.identifier, Arr([i \in DOMAIN s.docs \ {Len(s.docs)} |-> Doc(s.docs[i])]))
    ELSE doc

\* a sequence replaces what the document has under its name
Merge(doc, s) ==
  IF s.kind = "sequence"
    THEN Insert(doc, s.identifier, Arr([i \in DOMAIN s.docs |-> Doc(s.docs[i])]))
    ELSE doc

Merged(body, sections) ==
  LET merged[n \in 0 .. Len(sections)] ==
        IF n = 0 THEN body ELSE Merge(merged[n - 1], sections[n])
  IN  merged[Len(sections)]

\* the first body, and every sequence as a field of it
Bodies(m) == {i \in DOMAIN m.sections : m.sections[i].kind = "body"}
FirstBody(m) == m.sections[Min(Bodies(m))].doc

CommandDocument(m) ==
  IF Bodies(m) = {} THEN {}
  ELSE {IF m.opCode = "OP_QUERY" THEN FirstBody(m) ELSE Merged(FirstBody(m), m.sections)}

MoreToCome(m) == m.opCode = "OP_MSG" /\ MoreToComeBit \in m.flags
Format(m) == IF m.opCode = "OP_QUERY" THEN "OP_REPLY" ELSE "OP_MSG"

-----------------------------------------------------------------------------
(* Values of fields.                                                         *)
InRange(n, max) == n \in (-max - 1) .. max
Clamp(n, max) == Max({-max - 1, Min({n, max})})

\* `as`: towards zero, into the range
Cast(value, max) ==
  IF Is(value, "nan") THEN 0
  ELSE LET h == value.double IN Clamp(IF h < 0 THEN -((-h) \div 2) ELSE h \div 2, max)

IsDouble(value) == Is(value, "double") \/ Is(value, "nan")

\* broken: `as i32` for an Int64, which takes the low bits
NumberWrapped(value) ==
  IF Is(value, "int32") THEN {value.int32}
  ELSE IF Is(value, "int64") THEN {((value.int64 + I32MAX + 1) % (2 * I32MAX + 2)) - (I32MAX + 1)}
  ELSE IF IsDouble(value) THEN {Cast(value, I32MAX)}
  ELSE {}

Number(value) ==
  IF Is(value, "int32") THEN {value.int32}
  ELSE IF Is(value, "int64") THEN {n \in {value.int64} : InRange(n, I32MAX)}
  ELSE IF IsDouble(value) THEN {Cast(value, I32MAX)}
  ELSE {}

CursorId(value) ==
  IF Is(value, "int32") THEN {value.int32}
  ELSE IF Is(value, "int64") THEN {value.int64}
  ELSE IF IsDouble(value) THEN {Cast(value, I64MAX)}
  ELSE {}

String(value) == IF Is(value, "string") THEN {value.string} ELSE {}

NonZero(n) == IF n = 0 THEN DEFAULT_BATCH_SIZE ELSE n

\* an option that may be left out, as a sequence of at most one number
Optional(value) == IF value = None THEN {<<>>} ELSE {<<n>> : n \in Number(value)}

Skip(value) == IF value = None THEN {0} ELSE Number(value)
BatchSize(value) == IF value = None THEN {DEFAULT_BATCH_SIZE} ELSE {NonZero(n) : n \in Number(value)}
GetMoreBatchSize(value) == IF value = None THEN {<<>>} ELSE {<<NonZero(n)>> : n \in Number(value)}

\* neither Int32 nor Int64: no limit
DeleteLimit(value) == IF Is(value, "int32") \/ Is(value, "int64") THEN Number(value) ELSE {0}

\* a flag is set by the Boolean true alone
Set(value) == value = [boolean |-> TRUE]

Unsupported == {"$mod"}
Filter(value) ==
  IF value = None THEN {<<>>}
  ELSE IF Is(value, "document")
    THEN {d \in {value.document} : Keys(d) \cap Unsupported = {}}
    ELSE {}

\* one item that is refused refuses the array
Documents(value) ==
  IF Is(value, "array") /\ \A i \in DOMAIN value.array : Is(value.array[i], "document")
    THEN {[i \in DOMAIN value.array |-> value.array[i].document]}
    ELSE {}

CursorIds(value) ==
  IF Is(value, "array") /\ \A i \in DOMAIN value.array : CursorId(value.array[i]) # {}
    THEN {[i \in DOMAIN value.array |-> CHOOSE n \in CursorId(value.array[i]) : TRUE]}
    ELSE {}

Updates(value) ==
  {[i \in DOMAIN ops |-> [q |-> Get(ops[i], "q").document, u |-> Get(ops[i], "u").document,
                          upsert |-> Set(Get(ops[i], "upsert")), multi |-> Set(Get(ops[i], "multi"))]]
     : ops \in {d \in Documents(value) : \A i \in DOMAIN d :
                  Is(Get(d[i], "q"), "document") /\ Is(Get(d[i], "u"), "document")}}

Deletes(value) ==
  {[i \in DOMAIN ops |-> [q |-> Get(ops[i], "q").document,
                          limit |-> CHOOSE n \in DeleteLimit(Get(ops[i], "limit")) : TRUE]]
     : ops \in {d \in Documents(value) : \A i \in DOMAIN d :
                  Is(Get(d[i], "q"), "document") /\ DeleteLimit(Get(d[i], "limit")) # {}}}

-----------------------------------------------------------------------------
(* from_document of each command.                                            *)
Target(doc, key) == String(Get(doc, "$db")) \X String(Get(doc, key))

FindCmd(doc) ==
  {[cmd |-> "find", target |-> t, filter |-> f, limit |-> l, skip |-> s, batchSize |-> b] :
     t \in Target(doc, "find"), f \in Filter(Get(doc, "filter")), l \in Optional(Get(doc, "limit")),
     s \in Skip(Get(doc, "skip")), b \in BatchSize(Get(doc, "batchSize"))}

GetMoreCmd(doc) ==
  {[cmd |-> "getMore", target |-> t, id |-> n, batchSize |-> b] :
     t \in Target(doc, "collection"), n \in CursorId(Get(doc, "getMore")),
     b \in GetMoreBatchSize(Get(doc, "batchSize"))}

KillCursorsCmd(doc) ==
  {[cmd |-> "killCursors", target |-> t, ids |-> ids] :
     t \in Target(doc, "killCursors"), ids \in CursorIds(Get(doc, "cursors"))}

\* `ordered` is read and used by nobody
InsertCmd(doc) ==
  {[cmd |-> "insert", target |-> t, documents |-> d] :
     t \in Target(doc, "insert"), d \in Documents(Get(doc, "documents"))}

UpdateCmd(doc) ==
  {[cmd |-> "update", target |-> t, updates |-> u] :
     t \in Target(doc, "update"), u \in Updates(Get(doc, "updates"))}

DeleteCmd(doc) ==
  {[cmd |-> "delete", target |-> t, deletes |-> d] :
     t \in Target(doc, "delete"), d \in Deletes(Get(doc, "deletes"))}

WriteCommand(doc) ==
  IF "insert" \in Keys(doc) THEN InsertCmd(doc)
  ELSE IF "update" \in Keys(doc) THEN UpdateCmd(doc)
  ELSE IF "delete" \in Keys(doc) THEN DeleteCmd(doc)
  ELSE {}

\* dispatch_body looks the names up one after the other, not the first field
\* only; a write that does not parse is a command that does not exist
Command(doc) ==
  LET has(key) == key \in Keys(doc) IN
  IF has("hello") \/ has("isMaster") \/ has("ismaster") THEN {[cmd |-> "hello"]}
  ELSE IF has("ping") THEN {[cmd |-> "ping"]}
  ELSE IF has("find") THEN FindCmd(doc)
  ELSE IF has("getMore") THEN GetMoreCmd(doc)
  ELSE IF has("killCursors") THEN KillCursorsCmd(doc)
  ELSE IF WriteCommand(doc) # {} THEN WriteCommand(doc)
  ELSE IF doc = <<>> THEN {[cmd |-> "nothing"]}
  ELSE {[cmd |-> "notFound", name |-> doc[1].key]}

\* ok 1, ok 0, no reply, or an error
Execute(c) ==
  CASE c.cmd \in {"hello", "ping", "killCursors"} -> {"ok"}
    [] c.cmd = "notFound" -> {"notOk"}
    [] c.cmd = "nothing" -> {"none"}
    [] c.cmd = "getMore" -> {"ok", "notOk", "failed"}
    [] \E ops \in {"documents", "updates", "deletes"} \cap DOMAIN c : c[ops] = <<>> -> {"ok"}
    [] c.cmd = "delete" /\ \E i \in DOMAIN c.deletes : c.deletes[i].limit \notin {0, 1} -> {"failed"}
    [] OTHER -> {"ok", "failed"}

\* without a body there is nothing to do; no command at all is an error
Commands(m) ==
  IF ~Decodes(m) THEN {}
  ELSE IF CommandDocument(m) = {} THEN {[cmd |-> "nothing"]}
  ELSE UNION {Command(doc) : doc \in CommandDocument(m)}
=============================================================================
