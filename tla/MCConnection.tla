---------------------------- MODULE MCConnection ----------------------------
(* TLC instances of Connection.                                              *)
EXTENDS Connection

Opener(kind, size) == [kind |-> kind, size |-> size]
Short(size) == [kind |-> "short", size |-> size]
Request(size, message) == [kind |-> "message", size |-> size, message |-> message]

Msg(id, flags, sections) == Frame("OP_MSG", id, flags, sections, 0)
Query(id, doc) == Frame("OP_QUERY", id, {}, <<Body(doc)>>, 0)

Db == F("$db", Str("d"))
On(name) == <<F(name, Str("people")), Db>>
Ping == <<F("ping", Int32(1)), Db>>
Hello == <<F("isMaster", Int32(1))>>
With(doc, key, value) == IF value = None THEN doc ELSE Append(doc, F(key, value))
A == <<F("_id", Int32(1))>>
B == <<F("_id", Int32(2))>>
InsertA == With(On("insert"), "documents", Arr(<<Doc(A)>>))
GetMore == <<F("getMore", Int64(5)), Db, F("collection", Str("people"))>>
Kill == With(On("killCursors"), "cursors", Arr(<<Int64(5)>>))

\* the preamble below, at and above the limit; requests of one and more units;
\* every way a request can end the connection, with requests behind it
Pipelined == {
  <<Opener("preamble", 2), Request(2, Msg(21, {}, <<Body(Ping)>>)), Request(1, Msg(22, {MoreToComeBit}, <<Body(InsertA)>>)),
    Request(1, Query(23, Hello)), Request(1, Msg(24, {}, <<Body(GetMore)>>))>>,
  <<Opener("preamble", 3), Request(1, Msg(31, {}, <<Sequence("documents", <<A>>)>>)),
    Request(3, Msg(32, {ChecksumPresent}, <<Body(<<F("drop", Str("people"))>>)>>)),
    Request(2, Msg(33, {}, <<Body(<<F("find", Int32(1)), Db>>)>>)), Request(1, Msg(34, {}, <<Body(Ping)>>))>>,
  <<Opener("preamble", 4), Request(1, Msg(41, {}, <<Body(Kill)>>)), Request(2, Msg(42, {MoreToComeBit}, <<Body(Ping)>>)),
    Short(2), Request(1, Msg(43, {}, <<Body(Ping)>>))>>,
  <<Opener("preamble", 6), Request(2, Msg(51, {}, <<Body(Ping)>>))>>,
  <<Opener("malformed", 3), Request(2, Msg(61, {}, <<Body(Ping)>>))>>,
  <<Opener("endless", 7)>>}

\* numbers around zero and the ends of the ranges, in every type, and what is none
Values ==
  UNION {Spellings(n) : n \in {-I32MAX - 2, -1, 0, 1, 2, I32MAX, I32MAX + 1}}
    \cup {Double(-1), Double(3), Double(2 * I64MAX + 2), NaN, Str("1"), None}
Options ==
  UNION {{With(On("find"), "limit", v), With(On("find"), "skip", v), With(On("find"), "batchSize", v),
          With(GetMore, "batchSize", v),
          With(<<Db, F("collection", Str("people"))>>, "getMore", v),
          With(On("killCursors"), "cursors", IF v = None THEN v ELSE Arr(<<Int32(1), v>>)),
          With(On("delete"), "deletes", Arr(<<Doc(With(<<F("q", Doc(A))>>, "limit", v))>>))} : v \in Values}

\* headers, flags and ends of messages
Frames == {Frame("OP_MSG", 1, flags, <<Body(Ping)>>, tail) :
            flags \in SUBSET {ChecksumPresent, MoreToComeBit} \cup {{2}, {16}, {ChecksumPresent, 16}}, tail \in 0 .. 5}
  \cup {Frame("OP_COMPRESSED", 1, {}, <<Body(Ping)>>, 0), Frame("OP_QUERY", 1, {}, <<Malformed>>, 0)}

\* a field or a sequence, in front of the body and behind it, alone and beside
\* another; and both of one name, in every order, once and twice
Upd(q, set, other) ==
  <<F("q", Doc(q)), F("u", Doc(B)), F(set, [boolean |-> TRUE])>> \o other
Arrays == {
  <<"insert", "documents", A, B>>,
  <<"update", "updates", Upd(A, "multi", <<>>), Upd(B, "upsert", <<F("multi", Int32(1))>>)>>,
  <<"delete", "deletes", <<F("q", Doc(A)), F("limit", Int32(1))>>, <<F("q", Doc(B))>>>>}
Sections(a) ==
  LET field == Body(With(On(a[1]), a[2], Arr(<<Doc(a[3])>>)))
      one == Sequence(a[2], <<a[3], a[4]>>)
      two == Sequence(a[2], <<a[4]>>)
  IN  {<<field>>, <<one, Body(On(a[1]))>>, <<field, one>>, <<one, two, field>>, <<two, field, Body(Ping), one>>,
       <<one, Sequence("extra", <<B>>), Body(On(a[1]))>>, <<Body(On(a[1])), one>>,
       <<field, Malformed>>, <<one>>, <<Body(On(a[1])), Sequence(a[2], <<>>)>>}

\* what the parsers refuse, and names in another place than the first
Odd == {
  <<>>, <<Db>>, Append(On("find"), F("hello", Int32(1))), Append(On("insert"), F("ping", Int32(1))),
  <<F("limit", Int32(1))>> \o On("find"), <<F("find", Str("people"))>>, <<F("documents", Arr(<<Doc(A)>>))>> \o On("insert"),
  On("insert"), With(On("insert"), "documents", Doc(A)), With(On("insert"), "documents", Arr(<<Doc(A), Int32(1)>>)),
  With(On("update"), "updates", Arr(<<Doc(Upd(A, "multi", <<>>)), Doc(A)>>)), With(On("delete"), "deletes", Arr(<<Doc(A)>>)),
  With(On("find"), "filter", Int32(1)), With(On("find"), "filter", Doc(A)),
  With(On("find"), "filter", Doc(<<F("$mod", Int32(1))>>)), With(On("killCursors"), "cursors", Int32(1))}

Single(size, message) == <<Opener("preamble", size), Request(1, message)>>
McScripts ==
  Pipelined
    \cup {Single(1, Msg(1, {}, <<Body(doc)>>)) : doc \in Options \cup Odd}
    \cup {Single(2, m) : m \in Frames}
    \cup {Single(2, Msg(1, {}, s)) : s \in UNION {Sections(a) : a \in Arrays}}
    \cup {Single(1, Query(1, doc)) : doc \in {Ping, InsertA, <<>>}}
=============================================================================
