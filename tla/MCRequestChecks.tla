-------------------------- MODULE MCRequestChecks ---------------------------
(* The inputs of the run of RequestChecks.                                 *)
EXTENDS RequestChecks

Over(symbols, max) == UNION {[1..n -> symbols] : n \in 0..max}
MCTexts ==
  Over({"'", "dq", "-", "nl", "/", "*", "$", "w", ";"}, 4)
  \cup Over({"$", "w", ";"}, 8)
  \cup Over({"'", ";", "w"}, 7)
  \cup Over({"-", "nl", ";", "'"}, 6)
  \cup Over({"/", "*", ";", "'"}, 6)
  \cup Over({"$", "1", "w", ";", " "}, 5)
  \cup Over({"-", "cr", "nl", "bq", "w", ";"}, 5)
  \cup Over({"[", "]", "bq", "'", "w", ";", " "}, 5)
  \cup Over({"[", "]", "w", ";"}, 6)
  \cup Over({"[", "]", "dq", "/", "*", "$", ";"}, 5)
  \cup Over({"/", "*", ";", "w"}, 7)
MCWriteWords == {<<"w">>, <<"w", "w">>}
MCMetadataWords == {<<"w">>}

Key(kind, of) == [kind |-> kind, of |-> of]
Piece(text, key) == [text |-> text, key |-> key]
Pieces == {Piece(<<"w">>, Absent), Piece(<<";">>, Absent), Piece(<<"'", ";", "'">>, Absent),
           Piece(<<":">>, Key("name", "1")), Piece(<<":">>, Key("name", "2")),
           Piece(<<":">>, Key("position", "1"))}
Supply(key, value) == [key |-> key, value |-> value]
MCQueries ==
  {[wire |-> wire, pieces |-> pieces, supplied |-> supplied] :
     wire \in {"SqlServer", "Sqlite"},
     pieces \in UNION {[1..n -> Pieces] : n \in 0..3}
                \cup [1..4 -> {p \in Pieces : p.key # Absent}],
     supplied \in {Absent, <<>>,
       <<Supply(Key("name", "1"), 7)>>,
       <<Supply(Key("name", "1"), 7), Supply(Key("position", "1"), 8),
         Supply(Key("name", "2"), 9), Supply(Key("name", "1"), 6)>>}}

Cell(type, values) == {[type |-> type, value |-> v] : v \in values \cup {None}}
MCCells ==
  <<UNION {Cell(type, -130..130) : type \in Integer \cup Float},
    Cell("Bit", BOOLEAN),
    UNION {Cell(type, {"text"}) : type \in {"String", "Guid", "Xml"}},
    Cell("Binary", Over(0..255, 1) \cup Over({0, 9, 16, 175, 255}, 3)),
    Cell("Numeric", [value : (-120..120) \cup {999, 1000, -1000}, scale : 0..4]),
    UNION {Cell(type, [valid : BOOLEAN, text : {"text"}]) : type \in Temporal}>>

Text(text, padded) == [text |-> text, padded |-> padded]
Fields == {NotSet, Text("", TRUE), Text("x", FALSE), Text("x", TRUE)}
MCEngineProfiles ==
  [id : {Text("", TRUE), Text("p", TRUE), Text("bad", FALSE), Text("sqlite-memory", FALSE)},
   wire : Wires,
   url : {NotSet, Text("", FALSE), Text("x", TRUE)}, host : Fields, database : Fields,
   socketPath : {NotSet, Text("", TRUE), Text("x", FALSE)}]

(* JSON plans of n values: each lies in the one before it or in one that   *)
(* this one lies in.                                                       *)
Marked == {<<FALSE, TRUE, FALSE>>, <<FALSE, TRUE, TRUE>>}
Kinds == Marked \cup {<<FALSE, FALSE, FALSE>>, <<TRUE, FALSE, FALSE>>}
Inside(under, v) == LET up[u \in 0..v] == IF u = 0 THEN {0} ELSE {u} \cup up[under[u]] IN up[v]
Shapes(n) ==
  {under \in [1..n -> 0..n - 1] :
     \A v \in 1..n : IF v = 1 THEN under[v] = 0 ELSE under[v] \in Inside(under, v - 1) \ {0}}
Trees(n, of) ==
  {[v \in 1..n |-> [under |-> under[v], array |-> kinds[v][1], marked |-> kinds[v][2],
                    risky |-> kinds[v][3]]] : under \in Shapes(n), kinds \in [1..n -> of]}
SqliteRows == {<<>>} \cup UNION {
  {[i \in 1..n |-> [id |-> i, parent |-> parents[i], risky |-> i \in risky]] :
     parents \in {f \in [1..n -> 0..n - 1] : \A i \in 1..n : f[i] < i}, risky \in {{}, {1}, {n}}} :
  n \in 1..4}
Vocabulary == {"select", "from", "join", "where", "order", "limit", "group", "*", "t", "lateral"}
Plan(reader, plans, words) ==
  {[reader |-> reader, plan |-> plan, words |-> w] : plan \in plans, w \in words}
SomeWords == {<<>>, <<"select", "*", "from", "t">>, <<"order", "join", "join", "join">>}
MCPlans ==
  <<Plan("static", {<<>>}, Over(Vocabulary, 4)),
    Plan("postgres", Trees(1, Kinds), SomeWords),
    Plan("mysql", Trees(1, Kinds), SomeWords),
    Plan("rows", [1..0 -> {0}] \cup [1..1 -> {0}] \cup [1..3 -> {0}], SomeWords),
    Plan("sqlite", SqliteRows, SomeWords)>>
  \o [n \in 1..6 |-> Plan("postgres", Trees(n - 1, Marked), {<<>>})]
  \o [n \in 1..5 |-> Plan("mysql", Trees(n - 1, Kinds), {<<>>})]
MCFeatures == {"SqlServer", "DuckDb"}
=============================================================================
