--------------------------- MODULE RequestChecks ----------------------------
(***************************************************************************)
(* The functions a request of the desktop application goes through that    *)
(* keep no state, each applied to one input and compared with a reference  *)
(* that says what it is for.  A step is one call.                          *)
(***************************************************************************)
EXTENDS QueryText, CellValues, EngineChoice, PlanAnalysis

CONSTANTS
  Texts,      \* query texts
  Queries,    \* [wire, pieces, supplied]
  Cells,      \* a sequence of sets of cells
  EngineProfiles,
  Plans       \* a sequence of sets of [reader, plan, words]

(* What the inputs are made of. *)
ASSUME TextAssumption ==
  /\ Texts \subseteq Seq(Symbols)
  /\ Absent \notin Symbols \cup Seq(Symbols)
ASSUME CellAssumption ==
  /\ MaxInt \in Nat
  /\ \A i \in DOMAIN Cells : \A c \in Cells[i] : CellForm(c)
ASSUME EngineAssumption == EngineProfiles \subseteq EngineProfileForm
(* A question mark that is a placeholder is a piece of its own.            *)
ASSUME QueryAssumption ==
  /\ \A q \in Queries :
       /\ q.pieces \in Seq(Range(q.pieces))
       /\ \A p \in Range(q.pieces) : p.text \in Seq(Symbols)
       /\ Absent \notin Seq([key : {p.key : p \in Range(q.pieces)}, value : Nat])
  /\ Absent \notin Nat
  /\ Absent \notin [sql : Seq([symbol : Symbols \cup {"?", "parameter"}, index : Nat]),
                   params : Seq(Nat)]
ASSUME PlanAssumption ==
  /\ NoNode \notin NodeIds /\ MaxTables \in Nat
  /\ \A i \in DOMAIN Plans : \A p \in Plans[i] :
       /\ p.reader \in {"static", "postgres", "mysql", "rows", "sqlite"}
       /\ PlanForm(p.reader, p.plan)
       /\ p.words \in Seq(STRING)

VARIABLES
  call,     \* the function called
  input,
  output    \* what it returned, None before

vars == <<call, input, output>>

Init ==
  /\ output = None
  /\ \/ call = "text" /\ input \in Texts
     \/ call = "query" /\ input \in Queries
     \/ call = "cell" /\ \E i \in DOMAIN Cells : input \in Cells[i]
     \/ call = "profile" /\ input \in EngineProfiles
     \/ call = "plan" /\ \E i \in DOMAIN Plans : input \in Plans[i]

Called(name) == call = name /\ output = None /\ UNCHANGED <<call, input>>

SplitText ==
  /\ Called("text")
  /\ output' = [statements |-> SplitSqlStatements(input), mayWrite |-> SqlMayWrite(input),
                mayChange |-> SqlMayChangeMetadata(input)]
Prepare ==
  /\ Called("query")
  /\ output' = [prompts |-> PromptSet(input.pieces),
                prepared |-> PrepareQuery(input.wire, input.pieces, input.supplied)]
ShowCell ==
  /\ Called("cell")
  /\ output' = ColumnDataToJson(input)
Connect ==
  /\ Called("profile")
  /\ output' = NormalizeProfile(input)
Explain ==
  /\ Called("plan")
  /\ output' = Analysis(input.reader, input.plan, input.words)

Next == SplitText \/ Prepare \/ ShowCell \/ Connect \/ Explain

Spec == Init /\ [][Next]_vars

Returned(name) == call = name /\ output # None

-----------------------------------------------------------------------------
(* What literals, quoted names and comments are depends on the dialect: by *)
(* the symbol that ends it, the names it knows beside those in double      *)
(* quotes; whether comments nest, and whether a carriage return ends one;  *)
(* and whether it has dollar quotes.  A backslash has no symbol here, so   *)
(* that MySQL's dialect, where it escapes a quote, is not one of these,    *)
(* nor are PostgreSQL's E'...' literals.                                   *)
SqlServer == [names |-> {"]"}, nests |-> TRUE, returns |-> FALSE, dollars |-> FALSE]
Postgres == [names |-> {}, nests |-> TRUE, returns |-> TRUE, dollars |-> TRUE]
Sqlite == [names |-> {"]", "bq"}, nests |-> FALSE, returns |-> FALSE, dollars |-> FALSE]
Dialects == {SqlServer, Postgres, Sqlite}

(* A lexer of a dialect, for reference, that never looks ahead: it reads a *)
(* text symbol by symbol and remembers what it is in.  A doubled quote     *)
(* ends a literal and begins another.                                      *)
(*                                                                         *)
(* query.rs has one lexer for all dialects, and what it does not know of   *)
(* this one is remembered as beyond it:                                    *)
(*   - a bracketed or back-quoted name that holds a symbol it acts on,     *)
(*   - a comment in a comment, where they nest,                            *)
(*   - a dollar sign in a word, or a dollar quote where there are none,    *)
(*   - a line comment that a carriage return ends, and no line end.        *)

Lexed == [mode |-> "code", prev |-> Absent, tag |-> <<>>, tail |-> <<>>, depth |-> 0,
          piece |-> <<>>, pieces |-> <<>>, word |-> <<>>, words |-> {}, named |-> {},
          beyond |-> FALSE]
Acting == {"'", "dq", "-", "/", "$", ";"}

(* The words of a quoted name are kept apart. *)
EndWord(s) ==
  IF s.word = <<>> THEN s
  ELSE IF s.mode \in {"]", "bq"} THEN [s EXCEPT !.named = @ \cup {s.word}, !.word = <<>>]
  ELSE [s EXCEPT !.words = @ \cup {s.word}, !.word = <<>>]
ReadWord(s, c) ==
  IF c \notin WordSymbols THEN EndWord(s)
  ELSE IF s.word # <<>> \/ c \in Letters THEN [s EXCEPT !.word = Append(@, c)]
  ELSE s
EndPiece(s) ==
  [s EXCEPT !.pieces = IF Trim(s.piece) = <<>> THEN @ ELSE Append(@, Trim(s.piece)),
            !.piece = <<>>]
Enter(s, mode) == [EndWord(s) EXCEPT !.mode = mode, !.prev = Absent, !.tag = <<>>]
Leave(s) == [s EXCEPT !.mode = "code", !.prev = Absent, !.tag = <<>>]

(* A name in brackets that has just ended goes on after a second bracket;  *)
(* $1 is a parameter and begins no tag.                                    *)
InCode(d, s, c) ==
  CASE c \in {"'", "dq"} \cup (d.names \ {"]"}) -> Enter(s, c)
    [] "]" \in d.names /\ (c = "[" \/ (c = "]" /\ s.prev = "]")) -> Enter(s, "]")
    [] c = "-" /\ s.prev = "-" -> Enter(s, "line")
    [] c = "*" /\ s.prev = "/" -> [Enter(s, "block") EXCEPT !.depth = 1]
    [] c = "$" /\ s.tag # <<>> /\ d.dollars ->
         [s EXCEPT !.mode = "dollar", !.prev = Absent, !.tag = Append(@, c), !.tail = <<>>,
                   !.word = <<>>]
    [] c = "$" /\ ~ (s.tag # <<>> /\ d.dollars) ->
         [EndWord(s) EXCEPT !.tag = <<c>>, !.prev = c,
                            !.beyond = @ \/ s.tag # <<>> \/ s.prev \in WordSymbols]
    [] c \in WordSymbols ->
         [ReadWord(s, c) EXCEPT
            !.tag = IF @ = <<>> \/ (@ = <<"$">> /\ c \notin Letters) THEN <<>> ELSE Append(@, c),
            !.prev = c]
    [] OTHER -> [EndWord(s) EXCEPT !.tag = <<>>, !.prev = c]

InName(s, c) ==
  IF c = s.mode THEN [EndWord(s) EXCEPT !.mode = "code", !.prev = c, !.tag = <<>>]
  ELSE [ReadWord(s, c) EXCEPT !.beyond = @ \/ c \in Acting]

InBlock(d, s, c) ==
  CASE c = "/" /\ s.prev = "*" ->
         IF s.depth = 1 THEN Leave(s) ELSE [s EXCEPT !.depth = @ - 1, !.prev = Absent]
    [] c = "*" /\ s.prev = "/" /\ d.nests ->
         [s EXCEPT !.depth = @ + 1, !.prev = Absent, !.beyond = TRUE]
    [] OTHER -> [s EXCEPT !.prev = c]

Lex(d, s, c) ==
  LET next ==
        CASE s.mode = "code" -> InCode(d, s, c)
          [] s.mode \in {"'", "dq"} -> IF c = s.mode THEN Leave(s) ELSE s
          [] s.mode \in {"]", "bq"} -> InName(s, c)
          [] s.mode = "line" ->
               IF c = "nl" THEN Leave(s)
               ELSE [s EXCEPT !.prev = c, !.beyond = @ \/ (s.prev = "cr" /\ d.returns)]
          [] s.mode = "block" -> InBlock(d, s, c)
          [] s.mode = "dollar" ->
               IF IsSuffix(s.tag, Append(s.tail, c)) THEN Leave(s)
               ELSE [s EXCEPT !.tail = Append(@, c)]
  IN IF s.mode = "code" /\ c = ";" THEN EndPiece(next)
     ELSE [next EXCEPT !.piece = Append(@, c)]

Reference(d, text) == EndPiece(EndWord(FoldLeft(LAMBDA s, c : Lex(d, s, c), Lexed, text)))

(* What the application's lexers are made for.  A dollar quote that is     *)
(* never closed is not valid in a dialect that has them.                   *)
Known(read) == ~ read.beyond /\ read.mode # "dollar"

(* Whatever the dialect, a text is split at the semicolons that are        *)
(* outside of its literals, quoted names and comments, and nowhere else,   *)
(* and no statement is lost or empty: unless the text holds one of the     *)
(* four things above, which split_sql_statements does not know.            *)
SplitsOutsideQuotes ==
  Returned("text") =>
    \A d \in Dialects :
      LET read == Reference(d, input) IN Known(read) => output.statements = read.pieces

(* Whatever the dialect, sql_may_write and sql_may_change_metadata see a   *)
(* keyword wherever the text has one outside of literals, quoted names and *)
(* comments, and nowhere else but in a bracketed name, where they take     *)
(* [delete] for a keyword too.  The same four things are left out, and as  *)
(* their lexer is not the splitter's (it alone knows back quotes, and ends *)
(* a line comment at a carriage return too) texts with either of those.    *)
WritesAreSeen ==
  Returned("text") /\ Range(input) \cap {"cr", "bq"} = {} =>
    \A d \in Dialects :
      LET read == Reference(d, input)
          seen == read.words \cup read.named
      IN Known(read) =>
           /\ output.mayWrite = (seen \cap WriteWords # {})
           /\ output.mayChange = (seen \cap MetadataWords # {})

-----------------------------------------------------------------------------
(* A query whose prompts are all answered can be prepared, if it is one    *)
(* statement: every key is asked for, and none twice                       *)
(* (query_parameter_prompt_set, prepare_query).                            *)
PromptsSuffice ==
  Returned("query") /\ output.prompts # Absent =>
    LET answers == [i \in DOMAIN output.prompts |->
                     [key |-> output.prompts[i], value |-> i]] IN
    /\ IsInjective(output.prompts)
    /\ Len(SplitSqlStatements(SqlOf(input.pieces))) <= 1 =>
         PrepareQuery(input.wire, input.pieces, answers) # Absent

(* What a server makes of a bound statement: a number picks a parameter, a *)
(* question mark takes the next.                                           *)
Evaluated(prepared) ==
  LET symbol(i) == prepared.sql[i].symbol
      marks(i) == Cardinality({k \in 1..i : symbol(k) = "?"})
      value(n) == [symbol |-> "value", index |-> prepared.params[n]]
  IN [i \in DOMAIN prepared.sql |->
       CASE symbol(i) = "?" -> value(marks(i))
         [] symbol(i) = "parameter" -> value(prepared.sql[i].index)
         [] OTHER -> prepared.sql[i]]
Substituted(q) ==
  FlattenSeq([i \in DOMAIN q.pieces |->
    IF q.pieces[i].key = Absent THEN Plain(q.pieces[i].text)
    ELSE <<[symbol |-> "value", index |-> ValueOf(q.supplied, q.pieces[i].key)]>>])

(* Whatever a dialect's placeholders look like, the server puts the value  *)
(* supplied for a key in each place of that key, and no parameter is left  *)
(* over (prepare_query, bind_placeholder).                                 *)
BoundAsSupplied ==
  Returned("query") /\ output.prepared # Absent =>
    /\ Len(output.prepared.params) = Len(Parameters(input.pieces))
    /\ Evaluated(output.prepared) = Substituted(input)

-----------------------------------------------------------------------------
ValueOfDigits(digits) == FoldLeft(LAMBDA n, d : 10 * n + d, 0, digits)

(* The bytes that a text of hexadecimal digits stands for.                 *)
HexStandsFor(digits, bytes) ==
  /\ Len(digits) = 2 * Len(bytes)
  /\ \A i \in DOMAIN bytes : 16 * digits[2 * i - 1] + digits[2 * i] = bytes[i]

(* A cell comes back from the user as it was: the same number or text, and *)
(* NULL only for NULL or a date that cannot be decoded.  A decimal's text  *)
(* has its value, its sign, its scale and one digit at least before the    *)
(* point.  The exception is binary data: what comes back is no longer      *)
(* binary but a string, the bytes' hexadecimal digits behind \x, all of    *)
(* them and in order (column_data_to_json, numeric_to_string, mssql_param, *)
(* to_sql).                                                                *)
CellsSurvive ==
  Returned("cell") =>
    LET sent == ToSql(MssqlParam(output)) IN
    CASE input.value = None -> sent.value = None
      [] input.value # None /\ input.type \in Temporal ->
           sent.value = IF input.value.valid THEN input.value.text ELSE None
      [] input.value # None /\ input.type = "Numeric" ->
           LET n == ValueOfDigits(sent.value.whole \o sent.value.fraction) IN
           /\ input.value.value = IF sent.value.negative THEN -n ELSE n
           /\ Len(sent.value.fraction) = input.value.scale
           /\ sent.value.whole # <<>>
           /\ Len(sent.value.whole) > 1 => sent.value.whole[1] # 0
      [] input.value # None /\ input.type \in Integer ->
           sent = [type |-> "I64", value |-> input.value]
      [] input.value # None /\ input.type = "Binary" ->
           /\ sent.type = "String"
           /\ HexStandsFor(sent.value.digits, input.value)
      [] OTHER -> sent.value = input.value

-----------------------------------------------------------------------------
(* An engine that a profile gets past normalize_profile is one that        *)
(* connect_engine connects, or tells which feature it needs: the lists of  *)
(* wires in the two files agree, and unreachable!() is.                    *)
AcceptedEnginesConnect ==
  Returned("profile") =>
    /\ output.result # "unreachable"
    /\ output.result = "accepted" => ConnectEngine(output.profile).engine # "no driver"

-----------------------------------------------------------------------------
(* What the picture of a plan is made of belongs together, whichever       *)
(* engine it comes from: no two nodes share an id, a node comes after its  *)
(* parent and is drawn deeper (SQLite's: not higher), each parent is an    *)
(* edge, and a finding names a node of the plan or, when it was taken over *)
(* from the static analysis, a node of that one.  An all-clear stands      *)
(* beside no other finding but that the engine gave no plan (explain.rs).  *)
PlanHangsTogether ==
  Returned("plan") =>
    LET nodes == output.nodes
        ids(ns) == {n.id : n \in Range(ns)}
        titles == {f.title : f \in output.findings}
    IN /\ IsInjective([i \in DOMAIN nodes |-> nodes[i].id])
       /\ \A i \in DOMAIN nodes : nodes[i].parent # NoNode =>
            /\ <<nodes[i].parent, nodes[i].id>> \in output.edges
            /\ \E j \in 1..i - 1 :
                 /\ nodes[j].id = nodes[i].parent
                 /\ \/ nodes[j].depth < nodes[i].depth
                    \/ input.reader = "sqlite" /\ nodes[j].depth = nodes[i].depth
       /\ \A f \in output.findings :
            f.node \in ids(nodes) \cup ids(StaticNodes(input.words)) \cup {NoNode}
       /\ AllClear.title \in titles => titles \subseteq {AllClear.title, "Native plan unavailable"}
=============================================================================
