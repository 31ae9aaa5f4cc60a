----------------------------- MODULE QueryText ------------------------------
(***************************************************************************)
(* What the desktop application does with the text of a query              *)
(* (db/query.rs): splitting it into statements, looking for statements     *)
(* that write, asking for parameters and binding them.                     *)
(*                                                                         *)
(* A text is a sequence of symbols: the characters the lexers look at,     *)
(* "dq" and "bq" for the double and the back quote, "w" for a letter, "1"  *)
(* for a digit, "nl" and "cr" for line ends.  The loops that search for an *)
(* end are written as what they find.                                     *)
(***************************************************************************)
EXTENDS Integers, FiniteSets, Sequences, SequencesExt

CONSTANTS
  WriteWords,     \* the words of is_write_keyword, as sequences of symbols,
  MetadataWords,  \* and those of is_metadata_mutation_keyword
  MaxSqlBytes,
  Absent

Letters == {"w", "_"}
WordSymbols == Letters \cup {"1"}
Blanks == {" ", "nl", "cr"}
Symbols == WordSymbols \cup Blanks \cup {"'", "dq", "bq", "[", "]", "-", "/", "*", "$", ";", ":"}

At(text, i) == IF i \in DOMAIN text THEN text[i] ELSE Absent
Begins(text, i, prefix) ==
  i + Len(prefix) - 1 <= Len(text) /\ SubSeq(text, i, i + Len(prefix) - 1) = prefix
(* The first of some positions, or the one after the last. *)
First(text, found) == IF found = {} THEN Len(text) + 1 ELSE Min(found)

-----------------------------------------------------------------------------
(* The splitter's lexer: each gives the last position it skips.            *)

(* skip_repeated_quote: a doubled quote does not end the literal. *)
SkipRepeatedQuote(text, i) ==
  LET close[j \in 1..(Len(text) + 2)] ==
        IF j > Len(text) THEN j
        ELSE IF text[j] # text[i] THEN close[j + 1]
        ELSE IF At(text, j + 1) = text[i] THEN close[j + 2]
        ELSE j
  IN close[i + 1]

SkipLineComment(text, i) == First(text, {j \in (i + 2)..Len(text) : text[j] = "nl"})
SkipBlockComment(text, i) ==
  First(text, {j \in (i + 2)..Len(text) : Begins(text, j, <<"*", "/">>)}) + 1

WordEnd(text, i) == First(text, {j \in i..Len(text) : text[j] \notin WordSymbols})

(* dollar_tag_at: $$ or $word$; Absent if there is none at i. *)
DollarTagAt(text, i) ==
  LET end == WordEnd(text, i + 1) IN
    IF At(text, end) = "$" THEN SubSeq(text, i, end) ELSE Absent

TagAfter(text, i, tag) ==
  First(text, {j \in (i + Len(tag))..Len(text) : Begins(text, j, tag)})

(* skip_dollar_quoted: an opening that is never closed is passed over.     *)
SkipDollarQuoted(text, i) ==
  LET tag == DollarTagAt(text, i)
      end == TagAfter(text, i, tag)
  IN IF tag = Absent \/ end > Len(text) THEN i ELSE end + Len(tag) - 1

(* A mutant: a dollar sign opens nothing. *)
SkipNoDollar(text, i) ==
  CASE text[i] \in {"'", "dq"} -> SkipRepeatedQuote(text, i)
    [] Begins(text, i, <<"-", "-">>) -> SkipLineComment(text, i)
    [] Begins(text, i, <<"/", "*">>) -> SkipBlockComment(text, i)
    [] OTHER -> i

Skip(text, i) ==
  CASE text[i] \in {"'", "dq"} -> SkipRepeatedQuote(text, i)
    [] Begins(text, i, <<"-", "-">>) -> SkipLineComment(text, i)
    [] Begins(text, i, <<"/", "*">>) -> SkipBlockComment(text, i)
    [] text[i] = "$" -> SkipDollarQuoted(text, i)
    [] OTHER -> i

Trim(text) ==
  LET kept == {i \in DOMAIN text : text[i] \notin Blanks} IN
    IF kept = {} THEN <<>> ELSE SubSeq(text, Min(kept), Max(kept))

(* What is between two positions, if it is not blank. *)
Statement(text, from, to) ==
  LET trimmed == Trim(SubSeq(text, from, to)) IN
    IF trimmed = <<>> THEN <<>> ELSE <<trimmed>>

(* split_sql_statements: split[<<i, start>>] is what the loop still finds  *)
(* from position i, in a statement that began at start.                    *)
SplitSqlStatements(text) ==
  LET split[at \in (1..(Len(text) + 3)) \X (1..(Len(text) + 1))] ==
        IF at[1] > Len(text) THEN Statement(text, at[2], Len(text))
        ELSE IF text[at[1]] = ";"
          THEN Statement(text, at[2], at[1] - 1) \o split[<<at[1] + 1, at[1] + 1>>]
        ELSE split[<<Skip(text, at[1]) + 1, at[2]>>]
  IN split[<<1, 1>>]

-----------------------------------------------------------------------------
(* SqlTokenIter: a lexer of its own. Each gives the next position.         *)

(* A mutant: the closing quote is read again, and opens another literal.   *)
TokenSkipQuotedShort(text, i) == SkipRepeatedQuote(text, i)

TokenSkipQuoted(text, i) == SkipRepeatedQuote(text, i) + 1
TokenSkipLine(text, i) == First(text, {j \in (i + 2)..Len(text) : text[j] \in {"nl", "cr"}})
TokenSkipBlock(text, i) == SkipBlockComment(text, i) + 1

(* Here an opening that is never closed hides the rest. *)
TokenSkipDollar(text, i) ==
  LET tag == DollarTagAt(text, i) IN
    IF tag = Absent THEN i + 1
    ELSE TagAfter(text, i, tag) + Len(tag)

SqlTokens(text) ==
  LET tokens[i \in 1..(2 * Len(text) + 3)] ==
        IF i > Len(text) THEN <<>>
        ELSE CASE Begins(text, i, <<"-", "-">>) -> tokens[TokenSkipLine(text, i)]
               [] Begins(text, i, <<"/", "*">>) -> tokens[TokenSkipBlock(text, i)]
               [] text[i] \in {"'", "dq", "bq"} -> tokens[TokenSkipQuoted(text, i)]
               [] text[i] = "$" -> tokens[TokenSkipDollar(text, i)]
               [] text[i] \in Letters ->
                    <<SubSeq(text, i, WordEnd(text, i) - 1)>> \o tokens[WordEnd(text, i)]
               [] OTHER -> tokens[i + 1]
  IN tokens[1]

HasWord(text, words) ==
  LET statements == SplitSqlStatements(text) IN
    \E s \in DOMAIN statements : Range(SqlTokens(statements[s])) \cap words # {}
SqlMayWrite(text) == HasWord(text, WriteWords)
SqlMayChangeMetadata(text) == HasWord(text, MetadataWords)

-----------------------------------------------------------------------------
(* Parameters.  detect_parameters is not in the repository: a query comes  *)
(* as pieces, each [text, key], with a key where it is a placeholder.      *)

SqlOf(pieces) == FlattenSeq([i \in DOMAIN pieces |-> pieces[i].text])
Parameters(pieces) ==
  FoldLeft(LAMBDA found, p : IF p.key = Absent THEN found ELSE Append(found, p), <<>>, pieces)

(* A mutant: a name and a position that read alike are one key.            *)
PromptsByLabel(pieces) ==
  FoldLeft(LAMBDA keys, p :
    IF \E k \in Range(keys) : k.of = p.key.of THEN keys ELSE Append(keys, p.key),
    <<>>, Parameters(pieces))

(* query_parameter_prompt_set, for a text within MaxSqlBytes. *)
Prompts(pieces) ==
  FoldLeft(LAMBDA keys, p : IF Contains(keys, p.key) THEN keys ELSE Append(keys, p.key),
           <<>>, Parameters(pieces))
PromptSet(pieces) == IF Len(SqlOf(pieces)) > MaxSqlBytes THEN Absent ELSE Prompts(pieces)

(* A bound statement is a sequence of [symbol, index]; the index tells     *)
(* numbered placeholders apart.                                            *)
Plain(text) == [i \in DOMAIN text |-> [symbol |-> text[i], index |-> 0]]
BindPlaceholder(wire, index) ==
  IF wire \in {"Postgres", "SqlServer", "Oracle"} THEN [symbol |-> "parameter", index |-> index]
  ELSE [symbol |-> "?", index |-> 0]

(* The last value supplied for a key counts. *)
ValueOf(supplied, key) ==
  LET for == {i \in DOMAIN supplied : supplied[i].key = key} IN
    IF for = {} THEN Absent ELSE supplied[Max(for)].value

(* Each placeholder is numbered by its place among them. *)
Rewritten(wire, pieces) ==
  FlattenSeq([i \in DOMAIN pieces |->
    IF pieces[i].key = Absent THEN Plain(pieces[i].text)
    ELSE <<BindPlaceholder(wire, Len(Parameters(SubSeq(pieces, 1, i))))>>])

(* A mutant: a parameter that occurs twice is sent once.                   *)
BoundOnce(pieces, supplied) ==
  LET keys == Prompts(pieces) IN [i \in DOMAIN keys |-> ValueOf(supplied, keys[i])]

Bound(pieces, supplied) ==
  LET parameters == Parameters(pieces) IN
    [i \in DOMAIN parameters |-> ValueOf(supplied, parameters[i].key)]

(* prepare_query; Absent is its error. *)
PrepareQuery(wire, pieces, supplied) ==
  IF Parameters(pieces) = <<>> THEN [sql |-> Plain(SqlOf(pieces)), params |-> <<>>]
  ELSE IF \/ supplied = Absent
          \/ Len(SplitSqlStatements(SqlOf(pieces))) > 1
          \/ Absent \in Range(Bound(pieces, supplied))
    THEN Absent
  ELSE [sql |-> Rewritten(wire, pieces), params |-> Bound(pieces, supplied)]
=============================================================================
