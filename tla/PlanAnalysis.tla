---------------------------- MODULE PlanAnalysis ----------------------------
(***************************************************************************)
(* How the desktop application makes one picture of any engine's query     *)
(* plan (db/explain.rs): a tree of nodes, its edges and findings about     *)
(* nodes.  SQL Server has no plan reader of its own and always gets the    *)
(* static analysis of the statement's words; the readers of the other      *)
(* engines share its nodes and take over its findings.                     *)
(*                                                                         *)
(* A finding is the sign it reports and the node it names.  Which figures  *)
(* of a node make it risky, the cards of figures and their wording are     *)
(* left out.                                                               *)
(***************************************************************************)
EXTENDS Integers, FiniteSets, Sequences, SequencesExt

CONSTANTS
  MaxTables,   \* objects that a static analysis lists: 16 in the code
  NoNode

NodeIds ==
  {"static-root", "static-scan", "static-join", "static-filter", "static-aggregate",
   "static-sort", "pg", "mysql", "native-row", "sqlite-root", "sqlite"} \X Int
Node(id, parent, depth, risky) == [id |-> id, parent |-> parent, depth |-> depth, risky |-> risky]
Finding(title, node) == [title |-> title, node |-> node]
Edges(nodes) == {<<n.parent, n.id>> : n \in {m \in Range(nodes) : m.parent # NoNode}}

-----------------------------------------------------------------------------
(* static_analysis, of the words that sql_words has found.                 *)

Root == <<"static-root", 0>>

(* is_table_noise, collect_table_mentions *)
TableNoise == {"select", "lateral", "unnest", "values", "json_table", "only"}
TableMentions(words) ==
  LET names == {words[i + 1] : i \in {i \in 1..Len(words) - 1 :
                  /\ words[i] \in {"from", "join", "update", "into"}
                  /\ words[i + 1] \notin TableNoise}}
  IN IF Cardinality(names) <= MaxTables THEN SetToSeq(names)
     ELSE SubSeq(SetToSeq(names), 1, MaxTables)

Joins(words) == Cardinality({i \in DOMAIN words : words[i] = "join"})
Has(words, some) == Range(words) \cap some # {}

StaticNodes(words) ==
  LET tables == TableMentions(words)
      part(id, there) == IF there THEN <<Node(<<id, 0>>, Root, 1, FALSE)>> ELSE <<>>
  IN <<Node(Root, NoNode, 0, FALSE)>>
     \o [i \in DOMAIN tables |-> Node(<<"static-scan", i - 1>>, Root, 1, FALSE)]
     \o part("static-join", Joins(words) > 0)
     \o part("static-filter", Has(words, {"where"}))
     \o part("static-aggregate", Has(words, {"group", "distinct"}))
     \o part("static-sort", Has(words, {"order"}))

When(condition, finding) == IF condition THEN {finding} ELSE {}

StaticRisks(words) ==
  When(Has(words, {"select"}) /\ TableMentions(words) # <<>> /\ ~Has(words, {"where"}),
       Finding("Broad read candidate", Root))
  \cup When(Has(words, {"*"}), Finding("Wide projection", Root))
  \cup When(Joins(words) >= 3, Finding("Join-heavy query", <<"static-join", 0>>))
  \cup When(Has(words, {"order"}) /\ ~Has(words, {"limit", "top", "fetch"}),
            Finding("Unbounded sort", <<"static-sort", 0>>))

AllClear == Finding("No obvious structural risk", NoNode)

StaticAnalysis(words) ==
  [nodes |-> StaticNodes(words), edges |-> Edges(StaticNodes(words)),
   findings |-> IF StaticRisks(words) = {} THEN {AllClear} ELSE StaticRisks(words)]

-----------------------------------------------------------------------------
(* The readers of other engines' plans.  A JSON plan is the sequence of    *)
(* its values, in the order in which the recursion comes to them: [under,  *)
(* array, marked, risky].  under is the place of the value that this one   *)
(* lies in, 0 for the first; marked says that an object has one of the     *)
(* keys by which collect_mysql_plan_nodes knows a node.                    *)

(* A mutant: ids are by depth. *)
FreshByDepth(prefix, nodes, depth) == <<prefix, depth>>

Fresh(prefix, nodes, depth) == <<prefix, Len(nodes)>>

(* What the calls so far have collected, and the parent and the depth that *)
(* each passes on to the calls for its children.                           *)
NoCalls == [nodes |-> <<>>, passed |-> <<>>]
Given(calls, value) ==
  IF value.under \in DOMAIN calls.passed THEN calls.passed[value.under]
  ELSE [parent |-> NoNode, depth |-> 0]

PostgresCall(calls, plan) ==
  LET given == Given(calls, plan)
      id == Fresh("pg", calls.nodes, given.depth)
  IN [nodes |-> Append(calls.nodes, Node(id, given.parent, given.depth, plan.risky)),
      passed |-> Append(calls.passed, [parent |-> id, depth |-> given.depth + 1])]
CollectPostgres(plan) == FoldLeft(PostgresCall, NoCalls, plan).nodes

MysqlCall(calls, value) ==
  LET given == Given(calls, value)
      isNode == ~value.array /\ value.marked
      id == IF isNode THEN Fresh("mysql", calls.nodes, given.depth) ELSE given.parent
      deeper == IF value.array \/ id = NoNode THEN given.depth ELSE given.depth + 1
  IN [nodes |-> IF isNode THEN Append(calls.nodes, Node(id, given.parent, given.depth, value.risky))
                ELSE calls.nodes,
      passed |-> Append(calls.passed, [parent |-> id, depth |-> deeper])]
CollectMysql(plan) == FoldLeft(MysqlCall, NoCalls, plan).nodes

(* analysis_from_row_table: a chain. *)
RowNodes(rows) ==
  [i \in DOMAIN rows |->
    Node(<<"native-row", i - 1>>, IF i = 1 THEN NoNode ELSE <<"native-row", i - 2>>, i - 1, FALSE)]

(* analysis_from_sqlite_rows: rows are [id, parent, risky].                *)
SqliteNodes(rows) ==
  LET ids == {row.id : row \in Range(rows)}
      parent(i) ==
        IF rows[i].parent \in ids THEN <<"sqlite", rows[i].parent>>
        ELSE IF i > 1 THEN <<"sqlite-root", 0>> ELSE NoNode
  IN <<Node(<<"sqlite-root", 0>>, NoNode, 0, FALSE)>>
     \o [i \in DOMAIN rows |->
          Node(<<"sqlite", rows[i].id>>, parent(i), IF rows[i].parent <= 0 THEN 1 ELSE 2,
               rows[i].risky)]

(* postgres_findings, mysql_findings, sqlite_findings *)
NativeFindings(nodes) == {Finding("risk", n.id) : n \in {m \in Range(nodes) : m.risky}}

(* What the readers get.  SQLite numbers its rows from 1 and gives a row   *)
(* after its parent.                                                       *)
PlanForm(reader, plan) ==
  /\ reader \in {"postgres", "mysql"} =>
       plan \in Seq([under : Nat, array : BOOLEAN, marked : BOOLEAN, risky : BOOLEAN])
  /\ reader = "rows" => plan \in Seq(Range(plan))
  /\ reader = "sqlite" =>
       /\ plan \in Seq([id : Nat \ {0}, parent : Int, risky : BOOLEAN])
       /\ \A i, j \in DOMAIN plan :
            /\ plan[i].id = plan[j].id => i = j
            /\ plan[i].id = plan[j].parent => i < j

(* merge_static_findings: what the static analysis found comes with the    *)
(* nodes it named there.                                                   *)
Merged(nodes, words) ==
  LET findings == NativeFindings(nodes) \cup StaticRisks(words) IN
    [nodes |-> nodes, edges |-> Edges(nodes),
     findings |-> IF findings = {} THEN {Finding("Native plan captured", NoNode)} ELSE findings]

(* QueryPlanAnalysis::with_native_error *)
Fallback(words) ==
  [StaticAnalysis(words) EXCEPT !.findings = @ \cup {Finding("Native plan unavailable", NoNode)}]

Nodes(reader, plan) ==
  CASE reader = "postgres" -> CollectPostgres(plan)
    [] reader = "mysql" -> CollectMysql(plan)
    [] reader = "rows" -> RowNodes(plan)
    [] reader = "sqlite" -> SqliteNodes(plan)

Analysis(reader, plan, words) ==
  IF reader = "static" THEN StaticAnalysis(words)
  ELSE IF Nodes(reader, plan) = <<>> THEN Fallback(words)
  ELSE Merged(Nodes(reader, plan), words)
=============================================================================
