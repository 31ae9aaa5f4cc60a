---------------------------- MODULE EngineChoice ----------------------------
(***************************************************************************)
(* From a profile to an engine of the desktop application: normalize_      *)
(* profile (db/profile.rs), then connect_engine (db/connection.rs).  Each  *)
(* goes by its own list of wires.                                          *)
(*                                                                         *)
(* A text field is NotSet or [text, padded]: what is left of it after      *)
(* trimming, and whether it has white space around it.                     *)
(***************************************************************************)
EXTENDS Naturals, FiniteSets

CONSTANTS
  BadIds,     \* ids over 128 bytes or with control characters
  Features,   \* wires built in by a cargo feature of this build
  NotSet

Wires ==
  {"Postgres", "Mysql", "Sqlite", "SqlServer", "DuckDb", "Mongo", "Oracle", "ClickHouse",
   "Neo4j", "Memgraph", "InfluxDb", "Qdrant", "Milvus", "Pinecone", "Snowflake", "BigQuery",
   "Redis", "Cassandra", "Bigtable", "CloudSpanner", "Jdbc", "Search", "Document", "KeyValue",
   "Graph", "TimeSeries", "Lakehouse", "ObjectStore"}

(* What a profile brings. *)
Field == [text : STRING, padded : BOOLEAN]
OptionalField == Field \cup {NotSet}
EngineProfileForm ==
  [id : Field, wire : Wires, url : OptionalField, host : OptionalField,
   database : OptionalField, socketPath : OptionalField]

(* A mutant: one wire is missing from the list. *)
UnimplementedShort ==
  {"Memgraph", "Qdrant", "Milvus", "Pinecone", "Jdbc", "Search", "Document", "KeyValue",
   "CloudSpanner", "Graph", "TimeSeries", "Lakehouse"}

(* is_unimplemented_wire *)
Unimplemented ==
  {"Memgraph", "Qdrant", "Milvus", "Pinecone", "Jdbc", "Search", "Document", "KeyValue",
   "CloudSpanner", "Graph", "TimeSeries", "Lakehouse", "ObjectStore"}

(* The arm of normalize_profile that asks for a host. *)
NeedHost ==
  {"Postgres", "Mysql", "SqlServer", "Mongo", "Oracle", "ClickHouse", "Snowflake",
   "BigQuery", "Bigtable", "Redis", "Cassandra", "Neo4j", "InfluxDb"}
SocketSupported == {"Postgres", "Mysql"}

NormalizeOptionalText(value) ==
  IF value = NotSet \/ value.text = "" THEN NotSet ELSE [value EXCEPT !.padded = FALSE]

Normalized(p) ==
  [p EXCEPT !.id = [@ EXCEPT !.padded = FALSE],
            !.url = NormalizeOptionalText(@), !.host = NormalizeOptionalText(@),
            !.database = NormalizeOptionalText(@), !.socketPath = NormalizeOptionalText(@)]

AddressGiven(p) ==
  CASE p.wire = "Sqlite" -> p.database # NotSet \/ p.host # NotSet
    [] p.wire = "DuckDb" -> TRUE
    [] p.wire \in NeedHost ->
         p.host # NotSet \/ (p.wire \in SocketSupported /\ p.socketPath # NotSet)

Accepted(p) == [result |-> "accepted", profile |-> p]
Rejected(why) == [result |-> why, profile |-> NotSet]

(* normalize_profile; "unreachable" is its unreachable!().                 *)
NormalizeProfile(p) ==
  LET n == Normalized(p) IN
  IF n.id.text = "" \/ n.id.text \in BadIds \/ n.wire \in Unimplemented THEN Rejected("refused")
  ELSE IF n.url # NotSet THEN Accepted(n)
  ELSE IF n.wire \notin NeedHost \cup {"Sqlite", "DuckDb"} THEN Rejected("unreachable")
  ELSE IF AddressGiven(n) THEN Accepted(n) ELSE Rejected("refused")

-----------------------------------------------------------------------------
AlwaysBuiltIn == {"Postgres", "Mysql", "Sqlite", "InfluxDb", "ClickHouse", "Snowflake"}
ByFeature ==
  {"SqlServer", "Mongo", "DuckDb", "Oracle", "Neo4j", "BigQuery", "Bigtable", "Redis", "Cassandra"}

(* should_seed_builtin_sample, which trims the database for itself.        *)
ShouldSeedBuiltinSample(p) ==
  /\ p.id \in {[text |-> id, padded |-> FALSE] : id \in {"sqlite-memory", "duckdb-memory"}}
  /\ p.database = NotSet \/ p.database.text \in {"", ":memory:"}

(* connect_engine, with connections that succeed.                          *)
ConnectEngine(p) ==
  CASE p.wire \in AlwaysBuiltIn \cup Features ->
         [engine |-> p.wire,
          seeded |-> p.wire \in {"Sqlite", "DuckDb"} /\ ShouldSeedBuiltinSample(p)]
    [] p.wire \in ByFeature \ Features -> [engine |-> "not built in", seeded |-> FALSE]
    [] p.wire \notin AlwaysBuiltIn \cup ByFeature -> [engine |-> "no driver", seeded |-> FALSE]
=============================================================================
