# Verification of the Irodori SQL Server connector

This directory models the SQL Server connector of this repository in TLA+,
checks the models with TLC and proves the central results with TLAPS.  Paths
are relative to the repository's root; `driver.rs` is `src/driver.rs`.

## 1. The system

The repository holds a native connector (`src/`, a `cdylib` with a C entry
point) and a snapshot of the parts of the desktop application it grew out of
(`native/source/`).  `native/source/mssql.rs` is the same file as
`.../src-tauri/src/db/mssql.rs`, and `native/source/irodori-kit/*` are the same
crates as `native/source/irodori-table/crates/*`; each is listed once.

| Part | State | Operations | What is hard, and what must hold |
| --- | --- | --- | --- |
| Entry point and registry (`driver.rs:56-225, 1022-1035`) | `CONNECTIONS`, a map id -> connection behind a `std::sync::Mutex` | `connect`, `query`, `metadata`, `close`, from any number of host threads | the handle is cloned under the lock and used after it; an id may be closed or connected again meanwhile. Calls must take effect atomically on the table; no session may leak or be closed under a call; nobody may wait for the network with the registry locked |
| A connection (`driver.rs:24-29, 227-241, 765-924`) | an `Arc` around a tokio `Mutex` around the TDS client | probe the version, run a query, read the catalog | several calls share one wire; an answer may fail half-way; the peer may vanish or fall silent. A call must read its own answer and no other, completely, within its cap |
| Runtime cell (`driver.rs:60-69`) | `RUNTIME`, a `OnceLock` | `runtime()` | look and set race. All calls must share one Runtime that stays |
| Profile to configuration (`driver.rs:243-508, 661-753`) | the config under construction | `from_request`, `with_entra_token`, `tds_config`, `TlsTrust::apply` | many options interact. The login, the trust and the encryption dialled must be the ones asked for |
| Token requests (`driver.rs:510-659`) | none | service principal and managed identity over HTTP with timeouts | which endpoint and which identity, worked out from options and the environment. The token must be the identity's that the profile means |
| Catalog readers (`driver.rs:824-924`, `mssql.rs:271-548`) | the catalog under construction | two queries, or six, outside a transaction | other sessions create and drop objects between the queries. An object nobody touches must be reported exactly |
| Values (`driver.rs:926-1020`, `mssql.rs`) | none | cells to JSON, decimals to text, parameters back to TDS | sign, scale and leading zeros. A cell sent back must be the cell that was read |
| Desktop adapter (`native/source/mssql.rs`, `.../db/connection.rs`) | the same client behind a tokio `Mutex` | run, stream with cancel and cap, prepared queries, `apply_edits` in a transaction | cancel, sink failure and dropped futures between two awaits; `ROLLBACK` and `COMMIT` that fail. A batch is stored whole or not at all; a sink gets its own rows, in order |
| Engine choice (`.../db/{profile,connection}.rs`) | none | normalise a profile, choose the engine | three hand-kept lists of wires must agree |
| Query text (`.../db/query.rs`) | none | split statements, detect writes, ask for and bind parameters | quotes, comments, parameters that repeat; two lexers |
| Profiles and export (`irodori-connection`) | none | validation, portable export, secret slots | every secret a profile refers to must be asked for, through every hop |
| Transport (`.../db/transport.rs`, `irodori-proxy`) | the hop registry | plan, route, resolution of secrets | secrets change while they are read one by one; the plan shown and the route dialled are worked out apart |
| Secure store (`irodori-secure-store`) | secrets | put, get, delete, in a keychain or in memory | commands that fail before or after their effect; a failed lookup looks like an absent secret |
| Catalog model (`.../db/meta.rs`) | none | the builder; to a completion snapshot and back | the primary key is not kept in a snapshot but worked out again |
| Plan analysis (`.../db/explain.rs`) | none | one picture of any engine's plan | ids made from counters and from the engine's rows must tie nodes, edges and findings together |
| Entry point in C, manifest, `irodori-core`, re-exports, redaction | none | | not modelled, see 6 |

The parts meet as follows.  The host calls `call_json`; `connect` reads the
profile, gets the Runtime, fetches a token if one is configured, builds the TDS
configuration, dials, probes the version and only then locks the registry and
publishes the session.  `query` and `metadata` lock the registry just long
enough to clone a handle, then take turns on the client's lock.  `close` removes
the registry's handle; the session ends when the last handle goes.  The desktop
adapter is driven by the application's query manager through the `Connection`
trait and shares no state with the connector.

## 2. The modules

| Module | Models |
| --- | --- |
| `Connector` | the entry point, the registry, the handles and the TDS exchange |
| `SessionTable` | what `Connector` promises: the abstract specification |
| `ConnectorProofs` | theorems about `Connector`, and the refinement of `SessionTable` |
| `RuntimeOnce` | `runtime()` |
| `ConnectProfile`, `ProfileProofs` | a profile on its way to a dialled configuration; theorems about it and about `RuntimeOnce` |
| `EditBatch` | queries and grid edits of the desktop adapter on one session |
| `AtomicEdits` | what `EditBatch` promises: the abstract specification |
| `EditProofs` | theorems about `EditBatch` |
| `RowStream`, `StreamProofs` | streamed queries of the desktop adapter on one session; theorems about them |
| `MetadataScan` | both catalog readers beside other sessions' DDL |
| `Catalog` | the catalog builder, the completion snapshot and the way back |
| `ScanProofs` | theorems about `MetadataScan` and `Catalog` |
| `Profiles` | connection profiles: validation, export, secret slots |
| `Routes` | the hop registry, the plan shown and the route dialled |
| `SecretStores` | the keychain and the store in memory |
| `TransportResolution` | `resolve_transport` beside a user who changes secrets; composes the three above |
| `TransportProofs` | theorems about `TransportResolution`: what it reads and fails for; the plan and the slots against the route |
| `SequenceLemmas` | set induction, `FlattenSeq`, `FoldLeft`, recursion over positions and parts of sequences, for the modules of proofs that need them |
| `QueryText` | splitting, keyword searches, prompts and binding |
| `CellValues` | cells to JSON and parameters back to TDS |
| `EngineChoice` | `normalize_profile` and `connect_engine` |
| `PlanAnalysis` | nodes, edges and findings of a plan |
| `RequestChecks` | applies the four modules above to inputs; their references |
| `RequestProofs` | theorems about `RequestChecks` and what it applies |
| `MCConnector`, `MCEditBatch` | symmetry and model values for TLC |
| `MCMetadataScan`, `MCTransportResolution`, `MCRequestChecks` | inputs for TLC |

Definitions whose comment says "A mutant" are not used by any specification.
Each is a plausible bug in the definition that follows it, kept to show that a
property notices.

### Connector

A caller is a host thread inside one call.  `pc` says where its call stands and
`req` with what it came; one action is one stretch of code between two points
where another thread can be seen: taking the registry lock (`LockRegistry`),
each critical section on it (`Lookup`, `Register`, `Remove`, each giving the
lock back), joining the client's lock (`Enqueue`), sending a statement (`Ask`),
each token read (`ReadRow`, `ReadError`, `NextStatement`, `Complete`), and
dropping the local handle (`Release`).  `strong` is the `Arc`'s strong count and
`link` says whether a client exists behind it, so that a session is freed where
the code drops its last handle and nowhere else; a freed session may be
allocated again, so a stale reference would be visible.  `queue` is the FIFO of
the tokio `Mutex`; its head holds the lock.

tiberius and the server are external.  An answer is some rows and the end of
the stream, or some rows, an error and the end; sending a statement first reads
off what an earlier one left on the wire, which tiberius does; `LinkLoss` cuts
an answer anywhere.  Rows are numbered by the server so that a lost, repeated or
foreign row is visible.  The two locks are never poisoned: the release profile
aborts on panic, so `connector.statePoisoned` is unreachable and not modelled.
The answer of the version query always decodes (the banner is a string); the
error path for one that does not is the one of `NoVersion`.

`SessionTable` knows neither locks nor counts nor wires: each call takes effect
on the table in one step between its invocation and its response.  `Connector`
implements it under the mapping `Table`.

### RuntimeOnce

`runtime()` looks into the cell, builds, sets and looks again.  `OnceLock::set`
on a full cell gives the value back, and `let _ =` drops it there.

### ConnectProfile

A profile is the set of options these functions can tell apart.  Reading it
(`FromRequest`), the token request (`SendTokenRequest`), its response
(`EndTokenRequest`) and building the configuration (`TdsConfig`) are separate
steps because each may end the attempt, and a token is fetched before a bad
connection string or a missing CA file is noticed.  A request is the endpoint,
the secret that goes with it and the identity it names; which endpoint serves a
managed identity depends on two environment variables that may or may not be
set.  A response may not come, be no success, or lack the token; a request that
times out is one that is not answered.

A connection string is refused, or says any combination of
`TrustServerCertificate`, `TrustServerCertificateCA` (absent, empty or naming a
file) and an encryption.  What `ado_names_ca` reads off it (`AdoNamesCa`: a CA
that is not empty) and what tiberius' `from_ado_string` does (`SetsCa`,
`StringLevel`) are kept apart, because the panic lies where they differ.
tiberius is not in the repository; what the code does not settle about it is two
constants, and the proofs hold for all their values: `StringDefault`, the
encryption of a string that says nothing of it, and `EmptyIsCa`, whether an
empty `TrustServerCertificateCA=` sets a CA.  That `trust_cert` and
`trust_cert_ca` exclude each other with a panic is taken from the comment at
`driver.rs:308-313`; `ConfigPanics` has the three ways there: a string with
both, read by `from_ado_string` itself (`StringPanics`), and a trusting string
beside an option's CA, or an empty CA in the string beside an option that
trusts, in `apply` (`ApplyPanics`).  A leftover token field under another
`authMethod` counts as asked for, as `from_request` has it.

### EditBatch and AtomicEdits

A transaction belongs to a session, and a session to every task that has the
client's `Arc`.  `depth` is the session's `@@TRANCOUNT`, `pending` and `durable`
the changes made in the open transaction and those committed.  A task is one
call and runs once: `apply_edits`, one action per statement it sends and per way
that statement may fail, or a query, as one exchange that ends well or not.
`left` is the plan still to be run, in the code's order (deletes, updates,
inserts); `applied` is the set of statements whose rows were counted, in place
of the counts of `AppliedEdits`.  A statement may find its row gone and affect
none.  A statement that fails is undone alone or with the whole transaction, as
`XACT_ABORT` and the error decide.  The answer of a statement may also fail on a
session that stays open, after the statement took effect or before
(`Unanswered`), and `BEGIN`, `COMMIT` and `ROLLBACK` are such statements too:
`BeginFails` returns the error without a `ROLLBACK`, so that a `BEGIN` that took
effect stays open, and `RollbackFails` is the `let _ =` at `mssql.rs:809`; such a
call ends as "stranded".  Two history variables say who may have left the open
transaction (`strays`) and what of that a call found when it took the client
(`within`); the properties need them to say where an `Ok` can be relied on.  The
lock is its holder: any waiting task may
be next, which includes the FIFO of the tokio `Mutex`.  A call ends as "unsure"
when the code returns an error without knowing what the server did: a `COMMIT`
that fails, a query whose answer fails, a query whose future is dropped.  With
`EditsDropped`, `Abandon` drops the future of `apply_edits` at any of its
awaits: the guard is gone, the statement under way may still take effect, and
the transaction stays open on the session for whoever comes next.

`ReportedIsStored` holds for a batch that found no transaction open when it took
the client; `CleanSession` says that one is open only where a call that may have
left it can be named, and that a batch which returned `Ok` never is that call;
`WholeOrNothing` excepts a batch that was dropped and one whose `ROLLBACK`
failed too, because nobody has undone those.  The code returns `Ok` also in a
transaction that is not its own: after a query's `BEGIN`, which `edits_open`
shows, and after a `BEGIN` of `apply_edits` that took effect while its answer
failed.  The latter is why `ReportedIsStored` asks for `within[t] = {}` and
`believed` reads such an `Ok` as "unsure"; without them TLC finds that trace.

`AtomicEdits` has three variables: what is in the database, how each call ended
and what it reported.  The changes of a call enter in the step in which it ends.
`EditBatch` implements it with `Ok` read as "unsure" where a batch ran in a
transaction left open (`believed`).

### RowStream

`stream_query` and `stream_prepared_query` are one loop.  A step runs from one
await to the next; the awaits are the lock, the statement, each row, the header
and each batch.  `answer` is what the server sends, the rows of one result set
after those of another; `wire` holds the rows of the last answer that nobody has
read: a stream that stops early leaves them there, and the next statement makes
tiberius read them off.  `row` is the row in hand while the header is sent, the
one place where a row is taken although the token was looked at before.  The
cells of a row are left out; rows are numbered and carry the task that asked and
their result set.  A header names the result set it describes: the code sends
one, for the first row, and puts the rows of later result sets under it.
`HeaderBeforeRows` says so.  `given` is every row the sink was given, one batch after the other,
and `headers` every header with the number of rows that went before it.  Where
one batch ends and the next begins is left out, and so is the empty batch that a
stream without rows sends ahead of its late header: no property looks at
either.  `listening` is the sink's other end.  The outcomes
"failed" and "cancelled" are the code's error returns; a dropped future is
counted as failed.

### MetadataScan and Catalog

`reader` says which of the two readers runs.  A step is one query from its
statement to its last row (`Rows`) and the loop over the rows, each of which
changes `catalog` and the key of the foreign key under construction (`AddRow`);
or its failure, or one DDL statement of another session, which takes effect
between two queries.  `past` remembers what each name has stood
for since the scan began; the properties compare the report with it.  The
connector's column query registers an object it has not seen, as a table; the
adapter passes it over.  A foreign key comes as consecutive rows, and the loop
remembers the key it is in.  Types, defaults and nullability travel with their
column.  `ScanAssumption` says what definitions the server lets an object have
(`ShapeForm`): only tables have keys and indexes that a query asks for, the
columns of an index have names, a foreign key has as many columns as it refers
to and its own name among the table's.  `Catalog` has the builder and the two
conversions of `meta.rs`.

### Profiles, Routes, SecretStores, TransportResolution

A profile's text is "" when blank, its ids are sequences of the parts between
dots because slot paths are put together with dots.  `Profiles` validates
(`ValidTransport` and what it calls), exports (`Export`) and lists the secrets
an importer must supply (`RequiredSlots`).  `Routes` has the hop registry
(`InsertHop`, `ResolveChain`), the plan shown to the user (`Plan`), the secrets
`resolve_transport` reads in their order (`Reads`) and what it makes of them
(`ResolvedTransport`).  In `TransportResolution` each secret is one keychain
command (`ReadSecret`, `ReadFails`), and between two of them the user stores and
deletes secrets (`Put`, `Delete`) with commands that may fail (`PutFails`,
`DeleteFails`).  The store in memory is given the same calls.  `held` remembers
what each key has held since the resolution began.  `TransportAssumption` says
what a profile is made of, field by field as its types in the code say
(`ProfileForm`), how many secrets each login takes, and that some secret ends in
a line break.

### QueryText, CellValues, EngineChoice, PlanAnalysis, RequestChecks

Functions without state, as operators; the loops that search for an end are
written as what they find.  `RequestChecks` picks an input, calls, and keeps
the output: a step is one call of one function.  A query text is a sequence of
symbols, one for each kind of character the lexers look at.
`split_sql_statements` and the keyword searches are compared with a lexer that
goes symbol by symbol, never looks ahead, and follows the rules of a dialect
(`SqlServer`, `Postgres`, `Sqlite`): which quotes and brackets hold a name,
whether comments nest, whether a carriage return ends a line comment, whether
there are dollar quotes.  `query.rs` has one set of rules for all of them.  Where
they fall short, the reference marks the text (`beyond`) and the properties leave
it out: a bracketed or back-quoted name with a quote, a hyphen, a slash, a
dollar sign or a semicolon in it; a comment within a comment, where they nest; a
dollar sign in a word, or a dollar quote in a dialect without them; a line comment that a
carriage return ends and no line end.  On every other text `SplitsOutsideQuotes`
and `WritesAreSeen` hold for each of the three, the second with a bracketed
`[delete]` taken for the keyword and without texts that have back quotes or
carriage returns, about which the two lexers of `query.rs` disagree.  A
backslash has no symbol: MySQL's literals and PostgreSQL's `E'...'` are not
among what is read.  Nothing in the repository claims more for `query.rs`; these
are limits, not findings.  A cell of binary data is the one that does not come
back as it was, but as a string with the bytes' hexadecimal digits
(`mssql.rs:569`); `CellsSurvive` says so, and that no byte is lost.  Binding is
compared with what a server makes
of the bound text; a decimal with the value of its digits; the list of wires
`normalize_profile` accepts with the ones `connect_engine` serves.  A query is a
sequence of pieces, each plain text or one placeholder; a question mark that is
a placeholder is a piece of its own.  SQL Server
has no plan reader of its own and always gets the static analysis; the readers
of the other engines share its types and take over its findings.  A plan of
theirs is a sequence of JSON values in the order the reader visits them, each
with the place of the value it lies in, whether it is an array, whether it has
one of the keys by which a MySQL node is known and whether its figures make it
risky; SQLite's is a sequence of rows with ids from 1, a parent before its
children.
What the inputs are made of is assumed by name in `RequestChecks`:
`TextAssumption`, `QueryAssumption`, `CellAssumption`, `EngineAssumption`,
`PlanAssumption`; each gives the form of an input and bounds nothing.

## 3. The runs

| Run | Instance | What it shows |
| --- | --- | --- |
| `sessions` | 2 callers, 2 ids, 2 sessions, cap 1, answers of up to 2 rows | `TableInv` (the inductive invariant), `OwnAnswer`, `CompleteReply`, `HandlesCounted`, `PublishedAfterProbe`, `RefinesTable` |
| `silent` | 2 callers, one of two sessions may fall silent | `CloseReturns`, `ServedCallReturns` |
| `runtime` | 3 threads, 4 Runtimes | `OneRuntime` |
| `profile` | every profile and connection string | `IInv`, `LoginAsAsked`, `TlsAsAsked`, `FetchOnlyIfMeant` |
| `panic` | every profile | a counterexample to the comment on `TlsTrust::apply` |
| `edits` | 3 tasks, up to one delete, update and insert each, queries that write | `ImplementsAtomic` |
| `edits_nested` | 3 tasks, queries that write, begin, commit and roll back, batches that are dropped | `ReportedIsStored`, `WholeOrNothing`, `CleanSession` |
| `edits_open` | the same without dropped batches | a counterexample (`OkIsDurableAlone`) to the words on `Connection::apply_edits` |
| `stream` | 2 tasks, cap 3, batches of 2, answers of up to 4 rows in up to 2 result sets | `IInv`, `OwnRowsInOrder`, `OkIsComplete`, `HeaderBeforeRows`, `CancelStopsTaking`, `EveryStreamEnds` |
| `scan` | both readers, 2 names, 5 definitions, 3 DDL statements | `IInv`, `UntouchedIsExact`, `PartsAreWhole`, `SnapshotKeepsCatalog` |
| `transport` | every kind of transport, 5 handles on 4 keys, 2 secrets, 2 changes | `IInv`, `HopsHaveTheirSecrets`, `FailsOnlyForSecrets`, `StoresAgree`, `PlanShowsRoute`, `SlotsAreRead` |
| `text` | 100,000 texts in three dialects, queries of up to 4 pieces, cells of every type, profiles for all 28 wires, plans of every reader | `SplitsOutsideQuotes`, `WritesAreSeen`, `PromptsSuffice`, `BoundAsSupplied`, `CellsSurvive`, `AcceptedEnginesConnect`, `PlanHangsTogether` |

The bounds.  Two callers are enough for a call to meet another one on the same
session or the same registry entry, and to replace or close a session another
call is using.  Two sessions let an id be connected twice.  A cap of 1 with
answers of 0 to 2 rows has the answers below, at and above the cap; `MaxAnswer`
is the only bound on what the server may do.  `MaxPerKind = 1` lets a batch fail
before, between and after statements of each kind; the order within a kind is
the plan's and no property looks at it.  Three tasks let one call leave a
session that a second one edits and a third one ends.  A cap of 3 with batches
of 2 has a full batch, a last batch that is not, and answers below, at and above
the cap; `MaxSets = 2` lets the cap and a batch run across two result sets.
`Tasks` run one call each, so that these runs stop: their cfgs switch the
deadlock check off, like those of a scan, a resolution and a call that return.

`scan`: two names let one object change while the other stays, or refer to it;
the definitions include a key of two columns, an index within the key, an index
named like a column, a column with a comma in its name, and two foreign keys in
a row.  `MaxDdl = 3` lets an object be dropped, created and replaced; an object
need only change once between two queries for its parts to differ.  `transport`:
a handle with and without the default service, an account with two services, a
secret that ends in line breaks, hop names of which one continues the other,
chains of up to three hops, and one profile for each way a validation may fail.
`profile`: `StringDefault` is the login only and `EmptyIsCa` holds, with which
all three panics can be reached; `panic` has it the other way.
`MaxChanges = 2` lets a secret go and come back between two reads.  `text`:
texts of up to 4 symbols over all the lexers' characters and of 5 to 8 over
those of one construct, so that each literal and comment is opened, doubled,
closed and left open; `MaxSqlBytes = 5` has texts below, at and above the limit;
`MaxInt = 1000` stands for the largest i64; `MaxTables = 1` for the 16 objects
that a static analysis lists.  Decimals have up to four digits and scales of 0
to 4.  Plans have up to 5 values (PostgreSQL) and 4 (MySQL), in trees of every
shape: siblings at every depth, and MySQL's nodes below arrays and below values
that are no nodes.

Fairness.  A thread that can take a step that waits for nobody takes it
(`WF Local`).  `std::sync::Mutex` is not a FIFO: that a thread is not overtaken
for ever at the registry is assumed as `SF LockRegistry`; its critical sections
are a few map operations.  The tokio `Mutex` is a FIFO, so the client lock needs
no assumption beyond the fairness of its holder.  A server outside `Silent`
answers (`WF Talk`).  The code has no timeout on a statement, so nothing is
assumed of a `Silent` one: a call on it, and every call queued behind it, may
wait for ever; and dialling is not assumed to end.  In `RowStream` each task is
assumed to move (`WF Task(t)`): the server answers, and the sink takes an event
or refuses it.  A sink that does neither keeps the session's lock; nothing in
the code limits that.

The counterexamples.  `panic`: a connection string with
`TrustServerCertificate=true` and an option naming an existing CA file.
`edits_open`: a query runs `BEGIN TRANSACTION`, then a batch is applied; its
`COMMIT` closes the inner level only, `Ok` is returned and the database has none
of it; both calls have returned `Ok` (`OkIsDurableAlone`).  Where one may have
returned an error there is a second way (`OkIsDurable`, which no run checks): no
query opens a transaction, but the `BEGIN` of a batch takes effect and its
answer is lost; `?` returns the error without a `ROLLBACK` (`mssql.rs:708`), and
the next batch ends with `Ok` inside that transaction.  `edits_nested` shows the
other half: even then, and even when other batches are dropped half-way and
leave their transaction open, no part of a batch that runs to its end is ever
stored without the rest.  A batch that is
itself dropped makes no such promise: what it did may be committed by a later
call's `COMMIT`.  Nor does one whose `ROLLBACK` fails as well.

What the runs say of the code beside that.  `UntouchedIsExact` has
one exception: `string_agg` joins an index's columns with commas and the code
splits at commas (`mssql.rs:393`), so that the column list of an index over a
column with a comma in its name comes apart.  `PartsAreWhole` is what a catalog
read in several queries still promises of an object that changes meanwhile: it
may appear as a table without columns, or with the indexes of its successor.
`SnapshotKeepsCatalog` holds for the primary key only as long as the key's own
index was reported with its columns, and no other index lies within the key or
bears the name of one of its columns.
`FailsOnlyForSecrets`: validation lets through a handle with control characters
that the store then refuses.  `StoresAgree` leaves out accounts with two services
and keys on which a change has failed, where the stores do differ.
In `PlanHangsTogether`, the first row of SQLite's plan has no parent if its
parent is not among the rows, and findings taken over from the static analysis
name nodes of that analysis, not of the plan they are shown with.

## 4. The proofs

Each theorem holds for every value of the constants that the module's assumption
allows: any number of callers, tasks, sessions, hops and secrets, any cap, batch
and length of answer, any number of objects and any definitions, any text, query,
cell, profile and plan of the assumed form.  Every invariant and action property
of every passing run has one.

| Module | Theorems | Rest on |
| --- | --- | --- |
| `ConnectorProofs` | `Invariance`, `TypeCorrect`, `AnswersAreOwn` | `Connector!IInv` |
| | `HandlesAreCounted`, `TableIsSound`, `RepliesAreComplete`, `PublishedWhenProbed`, `TableImplemented` | `Connector!TableInv` |
| `EditProofs` | `ReportsAreStored`, `SessionIsClean`, `BatchesAreWhole` | `EditBatch!IInv` |
| | `EditsAreAtomic` | `EditBatch!IInv`, `OnlyWrites` |
| `StreamProofs` | `StreamsAreSound`, `SinksGetTheirRows`, `OkMeansAll`, `HeaderComesFirst`, `CancelIsFinal` | `RowStream!IInv` |
| `ProfileProofs` | `AttemptsAreSound`, `LoginIsAsAsked`, `TlsIsAsAsked`, `FetchesAreMeant` | `ConnectProfile!IInv` |
| | `EveryCallSharesTheRuntime`, `NoRuntimeLeaks` | `RuntimeOnce!Ownership` |
| `TransportProofs` | `ResolutionsAreSound`, `SecretsReachTheirHops`, `OnlySecretsFail`, `StoresAnswerAlike` | `TransportResolution!IInv` |
| | `PlansAreFaithful`, `ImportersAreAsked` | the form of a profile |
| `ScanProofs` | `ScanIsTraced`, `UntouchedIsReported`, `NoPartIsMixed`, `SnapshotRoundTrip` | `MetadataScan!IInv` |
| `RequestProofs` | `StatementsAreFound`, `WritesAreFound`, `PromptsAreEnough`, `ParametersAreBound`, `CellsComeBack`, `EnginesAgree`, `PlansAreWhole` | `Answered`: the inputs' form, and an output is the function's |

**Connector.**  `OwnAnswer` is not inductive: that what a call reads is its own
depends on the client's lock being held by the reader alone (`QueueHonest`: each
waiting call is in its session's queue once, and a reader is at its head), on a
call owning a handle exactly in the phases that use one (`HandleHeld`), and on
the rows still on the wire continuing where the rows kept end (`RowsContinue`).
`HandlesCounted` comes from one lemma on how a count changes when one place of a
function is rewritten (`CountMoves`).  The refinement of `SessionTable` needs
more, which `TableInv` adds: a session being connected is held by its own call
and nobody else (`OwnedAlone`), is published only once its version is read
(`Probed`), an answer's end is counted (`EndCounts`), and a call keeps what its
request and its phase say (`CallShape`).  With it each step of `Connector` is
one of `SessionTable` or leaves the table as it is; the step in which a call
takes effect is its critical section on the registry.  `ConnectorAssumption`:
finitely many callers and ids, and `None` not among the values.

**Edits.**  One invariant serves whatever queries do to the transaction and
whichever statements fail.  `Levels` says that without `strays` an open
transaction is one level deep and its batch's own, and that a batch running on an
open session is in a transaction, its own or one within what `strays` left.
`Fates` follows the changes of each batch through transactions of any depth:
nowhere before it runs, in the open transaction while it runs, nowhere once it
has failed, after its `COMMIT` together, in the transaction, in the database or
gone, and in the database if it found no transaction open.  A step of another
task can only leave them, undo the open ones or make them durable (`Passes`).
`EditsAreAtomic` needs `OnlyWrites`: no query opens or ends a transaction and no
batch is dropped half-way.  A batch that ran in a transaction left open may become durable after it has ended,
by another call's `COMMIT`; without queries that send one and without dropped
batches no level is ever closed from outside, so that every step which changes
`durable` is one in which a call ends.  The other three hold without it.

**Streams.**  `OwnRowsInOrder` is not inductive: `IInv` adds that a task reads
only while it holds the client and that the wire then has the rest of its own
answer, after the row in hand (`Turn`), and where a stream stands in its answer
when it sends the header, stops at the cap or comes to the end (`Place`).  Then
each row is with the sink, in the batch, in hand or on the wire, in this order
and nowhere twice.

**Profiles.**  `Handed` says what each stage hands to the next: the token and the
credential that the profile brings, a request for the identity it means, and the
token of that identity; what is dialled is the configuration of a profile that
is neither refused nor panics, and a panic takes one of the three combinations.
`TlsIsAsAsked` then goes through the encryption words and the string's own, for
both values of `EmptyIsCa` and any `StringDefault`.  `ProfileAssumption` says
that `None` is no profile, request, configuration or option.

**Transport.**  `ReadFromHeld` says that each value read was held under its own
handle, `StoresMatch` that the two stores differ only where a service or a
failed change sets them apart.  That the secrets then reach their hops, that the
plan is the route and that the slots are the reads is about sequences put
together from parts of different lengths.  `SequenceLemmas` has what that takes:
an induction over the length of a sequence, as set induction on the naturals (no
operator as a parameter), from which comes `FlattenSeq` of the community modules
one part at a time; then that mapping after flattening is flattening after
mapping (`FlattenMapped`), and that a flattened sequence has no element twice if
its parts have none and share none (`FlattenInjective`).  `TransportAssumption`
is described in section 2.

**Scans.**  The properties are about the end of a scan.  `IInv` says what they
come from after any number of queries: the kind and each part that an object is
reported with are those of definitions it had since the scan began and that a
query has asked for (`Attributed`; a part is empty before its query), and a name
whose definition has not changed is there once it has been asked for, with every
part that has been read (`Exact`).  A step of it is a whole answer, so most of
the proof is about `Fold`: an answer's rows come name by name (`RowsByName`), the
rows of one name change nothing under another (`Becomes`), an object's columns,
indexes and key arrive one by one and in order (`BlockAttached`), and each
foreign key begins with its first row and ends with its last, because the rows
before it belong to another name or another constraint (`KeyAttached`,
`KeysAttached`; `Ready`).  `QueryEffect` puts this together: what an answer makes
of every name.  A column list that is joined with commas and split again is the
same list if no name has a comma (`ListedIs`), and the key that a snapshot gives
back is that of its first primary index (`KeyIsRestored`).

**Requests.**  `RequestChecks` calls pure functions, so that its invariant
`Answered` is short and the work is in the functions.

*The splitter* (`StatementsAreFound`) is a function that jumps ahead over
positions; `JumpsExist` of `SequenceLemmas` gives such functions.  The proof goes through a
lexer with the rules of `query.rs`, a fold, laid out as a run with one state per
symbol (`LexRun`; `LexReads` says what one symbol does).  Wherever the splitter looks, the lexer is
outside and in the middle of no opening (`Boundary`).  What the splitter skips
there ends where the lexer is outside again, or with the text, and between the
two nothing is cut off (`QuoteLands`, `LineLands`, `BlockLands`, `DollarLands`;
`NothingOpens` for the other symbols).  Induction from the end of the text down to its
first position gives that what the lexer has and what the splitter still finds
are the same all the way (`SplitsAsLexed`).  Beside that lexer
(`SimpleReference`) goes the reference of a dialect, over the same text: until it
marks the text as beyond `query.rs` the two are alike (`ReadsAlike`, kept by each
symbol: `LexSteps`); within a bracketed or back-quoted name the simple one is in
code, where without a symbol that it acts on it opens nothing and reads the same
words.  So a text that is `Known` has the same pieces and the same words for both
(`KnownIsRead`), which carries this theorem and the next to every dialect.

*Keywords* (`WritesAreFound`).  The same induction for `SqlTokenIter`
(`TokensAsLexed`): beside the above, no word is being read where it looks
(`Between`).  But it reads each statement on its own, cut off and trimmed, and
the lexer the whole text.  Two states are alike (`Like`) if they differ in the
words they have and in what the lexer never asks for; they stay so whatever is
read (`LikeOn`).  The blanks that are trimmed away change nothing: before the
statement they leave the lexer like a new one, behind it they end a word and
never a dollar quote (`BlankEnds`, `TrimLexes`).  So behind any number of symbols
the words read so far are those of the statements cut off and those of the one
being read (`Collected`), which at the end of the text is the theorem.

*Parameters* (`ParametersAreBound`, `PromptsAreEnough`).  The bound statement and
the one with the values in place grow piece by piece together (`Alike`): the
server makes the second of the first, and where placeholders are question marks
there are as many as parameters so far.  The prompts are a fold that keeps each
key once (`PromptsAsk`).  *Cells* (`CellsComeBack`): the digits of a decimal are a
recursion over `k \div 10`, its reference value a fold over `k * 10`; one undoes
the other whatever the number of digits, the scale and the sign
(`DecimalsKeepTheirValue`).  *Engines* (`EnginesAgree`): by cases on the wire.
*Plans* (`PlansAreWhole`): the readers that recurse are folds over the values; a
call keeps that the ids number the nodes, that each node hangs under one before
it, and that what it passes on to the calls for its children names a node that is
drawn higher than they will be (`Chain`, `Passes`).  The other readers place their
nodes by position.

Only model-checked: liveness (`CloseReturns`, `ServedCallReturns`,
`EveryStreamEnds`), which is out of the prover's reach.  `edits_open` and
`panic` are counterexamples.  What the runs alone show beside that is that the
assumptions of the proofs have inputs: TLC evaluates each of them on an instance.

## 5. The plan

Everything of the first plan is modelled but for what section 6 lists, and
everything in it that can be proved is proved.  What a next step could take up
is in the code rather than here: a timeout on a statement (section 6), after
which `ServedCallReturns` could be asked of a silent server too.

## 6. What is not modelled, and why

- The bytes of TDS, TLS and HTTP are tiberius's and reqwest's; the proxy and the
  timeouts of the token client are left out, since a request that times out
  fails like any other.
- `db/edit.rs`, `db/stream.rs`, `db/engine.rs`, `detect_parameters`, the other
  engines and the query manager are not in the repository; the modules model
  them from how the code here uses them.
- `explain.rs`: the lexer `sql_words`, the figures and thresholds that make a
  node risky, the impact scores, and the cards and their texts.  They decide
  wording and colours.
- `profile.rs`: redaction rewrites the wording of error messages.
- The adapter's `connect` and `version` are the connector's without its options
  and its table; a model of them would repeat `Connector` and `ConnectProfile`.
- The exported C functions hand a buffer on; the manifest is data; the ABI crate
  is not in the repository.  `irodori-core` and the re-exports have no behaviour.
- `put_connection_secret` has no caller; `diagnostics_template` copies a plan.
- `bounded_query_cap` is two comparisons.
- No statement has a timeout, so that a server that falls silent keeps its caller
  and those behind it waiting; nothing is promised of them and nothing checked
  but that the others are not affected.
- The formatting of cells, errors and replies is left out except where a
  property is about it.
