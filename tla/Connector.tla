------------------------------ MODULE Connector ------------------------------
(***************************************************************************)
(* The connector of src/driver.rs as its host sees it: several host        *)
(* threads call the C entry point at once, each with one of connect,       *)
(* query, metadata and close.  They share                                  *)
(*                                                                         *)
(*   - CONNECTIONS, a map from connection id to connection behind a        *)
(*     std::sync::Mutex that is held for one map operation at a time, and  *)
(*   - the connections themselves: an Arc whose last handle closes the     *)
(*     TDS session when it is dropped, around a tokio Mutex that one call  *)
(*     at a time holds while it sends statements and reads the answer.     *)
(*                                                                         *)
(* How a profile becomes a dialled session (and why it may not) is in      *)
(* ConnectProfile; here a dial succeeds or fails.                          *)
(***************************************************************************)
EXTENDS Integers, Sequences, FiniteSets

CONSTANTS
  Callers,    \* host threads inside irodori_connector_call_json
  Ids,        \* connection ids
  Sessions,   \* Arc<AsyncMutex<TdsClient>> allocations; one is reused once freed
  Sql,        \* the statements a host runs
  Cap,        \* maxRows of a query
  MaxAnswer,  \* bound: rows the server answers a statement with
  Silent,     \* the sessions whose server may stop answering for ever
  None

(* The statements the driver itself sends. *)
Version == "select @@version"
Objects == "information_schema.tables"
Columns == "information_schema.columns"
Statements == Sql \cup {Version, Objects, Columns}

ASSUME ConnectorAssumption ==
  /\ Cap \in Nat
  /\ MaxAnswer \in Nat
  /\ IsFiniteSet(Callers) /\ IsFiniteSet(Ids)
  /\ Silent \subseteq Sessions
  /\ None \notin Sessions \cup Callers \cup Ids

VARIABLES
  registry,   \* CONNECTIONS: id -> session, or None
  guard,      \* the caller holding the lock of CONNECTIONS, or None
  link,       \* session -> "free" (no TdsClient), "open", "lost" (peer gone)
  strong,     \* session -> strong count of the Arc
  queue,      \* session -> FIFO of the tokio Mutex; its head holds the lock
  answer,     \* session -> tokens the server sent and nobody has read
  pc,         \* caller -> where its call stands
  req,        \* caller -> the method and connection id of its call
  conn,       \* caller -> the handle it owns, or None
  todo,       \* caller -> statements its call has still to complete
  rows,       \* caller -> rows kept of the statement it is reading
  more,       \* caller -> a row came after the cap (truncated)
  outcome     \* caller -> what its call returns

sessionVars == <<link, strong, queue, answer>>
replyVars   == <<rows, more, outcome>>
vars == <<registry, guard, sessionVars, pc, req, conn, todo, replyVars>>

Tokens == [kind : {"row", "error", "done"}, sql : Statements, n : Nat]
Methods == {"none", "connect", "query", "metadata", "close"}
Phases == {"idle", "dial", "lock", "ask", "read", "register", "lookup",
           "remove", "release", "reply"}
Outcomes == {"pending", "ok", "failed", "notFound", "invalid", "closed", "absent"}

TypeOK ==
  /\ registry \in [Ids -> Sessions \cup {None}]
  /\ guard \in Callers \cup {None}
  /\ link \in [Sessions -> {"free", "open", "lost"}]
  /\ strong \in [Sessions -> Int]
  /\ queue \in [Sessions -> Seq(Callers)]
  /\ answer \in [Sessions -> Seq(Tokens)]
  /\ pc \in [Callers -> Phases]
  /\ req \in [Callers -> [op : Methods, id : Ids \cup {None}]]
  /\ conn \in [Callers -> Sessions \cup {None}]
  /\ todo \in [Callers -> Seq(Statements)]
  /\ rows \in [Callers -> Seq(Tokens)]
  /\ more \in [Callers -> BOOLEAN]
  /\ outcome \in [Callers -> Outcomes]

NoRequest == [op |-> "none", id |-> None]

Init ==
  /\ registry = [i \in Ids |-> None]
  /\ guard = None
  /\ link = [s \in Sessions |-> "free"]
  /\ strong = [s \in Sessions |-> 0]
  /\ queue = [s \in Sessions |-> <<>>]
  /\ answer = [s \in Sessions |-> <<>>]
  /\ pc = [c \in Callers |-> "idle"]
  /\ req = [c \in Callers |-> NoRequest]
  /\ conn = [c \in Callers |-> None]
  /\ todo = [c \in Callers |-> <<>>]
  /\ rows = [c \in Callers |-> <<>>]
  /\ more = [c \in Callers |-> FALSE]
  /\ outcome = [c \in Callers |-> "pending"]

-----------------------------------------------------------------------------
(* What the server may answer a statement with: some rows, then the end of *)
(* the stream, or an error token with the end of the stream behind it.     *)
(* The final token counts the rows, as the DONE token of TDS does.         *)

Token(k, q, i) == [kind |-> k, sql |-> q, n |-> i]
RowsOf(q, m) == [i \in 1..m |-> Token("row", q, i)]

Answers(q) ==
  UNION {{RowsOf(q, m) \o <<Token("done", q, m)>>,
          RowsOf(q, m) \o <<Token("error", q, m), Token("done", q, m)>>} :
         m \in 0..MaxAnswer}

(* The rows a call keeps of one statement: a query stops at its cap, the   *)
(* driver's own statements keep what comes.                                *)
KeepsOneMore(c) == req[c].op = "query" => Len(rows[c]) <= Cap  \* a mutant: off by one
Keeps(c) == req[c].op = "query" => Len(rows[c]) < Cap

(* Dropping one handle of s; the last one drops the client, which closes   *)
(* the session and whatever it had still to say.                           *)
DropHandle(s) ==
  /\ strong' = [strong EXCEPT ![s] = @ - 1]
  /\ link' = IF strong[s] = 1 THEN [link EXCEPT ![s] = "free"] ELSE link
  /\ answer' = IF strong[s] = 1 THEN [answer EXCEPT ![s] = <<>>] ELSE answer

Holds(c, s) == queue[s] # <<>> /\ Head(queue[s]) = c

Goto(c, phase) == pc' = [pc EXCEPT ![c] = phase]

(* How many places f assigns v. *)
Count(f, v) == Cardinality({x \in DOMAIN f : f[x] = v})

-----------------------------------------------------------------------------
(* A call arrives.  A request that cannot be read (no sql, an unusable     *)
(* profile) is answered before anything is touched.                        *)

Begin(c, op, i, statements, phase) ==
  /\ pc[c] = "idle"
  /\ Goto(c, phase)
  /\ req' = [req EXCEPT ![c] = [op |-> op, id |-> i]]
  /\ todo' = [todo EXCEPT ![c] = statements]
  /\ UNCHANGED <<registry, guard, sessionVars, conn, replyVars>>

CallConnect(c, i)  == Begin(c, "connect", i, <<Version>>, "dial")
CallQuery(c, i, q) == Begin(c, "query", i, <<q>>, "lookup")
CallMetadata(c, i) == Begin(c, "metadata", i, <<Objects, Columns>>, "lookup")
CallClose(c, i)    == Begin(c, "close", i, <<>>, "remove")

BadRequest(c) ==
  /\ pc[c] = "idle"
  /\ Goto(c, "reply")
  /\ outcome' = [outcome EXCEPT ![c] = "invalid"]
  /\ UNCHANGED <<registry, guard, sessionVars, req, conn, todo, rows, more>>

-----------------------------------------------------------------------------
(* Dialling: SqlServerConnection::new owns the session it opens; nobody    *)
(* else can reach it before it is in the registry.                         *)

(* A mutant: connect publishes the session before it has probed it.        *)
DialUnprobed(c, s) ==
  /\ pc[c] = "dial"
  /\ link[s] = "free"
  /\ link' = [link EXCEPT ![s] = "open"]
  /\ strong' = [strong EXCEPT ![s] = 1]
  /\ conn' = [conn EXCEPT ![c] = s]
  /\ Goto(c, "register")
  /\ UNCHANGED <<registry, guard, queue, answer, req, todo, replyVars>>

Dial(c, s) ==
  /\ pc[c] = "dial"
  /\ link[s] = "free"
  /\ link' = [link EXCEPT ![s] = "open"]
  /\ strong' = [strong EXCEPT ![s] = 1]
  /\ conn' = [conn EXCEPT ![c] = s]
  /\ Goto(c, "lock")
  /\ UNCHANGED <<registry, guard, queue, answer, req, todo, replyVars>>

DialFails(c) ==
  /\ pc[c] = "dial"
  /\ Goto(c, "reply")
  /\ outcome' = [outcome EXCEPT ![c] = "failed"]
  /\ todo' = [todo EXCEPT ![c] = <<>>]
  /\ UNCHANGED <<registry, guard, sessionVars, req, conn, rows, more>>

-----------------------------------------------------------------------------
(* load_version, run_query and load_metadata: lock the client, run the     *)
(* statements one after the other, read each answer to its end, unlock.    *)

Enqueue(c) ==
  /\ pc[c] = "lock"
  /\ queue' = [queue EXCEPT ![conn[c]] = Append(@, c)]
  /\ Goto(c, "ask")
  /\ UNCHANGED <<registry, guard, link, strong, answer, req, conn, todo, replyVars>>

(* A mutant: the error path leaves the client locked.                      *)
FailLocked(c) ==
  /\ todo' = [todo EXCEPT ![c] = <<>>]
  /\ rows' = [rows EXCEPT ![c] = <<>>]
  /\ more' = [more EXCEPT ![c] = FALSE]
  /\ outcome' = [outcome EXCEPT ![c] = "failed"]
  /\ Goto(c, "release")
  /\ UNCHANGED <<registry, guard, link, strong, queue, req, conn>>

(* The function returns an error, which gives up the lock; the stream it   *)
(* was reading is dropped with whatever was left on the wire.              *)
Fail(c) ==
  /\ queue' = [queue EXCEPT ![conn[c]] = Tail(@)]
  /\ todo' = [todo EXCEPT ![c] = <<>>]
  /\ rows' = [rows EXCEPT ![c] = <<>>]
  /\ more' = [more EXCEPT ![c] = FALSE]
  /\ outcome' = [outcome EXCEPT ![c] = "failed"]
  /\ Goto(c, "release")
  /\ UNCHANGED <<registry, guard, link, strong, req, conn>>

(* A mutant: a statement is sent without waiting for the client's lock.    *)
AskUnlocked(c) ==
  LET s == conn[c] IN
  /\ pc[c] = "ask"
  /\ link[s] = "open"
  /\ \E a \in Answers(Head(todo[c])) : answer' = [answer EXCEPT ![s] = a]
  /\ rows' = [rows EXCEPT ![c] = <<>>]
  /\ more' = [more EXCEPT ![c] = FALSE]
  /\ Goto(c, "read")
  /\ UNCHANGED <<registry, guard, link, strong, queue, req, conn, todo, outcome>>

(* tiberius reads off what an earlier statement left before it sends a new *)
(* one, so the answer replaces whatever was on the wire.                   *)
Ask(c) ==
  LET s == conn[c] IN
  /\ pc[c] = "ask"
  /\ Holds(c, s)
  /\ link[s] = "open"
  /\ \E a \in Answers(Head(todo[c])) : answer' = [answer EXCEPT ![s] = a]
  /\ rows' = [rows EXCEPT ![c] = <<>>]
  /\ more' = [more EXCEPT ![c] = FALSE]
  /\ Goto(c, "read")
  /\ UNCHANGED <<registry, guard, link, strong, queue, req, conn, todo, outcome>>

AskFails(c) ==
  /\ pc[c] = "ask"
  /\ Holds(c, conn[c])
  /\ link[conn[c]] = "lost"
  /\ Fail(c)
  /\ UNCHANGED answer

(* The next token of the answer is of this kind, and c takes it.           *)
Receive(c, kind) ==
  LET s == conn[c] IN
  /\ pc[c] = "read"
  /\ answer[s] # <<>>
  /\ Head(answer[s]).kind = kind
  /\ answer' = [answer EXCEPT ![s] = Tail(@)]

ReadRow(c) ==
  /\ Receive(c, "row")
  /\ IF Keeps(c)
       THEN /\ rows' = [rows EXCEPT ![c] = Append(@, Head(answer[conn[c]]))]
            /\ UNCHANGED more
       ELSE /\ more' = [more EXCEPT ![c] = TRUE]
            /\ UNCHANGED rows
  /\ UNCHANGED <<registry, guard, link, strong, queue, pc, req, conn, todo, outcome>>

ReadError(c) == Receive(c, "error") /\ Fail(c)

ReadLost(c) ==
  /\ pc[c] = "read"
  /\ answer[conn[c]] = <<>>
  /\ link[conn[c]] = "lost"
  /\ Fail(c)
  /\ UNCHANGED answer

(* A mutant: the catalog is read under one lock per statement.             *)
NextStatementUnlocks(c) ==
  /\ Len(todo[c]) > 1
  /\ Receive(c, "done")
  /\ todo' = [todo EXCEPT ![c] = Tail(@)]
  /\ queue' = [queue EXCEPT ![conn[c]] = Tail(@)]
  /\ Goto(c, "ask")
  /\ UNCHANGED <<registry, guard, link, strong, req, conn, replyVars>>

(* The catalog has a second statement to run, under the same lock.         *)
NextStatement(c) ==
  /\ Len(todo[c]) > 1
  /\ Receive(c, "done")
  /\ todo' = [todo EXCEPT ![c] = Tail(@)]
  /\ Goto(c, "ask")
  /\ UNCHANGED <<registry, guard, link, strong, queue, req, conn, replyVars>>

(* The last answer was read to its end: unlock and go on.  The rows leave   *)
(* with the reply; a connect has still to publish the session they vouch   *)
(* for.                                                                    *)
Complete(c) ==
  /\ Len(todo[c]) = 1
  /\ ~(req[c].op = "connect" /\ rows[c] = <<>>)
  /\ Receive(c, "done")
  /\ queue' = [queue EXCEPT ![conn[c]] = Tail(@)]
  /\ todo' = [todo EXCEPT ![c] = <<>>]
  /\ IF req[c].op = "connect"
       THEN Goto(c, "register") /\ UNCHANGED replyVars
       ELSE /\ Goto(c, "release")
            /\ outcome' = [outcome EXCEPT ![c] = "ok"]
            /\ rows' = [rows EXCEPT ![c] = <<>>]
            /\ more' = [more EXCEPT ![c] = FALSE]
  /\ UNCHANGED <<registry, guard, link, strong, req, conn>>

(* "version query returned no rows."                                       *)
NoVersion(c) ==
  /\ req[c].op = "connect"
  /\ rows[c] = <<>>
  /\ Receive(c, "done")
  /\ Fail(c)

-----------------------------------------------------------------------------
(* The critical sections on the registry.                                  *)

LockRegistry(c) ==
  /\ pc[c] \in {"lookup", "register", "remove"}
  /\ guard = None
  /\ guard' = c
  /\ UNCHANGED <<registry, sessionVars, pc, req, conn, todo, replyVars>>

(* A mutant: the guard of a lookup lives as long as the call.              *)
InRegistryForLong(c, phase) ==
  guard = c /\ pc[c] = phase /\ guard' = IF phase = "lookup" THEN c ELSE None

InRegistry(c, phase) == guard = c /\ pc[c] = phase /\ guard' = None

Lookup(c) ==
  LET s == registry[req[c].id] IN
  /\ InRegistry(c, "lookup")
  /\ IF s = None
       THEN /\ Goto(c, "reply")
            /\ outcome' = [outcome EXCEPT ![c] = "notFound"]
            /\ todo' = [todo EXCEPT ![c] = <<>>]
            /\ UNCHANGED <<strong, conn>>
       ELSE /\ Goto(c, "lock")
            /\ strong' = [strong EXCEPT ![s] = @ + 1]
            /\ conn' = [conn EXCEPT ![c] = s]
            /\ UNCHANGED <<outcome, todo>>
  /\ UNCHANGED <<registry, link, queue, answer, req, rows, more>>

(* A mutant: an id that is connected already keeps its session.            *)
RegisterKeepsOld(c) ==
  LET old == registry[req[c].id] IN
  /\ InRegistry(c, "register")
  /\ registry' = [registry EXCEPT ![req[c].id] = IF old = None THEN conn[c] ELSE old]
  /\ conn' = [conn EXCEPT ![c] = None]
  /\ outcome' = [outcome EXCEPT ![c] = "ok"]
  /\ rows' = [rows EXCEPT ![c] = <<>>]
  /\ Goto(c, "reply")
  /\ IF old = None THEN UNCHANGED <<link, strong, answer>> ELSE DropHandle(conn[c])
  /\ UNCHANGED <<queue, req, todo, more>>

(* HashMap::insert: the handle moves into the map and the one it replaces, *)
(* if any, is dropped.                                                     *)
Register(c) ==
  LET old == registry[req[c].id] IN
  /\ InRegistry(c, "register")
  /\ registry' = [registry EXCEPT ![req[c].id] = conn[c]]
  /\ conn' = [conn EXCEPT ![c] = None]
  /\ outcome' = [outcome EXCEPT ![c] = "ok"]
  /\ rows' = [rows EXCEPT ![c] = <<>>]
  /\ Goto(c, "reply")
  /\ IF old = None THEN UNCHANGED <<link, strong, answer>> ELSE DropHandle(old)
  /\ UNCHANGED <<queue, req, todo, more>>

(* A mutant: close ends the session under the calls that use it.           *)
RemoveAndDisconnect(c) ==
  LET old == registry[req[c].id] IN
  /\ InRegistry(c, "remove")
  /\ registry' = [registry EXCEPT ![req[c].id] = None]
  /\ Goto(c, "reply")
  /\ outcome' = [outcome EXCEPT ![c] = IF old = None THEN "absent" ELSE "closed"]
  /\ IF old = None
       THEN UNCHANGED <<link, strong, answer>>
       ELSE /\ strong' = [strong EXCEPT ![old] = @ - 1]
            /\ link' = [link EXCEPT ![old] = "free"]
            /\ answer' = [answer EXCEPT ![old] = <<>>]
  /\ UNCHANGED <<queue, req, conn, todo, rows, more>>

Remove(c) ==
  LET old == registry[req[c].id] IN
  /\ InRegistry(c, "remove")
  /\ registry' = [registry EXCEPT ![req[c].id] = None]
  /\ Goto(c, "reply")
  /\ IF old = None
       THEN /\ outcome' = [outcome EXCEPT ![c] = "absent"]
            /\ UNCHANGED <<link, strong, answer>>
       ELSE /\ outcome' = [outcome EXCEPT ![c] = "closed"]
            /\ DropHandle(old)
  /\ UNCHANGED <<queue, req, conn, todo, rows, more>>

-----------------------------------------------------------------------------
(* The end of a query or metadata call, or of a connect that failed: the   *)
(* local handle is dropped after the lock was given up.                    *)

Release(c) ==
  /\ pc[c] = "release"
  /\ conn' = [conn EXCEPT ![c] = None]
  /\ DropHandle(conn[c])
  /\ Goto(c, "reply")
  /\ UNCHANGED <<registry, guard, queue, req, todo, replyVars>>

Return(c) ==
  /\ pc[c] = "reply"
  /\ Goto(c, "idle")
  /\ req' = [req EXCEPT ![c] = NoRequest]
  /\ outcome' = [outcome EXCEPT ![c] = "pending"]
  /\ UNCHANGED <<registry, guard, sessionVars, conn, todo, rows, more>>

(* The peer or the network goes away, with some of the answer still unread. *)
LinkLoss(s) ==
  /\ link[s] = "open"
  /\ link' = [link EXCEPT ![s] = "lost"]
  /\ \E k \in 0..Len(answer[s]) : answer' = [answer EXCEPT ![s] = SubSeq(@, 1, k)]
  /\ UNCHANGED <<registry, guard, strong, queue, pc, req, conn, todo, replyVars>>

-----------------------------------------------------------------------------

Arrive(c) ==
  \/ BadRequest(c)
  \/ \E i \in Ids : \/ CallConnect(c, i) \/ CallMetadata(c, i) \/ CallClose(c, i)
                    \/ \E q \in Sql : CallQuery(c, i, q)

(* Steps that wait for nobody. *)
Local(c) == Enqueue(c) \/ Lookup(c) \/ Register(c) \/ Remove(c) \/ Release(c) \/ Return(c)

(* Steps that wait for the server (and, for Ask, for the client lock). *)
Talk(c) ==
  \/ Ask(c) \/ AskFails(c)
  \/ ReadRow(c) \/ ReadError(c) \/ ReadLost(c)
  \/ NextStatement(c) \/ Complete(c) \/ NoVersion(c)

Next ==
  \/ \E c \in Callers : \/ Arrive(c) \/ Local(c) \/ Talk(c) \/ LockRegistry(c)
                       \/ DialFails(c) \/ \E s \in Sessions : Dial(c, s)
  \/ \E s \in Sessions : LinkLoss(s)

(* Host threads are scheduled.  std::sync::Mutex is not a FIFO, so that a  *)
(* thread is not overtaken for ever at the registry is strong fairness on  *)
(* taking it; the tokio Mutex is a FIFO and needs none.  A server that is  *)
(* not Silent answers; nothing is assumed of dialling or of Silent ones.   *)
Fairness == \A c \in Callers :
  /\ WF_vars(Local(c))
  /\ SF_vars(LockRegistry(c))
  /\ WF_vars(conn[c] \notin Silent /\ Talk(c))

Spec == Init /\ [][Next]_vars
FairSpec == Spec /\ Fairness

-----------------------------------------------------------------------------
(* Safety.                                                                 *)

(* What a call has read, and what it is about to read, answers the         *)
(* statement it sent and nothing else, in order and without a gap: calls   *)
(* that share a session never see each other's rows, and a statement that  *)
(* failed half-way leaves nothing the next one could take for its own      *)
(* (driver.rs run_query, load_version, load_metadata under the client lock).*)
OwnAnswer == \A c \in Callers : pc[c] = "read" =>
  /\ \A i \in 1..Len(rows[c]) : rows[c][i] = Token("row", Head(todo[c]), i)
  /\ \A i \in 1..Len(answer[conn[c]]) : answer[conn[c]][i].sql = Head(todo[c])

(* Every Arc handle is accounted for: the strong count of a session is the *)
(* number of registry entries and calls that hold it, and the session is   *)
(* open or lost exactly while that is not zero.  No session leaks when an  *)
(* id is connected twice or a connect fails after dialling, and none is    *)
(* closed under a call that uses it when its id is closed or reconnected.  *)
HandlesCounted == \A s \in Sessions :
  /\ strong[s] = Count(registry, s) + Count(conn, s)
  /\ link[s] = "free" <=> strong[s] = 0

(* A query that returns ok read its answer to the end: it returns the      *)
(* first Cap rows, all of them if there were no more, and says truncated   *)
(* exactly when the server had more (run_query's loop over the stream).    *)
CompleteReply == [][\A c \in Callers :
  (req[c].op = "query" /\ outcome[c] # "ok" /\ outcome'[c] = "ok") =>
    LET end == Head(answer[conn[c]]) IN
    /\ end.kind = "done"
    /\ Len(rows[c]) = IF end.n < Cap THEN end.n ELSE Cap
    /\ more[c] = (end.n > Cap)]_vars

(* The connect that dialled s for i holds it alone and has its version.     *)
ReadyFor(i, s) ==
  /\ strong[s] = 1 /\ queue[s] = <<>>
  /\ \E c \in Callers : /\ conn[c] = s /\ req[c] = [op |-> "connect", id |-> i]
                        /\ \E k \in 1..Len(rows[c]) : rows[c][k].sql = Version

(* A session becomes visible under an id only when the connect that dialled *)
(* it for that id has had its version query answered, and at that moment   *)
(* nobody else holds the session or waits for it (connect registers last). *)
PublishedAfterProbe ==
  [][\A i \in Ids : registry'[i] \notin {registry[i], None} => ReadyFor(i, registry'[i])]_vars

(* The calls take effect one at a time on a plain table of sessions: the   *)
(* locks, counts and wires implement SessionTable.                         *)
Live == {s \in Sessions : link[s] # "free"}
StageOf(phase) == CASE phase = "idle" -> "idle"
                    [] phase = "reply" -> "returned"
                    [] OTHER -> "running"
Stage == [c \in Callers |-> StageOf(pc[c])]
Result == [c \in Callers |-> IF pc[c] = "reply" THEN outcome[c] ELSE "pending"]

Table == INSTANCE SessionTable WITH
  table <- registry, using <- conn, live <- Live,
  stage <- Stage, task <- req, result <- Result

RefinesTable == Table!Spec

-----------------------------------------------------------------------------
(* What makes OwnAnswer inductive.                                         *)

(* A call owns a handle in the phases between getting a session and giving *)
(* it away, has a statement to run until it has run its last, and names an *)
(* id until it is answered.                                                *)
HandleHeld == \A c \in Callers :
  /\ pc[c] \in {"lock", "ask", "read", "register", "release"} <=> conn[c] # None
  /\ pc[c] \in {"lock", "ask", "read"} => todo[c] # <<>>
  /\ pc[c] \in {"dial", "lookup"} => conn[c] = None /\ todo[c] # <<>>
  /\ pc[c] \notin {"idle", "reply"} => req[c].id \in Ids

(* The queue of a session holds each call that waits for its client or has *)
(* it, once, and only these; a call that reads is at the head.             *)
QueueHonest ==
  /\ \A s \in Sessions : \A i \in 1..Len(queue[s]) :
       /\ conn[queue[s][i]] = s
       /\ pc[queue[s][i]] \in {"ask", "read"}
       /\ \A j \in 1..Len(queue[s]) : queue[s][i] = queue[s][j] => i = j
  /\ \A c \in Callers : pc[c] \in {"ask", "read"} =>
       \E i \in 1..Len(queue[conn[c]]) : queue[conn[c]][i] = c
  /\ \A c \in Callers : pc[c] = "read" => Holds(c, conn[c])

(* The rows still on the wire go on where the rows kept end, until one was *)
(* turned away; after that the call keeps none.                            *)
RowsContinue == \A c \in Callers : pc[c] = "read" =>
  IF more[c]
    THEN ~Keeps(c)
    ELSE \A i \in 1..Len(answer[conn[c]]) :
           answer[conn[c]][i].kind = "row" => answer[conn[c]][i].n = Len(rows[c]) + i

IInv == TypeOK /\ HandleHeld /\ QueueHonest /\ RowsContinue /\ OwnAnswer

(* Which methods reach a phase, what is left to run there, and when there  *)
(* is an outcome.                                                          *)
CallShape == \A c \in Callers :
  /\ pc[c] = "idle" => req[c] = NoRequest
  /\ pc[c] \in {"dial", "register"} => req[c].op = "connect"
  /\ pc[c] = "lookup" => req[c].op \in {"query", "metadata"}
  /\ pc[c] = "remove" => req[c].op = "close"
  /\ pc[c] \in {"lock", "ask", "read", "release"} => req[c].op \in {"connect", "query", "metadata"}
  /\ pc[c] \in {"dial", "lock", "ask", "read"} /\ req[c].op = "connect" => todo[c] = <<Version>>
  /\ outcome[c] = "pending" <=> pc[c] \notin {"release", "reply"}
  /\ pc[c] = "release" => outcome[c] \in {"ok", "failed"}
  /\ pc[c] = "release" /\ req[c].op = "connect" => outcome[c] = "failed"

(* The session a connect has dialled is its own until it is registered,    *)
(* and then it has answered the version query.                             *)
OwnedAlone == \A c \in Callers : req[c].op = "connect" /\ conn[c] # None =>
  /\ \A i \in Ids : registry[i] # conn[c]
  /\ \A d \in Callers \ {c} : conn[d] # conn[c]

Probed == \A c \in Callers : pc[c] = "register" => rows[c] # <<>> /\ rows[c][1].sql = Version

(* The end of the answer counts the rows before it, those kept and those   *)
(* still on the wire, unless an error comes first; a row is turned away    *)
(* only by a call that has kept Cap.                                       *)
EndCounts == \A c \in Callers : pc[c] = "read" =>
  /\ req[c].op = "query" => Len(rows[c]) <= Cap
  /\ \A i \in 1..Len(answer[conn[c]]) : answer[conn[c]][i].kind = "done" =>
       \/ \E j \in 1..i - 1 : answer[conn[c]][j].kind = "error"
       \/ IF more[c] THEN answer[conn[c]][i].n > Cap
                     ELSE answer[conn[c]][i].n = Len(rows[c]) + i - 1

TableInv == IInv /\ HandlesCounted /\ CallShape /\ OwnedAlone /\ Probed /\ EndCounts

-----------------------------------------------------------------------------
(* Liveness.                                                               *)

(* A close returns, whatever the servers do: no call holds the registry    *)
(* while it dials or waits for a session.                                  *)
CloseReturns == \A c \in Callers : pc[c] = "remove" ~> pc[c] = "idle"

(* A call that has its session returns if that session's server answers,   *)
(* however many calls share the session and whatever other servers do.     *)
ServedCallReturns == \A c \in Callers :
  (conn[c] # None /\ conn[c] \notin Silent) ~> pc[c] = "idle"
=============================================================================
