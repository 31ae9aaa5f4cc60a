----------------------------- MODULE EditBatch -----------------------------
(***************************************************************************)
(* Writes through the desktop adapter, native/source/mssql.rs: tasks of    *)
(* the application share one SQL Server session behind a tokio Mutex; some *)
(* run a query, some apply a batch of grid edits in a transaction          *)
(* (apply_edits).  The transaction belongs to the session, not to the task *)
(* that opened it: what one call leaves open the next one runs in.         *)
(*                                                                         *)
(* A task is one call, and runs once.  The server is external; it undoes   *)
(* the open transaction of a session that is lost.  A statement whose      *)
(* answer fails may have taken effect or not, on a session that stays      *)
(* open, and BEGIN, COMMIT and ROLLBACK are such statements too.           *)
(***************************************************************************)
EXTENDS Naturals, FiniteSets

CONSTANTS
  Tasks,
  MaxPerKind,   \* bound: deletes, updates, inserts of one batch
  UserSql,      \* what queries do: some of "write", "begin", "commit", "rollback"
  EditsDropped, \* whether the application may drop the future of apply_edits
  None

ASSUME EditAssumption ==
  /\ None \notin Tasks
  /\ MaxPerKind \in Nat
  /\ UserSql \subseteq {"write", "begin", "commit", "rollback"}
  /\ EditsDropped \in BOOLEAN

Kinds == {"delete", "update", "insert"}

(* One statement of a batch, or the write of a query.                      *)
Changes == [task : Tasks, kind : Kinds \cup {"write"}, n : 1..MaxPerKind + 1]
WriteOf(t) == [task |-> t, kind |-> "write", n |-> 1]

(* The plans edit::plan may make of t's edits.                             *)
Plans(t) == SUBSET [task : {t}, kind : Kinds, n : 1..MaxPerKind]

VARIABLES
  holder,    \* the task that holds the client's lock, or None
  link,      \* "open" or "lost"
  depth,     \* @@TRANCOUNT of the session
  pending,   \* changes made in the open transaction
  durable,   \* changes committed
  pc, op,    \* task -> where its call stands; what it does
  left,      \* task -> statements of its plan not yet run
  applied,   \* task -> statements whose rows it has counted
  outcome,   \* task -> what it returned; "stranded" is an error too, whose
             \*   ROLLBACK failed as well
  \* History, which the code does not have:
  strays,    \* ended calls that may have left the open transaction: queries
             \*   that sent BEGIN, batches one of whose BEGIN, COMMIT and
             \*   ROLLBACK was not answered
  within     \* task -> strays when it took the client

server == <<link, depth, pending, durable, strays>>
vars == <<holder, server, pc, op, left, applied, outcome, within>>

TypeOK ==
  /\ holder \in Tasks \cup {None}
  /\ link \in {"open", "lost"}
  /\ depth \in Nat
  /\ pending \subseteq Changes /\ durable \subseteq Changes
  /\ pc \in [Tasks -> {"new", "wait", "begin", "run", "rollback", "query", "done"}]
  /\ op \in [Tasks -> {"none", "edit"} \cup UserSql]
  /\ left \in [Tasks -> SUBSET Changes]
  /\ applied \in [Tasks -> SUBSET Changes]
  /\ outcome \in [Tasks -> {"pending", "ok", "failed", "stranded", "unsure", "dropped"}]
  /\ strays \subseteq Tasks
  /\ within \in [Tasks -> SUBSET Tasks]

Init ==
  /\ holder = None
  /\ link = "open" /\ depth = 0 /\ pending = {} /\ durable = {}
  /\ pc = [t \in Tasks |-> "new"]
  /\ op = [t \in Tasks |-> "none"]
  /\ left = [t \in Tasks |-> {}]
  /\ applied = [t \in Tasks |-> {}]
  /\ outcome = [t \in Tasks |-> "pending"]
  /\ strays = {} /\ within = [t \in Tasks |-> {}]

Goto(t, phase) == pc' = [pc EXCEPT ![t] = phase]

(* The call returns r; its plan is gone, and dropping the guard gives up   *)
(* the client.                                                             *)
Finish(t, r) ==
  /\ Goto(t, "done")
  /\ left' = [left EXCEPT ![t] = {}]
  /\ outcome' = [outcome EXCEPT ![t] = r]
  /\ holder' = IF holder = t THEN None ELSE holder

-----------------------------------------------------------------------------
(* The session's transaction.                                              *)

Opened == depth' = depth + 1 /\ UNCHANGED <<pending, durable>>
Undone == depth' = 0 /\ pending' = {} /\ UNCHANGED durable
Untouched == UNCHANGED <<depth, pending, durable>>

(* COMMIT counts down; the outermost one makes the changes durable.        *)
Committed ==
  /\ depth' = depth - 1
  /\ IF depth = 1
       THEN durable' = durable \cup pending /\ pending' = {}
       ELSE UNCHANGED <<pending, durable>>

(* Changes made outside a transaction are durable at once.                 *)
Changed(changes) ==
  /\ UNCHANGED depth
  /\ IF depth > 0
       THEN pending' = pending \cup changes /\ UNCHANGED durable
       ELSE durable' = durable \cup changes /\ UNCHANGED pending

(* The calls that may have left the open transaction, once those in who    *)
(* have ended without knowing what became of theirs.                       *)
Strays(who) == strays' = IF depth' = 0 THEN {} ELSE strays \cup who

-----------------------------------------------------------------------------
(* The call begins; it waits for the client.                               *)

Apply(t, plan) ==
  /\ pc[t] = "new"
  /\ op' = [op EXCEPT ![t] = "edit"]
  /\ left' = [left EXCEPT ![t] = plan]
  /\ Goto(t, "wait")
  /\ UNCHANGED <<holder, server, applied, outcome, within>>

PlanFails(t) ==
  /\ pc[t] = "new"
  /\ op' = [op EXCEPT ![t] = "edit"]
  /\ Finish(t, "failed")
  /\ UNCHANGED <<server, applied, within>>

RunQuery(t, q) ==
  /\ pc[t] = "new"
  /\ op' = [op EXCEPT ![t] = q]
  /\ Goto(t, "wait")
  /\ UNCHANGED <<holder, server, left, applied, outcome, within>>

Acquire(t) ==
  /\ pc[t] = "wait"
  /\ holder = None
  /\ holder' = t
  /\ Goto(t, IF op[t] = "edit" THEN "begin" ELSE "query")
  /\ within' = [within EXCEPT ![t] = strays]
  /\ UNCHANGED <<server, op, left, applied, outcome>>

-----------------------------------------------------------------------------
(* What the server makes of a statement that is on its way.                *)

(* Deletes, then updates, then inserts, each in the order of the plan.     *)
Rank(k) == CASE k = "delete" -> 1 [] k = "update" -> 2 [] OTHER -> 3
First(t, c) == c \in left[t] /\ \A d \in left[t] :
  Rank(c.kind) < Rank(d.kind) \/ (c.kind = d.kind /\ c.n <= d.n)

(* What a query does.                                                      *)
Effect(t) ==
  CASE op[t] = "write" -> Changed({WriteOf(t)})
    [] op[t] = "begin" -> Opened
    [] op[t] = "commit" -> depth > 0 /\ Committed
    [] op[t] = "rollback" -> depth > 0 /\ Undone

InFlight(t) ==
  CASE pc[t] = "begin" -> Opened
    [] pc[t] = "run" /\ left[t] # {} ->
         Undone \/ \E c \in left[t] : First(t, c) /\ \E s \in SUBSET {c} : Changed(s)
    [] pc[t] = "run" /\ left[t] = {} -> Undone \/ Committed
    [] pc[t] = "rollback" -> Undone
    [] pc[t] = "query" -> Undone \/ Effect(t)

(* Its answer fails, or is not waited for: the server has seen it or not,  *)
(* and refused it, undone it or carried it out.                            *)
Unanswered(t) == Untouched \/ (link = "open" /\ InFlight(t))

-----------------------------------------------------------------------------
(* apply_edits.                                                            *)

(* A mutant: the batch runs without a transaction.                         *)
BeginForgotten(t) ==
  /\ pc[t] = "begin" /\ link = "open"
  /\ Untouched
  /\ Goto(t, "run")
  /\ UNCHANGED <<holder, link, op, left, applied, outcome, strays, within>>

Begin(t) ==
  /\ pc[t] = "begin" /\ link = "open"
  /\ Opened
  /\ Goto(t, "run")
  /\ UNCHANGED <<holder, link, op, left, applied, outcome, strays, within>>

(* The error is returned as it is: a BEGIN that took effect stays.         *)
BeginFails(t) ==
  /\ pc[t] = "begin"
  /\ Unanswered(t)
  /\ Strays({t})
  /\ Finish(t, "failed")
  /\ UNCHANGED <<link, op, applied, within>>

(* The statement may find its row changed or gone and affect none.         *)
Execute(t) ==
  /\ pc[t] = "run" /\ link = "open"
  /\ \E c \in left[t] :
       /\ First(t, c)
       /\ left' = [left EXCEPT ![t] = @ \ {c}]
       /\ \E changes \in SUBSET {c} :
            /\ Changed(changes)
            /\ applied' = [applied EXCEPT ![t] = @ \cup changes]
  /\ UNCHANGED <<holder, link, pc, op, outcome, strays, within>>

(* A mutant: a statement that fails is passed over.                        *)
ExecuteFailsUnseen(t) ==
  /\ pc[t] = "run" /\ left[t] # {}
  /\ left' = [left EXCEPT ![t] = {}]
  /\ Unanswered(t)
  /\ Strays({})
  /\ UNCHANGED <<holder, link, pc, op, applied, outcome, within>>

ExecuteFails(t) ==
  /\ pc[t] = "run" /\ left[t] # {}
  /\ Unanswered(t)
  /\ Strays({})
  /\ Goto(t, "rollback")
  /\ UNCHANGED <<holder, link, op, left, applied, outcome, within>>

Commit(t) ==
  /\ pc[t] = "run" /\ left[t] = {} /\ link = "open"
  /\ Committed
  /\ Strays({})
  /\ Finish(t, "ok")
  /\ UNCHANGED <<link, op, applied, within>>

CommitFails(t) ==
  /\ pc[t] = "run" /\ left[t] = {}
  /\ Unanswered(t)
  /\ Strays({t})
  /\ Finish(t, "unsure")
  /\ UNCHANGED <<link, op, applied, within>>

(* A mutant: the error is returned without a ROLLBACK.                     *)
RollbackForgotten(t) ==
  /\ pc[t] = "rollback"
  /\ Untouched
  /\ Finish(t, "failed")
  /\ UNCHANGED <<link, op, applied, strays, within>>

(* ROLLBACK undoes every level.                                            *)
Rollback(t) ==
  /\ pc[t] = "rollback"
  /\ IF link = "open" THEN Undone ELSE Untouched
  /\ Strays({})
  /\ Finish(t, "failed")
  /\ UNCHANGED <<link, op, applied, within>>

(* Whether it worked is not looked at: on a session that stays open the    *)
(* transaction may stay as well.                                           *)
RollbackFails(t) ==
  /\ pc[t] = "rollback" /\ link = "open"
  /\ Unanswered(t)
  /\ Strays({t})
  /\ Finish(t, "stranded")
  /\ UNCHANGED <<link, op, applied, within>>

(* The future is dropped where it awaits: the guard goes with it, and      *)
(* nobody sends COMMIT or ROLLBACK.                                        *)
Abandon(t) ==
  /\ EditsDropped /\ op[t] = "edit" /\ pc[t] \in {"wait", "begin", "run", "rollback"}
  /\ IF pc[t] = "wait"
       THEN UNCHANGED server
       ELSE Unanswered(t) /\ Strays({t}) /\ UNCHANGED link
  /\ Finish(t, "dropped")
  /\ UNCHANGED <<op, applied, within>>

-----------------------------------------------------------------------------
(* run_query and its streaming twins, as one exchange with the server.     *)

Openers(t) == IF op[t] = "begin" THEN {t} ELSE {}

QueryRuns(t) ==
  /\ pc[t] = "query" /\ link = "open"
  /\ Effect(t)
  /\ Strays(Openers(t))
  /\ applied' = [applied EXCEPT ![t] = IF op[t] = "write" THEN {WriteOf(t)} ELSE {}]
  /\ Finish(t, "ok")
  /\ UNCHANGED <<link, op, within>>

(* The statement fails, or its answer does after the statement took effect,*)
(* or the application drops the future while the server is at work.        *)
QueryFails(t) ==
  /\ pc[t] = "query"
  /\ Unanswered(t)
  /\ Strays(Openers(t))
  /\ Finish(t, "unsure")
  /\ UNCHANGED <<link, op, applied, within>>

(* The application drops a query's future while it waits for the client.   *)
Dropped(t) ==
  /\ pc[t] = "wait" /\ op[t] # "edit"
  /\ Finish(t, "unsure")
  /\ UNCHANGED <<server, op, applied, within>>

LinkLoss ==
  /\ link = "open"
  /\ link' = "lost"
  /\ Undone
  /\ Strays({})
  /\ UNCHANGED <<holder, pc, op, left, applied, outcome, within>>

-----------------------------------------------------------------------------

Next ==
  \/ \E t \in Tasks :
       \/ \E plan \in Plans(t) : Apply(t, plan)
       \/ \E q \in UserSql : RunQuery(t, q)
       \/ PlanFails(t) \/ Acquire(t)
       \/ Begin(t) \/ BeginFails(t) \/ Execute(t) \/ ExecuteFails(t)
       \/ Commit(t) \/ CommitFails(t) \/ Rollback(t) \/ RollbackFails(t) \/ Abandon(t)
       \/ QueryRuns(t) \/ QueryFails(t) \/ Dropped(t)
  \/ LinkLoss

Spec == Init /\ [][Next]_vars

-----------------------------------------------------------------------------

Stored(t) == {c \in durable : c.task = t}
Open(t) == {c \in pending : c.task = t}

(* apply_edits reports what is in the database: the rows it has counted    *)
(* when it returns Ok, all of them, are durable then and stay so, if it    *)
(* took the client with no transaction open.  In one that another call     *)
(* left open (within) the code says Ok all the same: OkIsDurableAlone.     *)
ReportedIsStored == \A t \in Tasks :
  op[t] = "edit" /\ outcome[t] = "ok" /\ within[t] = {} => Stored(t) = applied[t]

(* Whatever the session was in when it began and whatever fails, a batch   *)
(* is in the database whole or not at all; one that failed before its      *)
(* COMMIT has left nothing, not even something a later COMMIT would keep.  *)
(* Two ends are excepted, for which nobody has undone the batch: its       *)
(* future was dropped, or its ROLLBACK failed too (`let _ =`).             *)
WholeOrNothing == \A t \in Tasks :
  op[t] = "edit" /\ outcome[t] \notin {"dropped", "stranded"} =>
    /\ Stored(t) \in {{}, applied[t]}
    /\ outcome[t] = "failed" => Open(t) = {} /\ Stored(t) = {}

(* Whoever takes the client finds a transaction open only where a call     *)
(* that may have left it can be named: a query's BEGIN, or a batch that    *)
(* returned an error or was dropped, never one that returned Ok.  Without  *)
(* such a call all that is pending is the holder's own.                    *)
CleanSession ==
  /\ holder = None /\ depth # 0 => strays # {}
  /\ \A u \in strays :
       \/ op[u] = "begin" /\ outcome[u] \in {"ok", "unsure"}
       \/ op[u] = "edit" /\ outcome[u] \in {"failed", "stranded", "unsure", "dropped"}
  /\ strays = {} => \A c \in pending : c.task = holder

(* The calls implement AtomicEdits, if Ok is taken at its word only from a *)
(* call that found no transaction open.                                    *)
believed == [t \in Tasks |->
  IF outcome[t] = "ok" /\ within[t] # {} THEN "unsure"
  ELSE IF outcome[t] = "stranded" THEN "failed" ELSE outcome[t]]
Atomic == INSTANCE AtomicEdits WITH
  outcome <- believed,
  report <- [t \in Tasks |-> IF believed[t] = "ok" THEN applied[t] ELSE {}]
ImplementsAtomic == Atomic!Spec

(* What the adapter is said to do: "Commit a batch of result-grid edits in *)
(* one transaction." (Connection::apply_edits, connection.rs).             *)
OkIsDurable == \A t \in Tasks :
  op[t] = "edit" /\ outcome[t] = "ok" => Stored(t) = applied[t]

(* At the least when every call that has ended returned Ok.                *)
OkIsDurableAlone ==
  (\A u \in Tasks : outcome[u] \in {"pending", "ok"}) => OkIsDurable

-----------------------------------------------------------------------------
(* What makes the properties inductive, whatever queries do to the         *)
(* session's transaction and whichever batches are dropped.                *)

(* A task is in the phases between lock and unlock exactly while it holds  *)
(* the client, and has an outcome exactly when it has ended.               *)
Phases == \A t \in Tasks :
  /\ pc[t] \in {"begin", "run", "rollback", "query"} <=> holder = t
  /\ pc[t] \in {"begin", "run", "rollback"} => op[t] = "edit"
  /\ pc[t] = "query" => op[t] \in UserSql
  /\ pc[t] = "wait" => op[t] \in UserSql \cup {"edit"}
  /\ pc[t] \in {"new", "wait", "begin", "query"} => applied[t] = {}
  /\ outcome[t] = "pending" <=> pc[t] # "done"
  /\ \A c \in left[t] \cup applied[t] : c.task = t

(* Nothing is pending outside a transaction, a lost session is in none,    *)
(* and a batch that runs on an open session is in one: its own, or one     *)
(* within what strays left.                                                *)
Levels ==
  /\ depth = 0 => pending = {} /\ strays = {}
  /\ link = "lost" => depth = 0
  /\ strays = {} /\ depth # 0 =>
       depth = 1 /\ holder # None /\ pc[holder] \in {"run", "rollback"}
  /\ \A t \in Tasks :
       /\ pc[t] = "run" /\ link = "open" => depth # 0 /\ (depth = 1 => strays = {})
       /\ holder = t /\ within[t] = {} => strays = {}

(* Where the changes of a task are: nowhere before it runs, and not in the *)
(* database while it runs; those of a batch are in the open transaction    *)
(* while it runs, nowhere once it has failed, and after its COMMIT         *)
(* together, in the transaction or in the database.                        *)
FateOf(t) ==
  /\ pc[t] \in {"new", "wait", "begin", "query"} => Open(t) = {}
  /\ pc[t] # "done" => Stored(t) = {}
  /\ pc[t] = "run" => Open(t) = IF link = "open" THEN applied[t] ELSE {}
  /\ op[t] = "edit" =>
       /\ outcome[t] = "failed" => Open(t) = {} /\ Stored(t) = {}
       /\ outcome[t] \in {"ok", "unsure"} =>
            Open(t) \in {{}, applied[t]} /\ Stored(t) \in {{}, applied[t]}
       /\ outcome[t] = "ok" /\ within[t] = {} => Stored(t) = applied[t]

Fates == \A t \in Tasks : FateOf(t)

IInv == TypeOK /\ Phases /\ Levels /\ Fates /\ CleanSession
=============================================================================
