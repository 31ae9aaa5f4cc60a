----------------------------- MODULE RowStream -----------------------------
(***************************************************************************)
(* stream_query and its twin stream_prepared_query of the desktop adapter, *)
(* native/source/mssql.rs: tasks of the application share one SQL Server   *)
(* session behind a tokio Mutex; each sends the rows of its own answer to  *)
(* a sink, a header first and then batches, up to a cap, while the user    *)
(* may cancel, the sink may close and the answer may fail at any point.    *)
(* A task that stops early leaves the rest of its answer on the wire.      *)
(*                                                                         *)
(* A step runs from one await to the next.  A task is one call, and runs   *)
(* once.  The server, the sink and the user are external.                  *)
(***************************************************************************)
EXTENDS Integers, Sequences

CONSTANTS
  Tasks,
  Cap,        \* ctx.cap
  BatchRows,  \* ctx.batch_rows
  MaxRows,    \* bound: rows of an answer
  MaxSets,    \* bound: result sets they may belong to
  None

ASSUME StreamAssumption ==
  /\ Cap \in Nat /\ MaxRows \in Nat /\ MaxSets \in Nat
  /\ BatchRows \in Nat \ {0}
  /\ None \notin Tasks

VARIABLES
  holder,      \* the task that holds the client's lock, or None
  wire,        \* rows of the last answer that nobody has read yet
  answer,      \* task -> the rows the server sends, once it has asked
  cancelled,   \* task -> its ctx.token
  listening,   \* task -> whether its sink still takes events
  given,       \* task -> the rows its sink was given, batch after batch
  headers,     \* task -> the headers its sink was given
  header,      \* task -> columns_sent
  batch, rowCount, truncated,   \* of stream_query, per task
  row,         \* task -> the row in hand while the header is sent
  pc, outcome  \* task -> where its call stands; what it returned

told  == <<cancelled, listening>>
sink  == <<given, headers>>
loop  == <<header, batch, rowCount, truncated, row>>
vars  == <<holder, wire, answer, told, sink, loop, pc, outcome>>

Row == [task : Tasks, n : 1..MaxRows, set : 1..MaxSets]
(* Rows of one result set after another; a set may be empty.               *)
Answers(t) == UNION {
  {[i \in 1..m |-> [task |-> t, n |-> i, set |-> sets[i]]] :
     sets \in {f \in [1..m -> 1..MaxSets] : \A i, j \in 1..m : i <= j => f[i] <= f[j]}} :
  m \in 0..MaxRows}

(* A header names the columns of a result set, or, 0, none; it comes after *)
(* so many rows.                                                           *)
Header == [set : 0..MaxSets, after : Nat]
Held == {"ask", "read", "columns", "send", "flush", "late"}

TypeOK ==
  /\ holder \in Tasks \cup {None}
  /\ wire \in Seq(Row)
  /\ answer \in [Tasks -> Seq(Row)]
  /\ cancelled \in [Tasks -> BOOLEAN] /\ listening \in [Tasks -> BOOLEAN]
  /\ given \in [Tasks -> Seq(Row)] /\ headers \in [Tasks -> Seq(Header)]
  /\ header \in [Tasks -> BOOLEAN] /\ truncated \in [Tasks -> BOOLEAN]
  /\ batch \in [Tasks -> Seq(Row)]
  /\ rowCount \in [Tasks -> Nat]
  /\ row \in [Tasks -> Seq(Row)]
  /\ pc \in [Tasks -> {"wait", "done"} \cup Held]
  /\ outcome \in [Tasks -> {"pending", "ok", "failed", "cancelled"}]

Init ==
  /\ holder = None /\ wire = <<>>
  /\ answer = [t \in Tasks |-> <<>>]
  /\ cancelled = [t \in Tasks |-> FALSE] /\ listening = [t \in Tasks |-> TRUE]
  /\ given = [t \in Tasks |-> <<>>] /\ headers = [t \in Tasks |-> <<>>]
  /\ header = [t \in Tasks |-> FALSE] /\ truncated = [t \in Tasks |-> FALSE]
  /\ batch = [t \in Tasks |-> <<>>] /\ row = [t \in Tasks |-> <<>>]
  /\ rowCount = [t \in Tasks |-> 0]
  /\ pc = [t \in Tasks |-> "wait"]
  /\ outcome = [t \in Tasks |-> "pending"]

Goto(t, phase) == pc' = [pc EXCEPT ![t] = phase]

(* What the sink is given: a header; or the batch, whole, of which         *)
(* mem::take leaves an empty one.                                          *)
GiveHeader(t, set) ==
  /\ listening[t]
  /\ headers' = [headers EXCEPT ![t] = Append(@, [set |-> set, after |-> Len(given[t])])]
  /\ UNCHANGED given

GiveBatch(t) ==
  /\ listening[t]
  /\ given' = [given EXCEPT ![t] = @ \o batch[t]]
  /\ batch' = [batch EXCEPT ![t] = <<>>]
  /\ UNCHANGED headers

(* A mutant: a cancelled call keeps the guard.                             *)
FinishHolding(t, r) ==
  /\ Goto(t, "done")
  /\ outcome' = [outcome EXCEPT ![t] = r]
  /\ holder' = IF holder = t /\ r # "cancelled" THEN None ELSE holder

(* The call returns r; dropping the guard gives up the client.             *)
Finish(t, r) ==
  /\ Goto(t, "done")
  /\ outcome' = [outcome EXCEPT ![t] = r]
  /\ holder' = IF holder = t THEN None ELSE holder

-----------------------------------------------------------------------------

Acquire(t) ==
  /\ pc[t] = "wait" /\ holder = None
  /\ holder' = t
  /\ Goto(t, "ask")
  /\ UNCHANGED <<wire, answer, told, sink, loop, outcome>>

(* The statement goes out; what an earlier answer left is read off first.  *)
Ask(t) ==
  /\ pc[t] = "ask"
  /\ \E rows \in Answers(t) :
       /\ answer' = [answer EXCEPT ![t] = rows]
       /\ wire' = rows
  /\ Goto(t, "read")
  /\ UNCHANGED <<holder, told, sink, loop, outcome>>

(* The statement or its answer fails: what is in the batch is not sent.    *)
AnswerFails(t) ==
  /\ pc[t] \in {"ask", "read"}
  /\ wire' = <<>>
  /\ Finish(t, "failed")
  /\ UNCHANGED <<answer, told, sink, loop>>

(* A mutant: an answer of exactly the cap's length counts as cut off. *)
TakeUnmarked(t, r) ==
  IF rowCount[t] >= Cap
    THEN Goto(t, "flush") /\ UNCHANGED <<batch, rowCount, truncated>>
    ELSE /\ batch' = [batch EXCEPT ![t] = Append(@, r)]
         /\ rowCount' = [rowCount EXCEPT ![t] = @ + 1]
         /\ truncated' = [truncated EXCEPT ![t] = rowCount[t] + 1 >= Cap]
         /\ Goto(t, IF Len(batch[t]) + 1 >= BatchRows THEN "send" ELSE "read")

(* The row in hand goes into the batch, unless the cap is reached: then    *)
(* the loop breaks with the rest of the answer unread.                     *)
Take(t, r) ==
  IF rowCount[t] >= Cap
    THEN /\ truncated' = [truncated EXCEPT ![t] = TRUE]
         /\ Goto(t, "flush")
         /\ UNCHANGED <<batch, rowCount>>
    ELSE /\ batch' = [batch EXCEPT ![t] = Append(@, r)]
         /\ rowCount' = [rowCount EXCEPT ![t] = @ + 1]
         /\ Goto(t, IF Len(batch[t]) + 1 >= BatchRows THEN "send" ELSE "read")
         /\ UNCHANGED truncated

(* A mutant: the token is looked at before the first row only.             *)
ReadRowUncancelled(t) ==
  /\ pc[t] = "read" /\ wire # <<>>
  /\ wire' = Tail(wire)
  /\ IF cancelled[t] /\ ~header[t]
       THEN Finish(t, "cancelled") /\ UNCHANGED loop
       ELSE /\ IF header[t]
                 THEN Take(t, Head(wire)) /\ UNCHANGED row
                 ELSE /\ row' = [row EXCEPT ![t] = <<Head(wire)>>]
                      /\ Goto(t, "columns")
                      /\ UNCHANGED <<batch, rowCount, truncated>>
            /\ UNCHANGED <<holder, header, outcome>>
  /\ UNCHANGED <<answer, told, sink>>

(* A row arrives.  The token is looked at here and nowhere else.           *)
ReadRow(t) ==
  /\ pc[t] = "read" /\ wire # <<>>
  /\ wire' = Tail(wire)
  /\ IF cancelled[t]
       THEN Finish(t, "cancelled") /\ UNCHANGED loop
       ELSE /\ IF header[t]
                 THEN Take(t, Head(wire)) /\ UNCHANGED row
                 ELSE /\ row' = [row EXCEPT ![t] = <<Head(wire)>>]
                      /\ Goto(t, "columns")
                      /\ UNCHANGED <<batch, rowCount, truncated>>
            /\ UNCHANGED <<holder, header, outcome>>
  /\ UNCHANGED <<answer, told, sink>>

(* A mutant: that the header is out is not remembered.                     *)
SendColumnsForgotten(t) ==
  /\ pc[t] = "columns"
  /\ GiveHeader(t, row[t][1].set)
  /\ Take(t, row[t][1])
  /\ row' = [row EXCEPT ![t] = <<>>]
  /\ UNCHANGED <<holder, wire, answer, told, header, outcome>>

(* The header goes out ahead of the first row, which is in hand.           *)
SendColumns(t) ==
  /\ pc[t] = "columns"
  /\ GiveHeader(t, row[t][1].set)
  /\ header' = [header EXCEPT ![t] = TRUE]
  /\ Take(t, row[t][1])
  /\ row' = [row EXCEPT ![t] = <<>>]
  /\ UNCHANGED <<holder, wire, answer, told, outcome>>

(* A mutant: the client is given up while the sink takes the batch.        *)
SendBatchUnlocked(t) ==
  /\ pc[t] = "send"
  /\ GiveBatch(t)
  /\ holder' = None
  /\ Goto(t, "read")
  /\ UNCHANGED <<wire, answer, told, header, rowCount, truncated, row, outcome>>

SendBatch(t) ==
  /\ pc[t] = "send"
  /\ GiveBatch(t)
  /\ Goto(t, "read")
  /\ UNCHANGED <<holder, wire, answer, told, header, rowCount, truncated, row, outcome>>

EndOfAnswer(t) ==
  /\ pc[t] = "read" /\ wire = <<>>
  /\ Goto(t, "flush")
  /\ UNCHANGED <<holder, wire, answer, told, sink, loop, outcome>>

(* The last batch goes out, an empty one too.                              *)
Flush(t) ==
  /\ pc[t] = "flush"
  /\ GiveBatch(t)
  /\ IF header[t]
       THEN Finish(t, "ok")
       ELSE Goto(t, "late") /\ UNCHANGED <<holder, outcome>>
  /\ UNCHANGED <<wire, answer, told, header, rowCount, truncated, row>>

(* An answer without rows gets its (empty) header after its empty batch.   *)
LateHeader(t) ==
  /\ pc[t] = "late"
  /\ GiveHeader(t, 0)
  /\ Finish(t, "ok")
  /\ UNCHANGED <<wire, answer, told, loop>>

SinkClosed(t) ==
  /\ pc[t] \in {"columns", "send", "flush", "late"} /\ ~listening[t]
  /\ Finish(t, "failed")
  /\ UNCHANGED <<wire, answer, told, sink, loop>>

Task(t) ==
  \/ Acquire(t) \/ Ask(t) \/ AnswerFails(t) \/ ReadRow(t) \/ SendColumns(t)
  \/ SendBatch(t) \/ EndOfAnswer(t) \/ Flush(t) \/ LateHeader(t) \/ SinkClosed(t)

-----------------------------------------------------------------------------
(* The application.                                                        *)

Cancel(t) ==
  /\ outcome[t] = "pending" /\ ~cancelled[t]
  /\ cancelled' = [cancelled EXCEPT ![t] = TRUE]
  /\ UNCHANGED <<holder, wire, answer, listening, sink, loop, pc, outcome>>

StopListening(t) ==
  /\ outcome[t] = "pending" /\ listening[t]
  /\ listening' = [listening EXCEPT ![t] = FALSE]
  /\ UNCHANGED <<holder, wire, answer, cancelled, sink, loop, pc, outcome>>

(* The future is dropped at an await: the guard goes with it, the answer   *)
(* stays on the wire.                                                      *)
Dropped(t) ==
  /\ pc[t] # "done"
  /\ Finish(t, "failed")
  /\ UNCHANGED <<wire, answer, told, sink, loop>>

Next == \E t \in Tasks : Task(t) \/ Cancel(t) \/ StopListening(t) \/ Dropped(t)

Spec == Init /\ [][Next]_vars

(* The runtime polls the tasks, the server answers, and a sink takes an    *)
(* event or refuses it.                                                    *)
FairSpec == Spec /\ \A t \in Tasks : WF_vars(Task(t))

-----------------------------------------------------------------------------

(* Whatever its neighbours on the session leave on the wire, what a stream *)
(* has given its sink and still holds is the beginning of its own answer:  *)
(* no row is lost, repeated, out of order or another task's, and row_count *)
(* says how many there are, never more than the cap.                       *)
Ordered(t) ==
  /\ rowCount[t] <= Len(answer[t]) /\ rowCount[t] <= Cap
  /\ given[t] \o batch[t] = SubSeq(answer[t], 1, rowCount[t])
OwnRowsInOrder == \A t \in Tasks : Ordered(t)

(* stream_query says Ok only when the sink has all that the cap allows,    *)
(* and says truncated exactly when the answer has more; a cancel that      *)
(* comes too late to be seen does not change that.                         *)
OkIsComplete == \A t \in Tasks : outcome[t] = "ok" =>
  /\ given[t] = IF Len(answer[t]) > Cap THEN SubSeq(answer[t], 1, Cap) ELSE answer[t]
  /\ rowCount[t] = Len(given[t])
  /\ truncated[t] <=> Len(answer[t]) > Cap

(* A sink that is given rows has been given the header before, which names *)
(* the columns of the first one - rows of a later result set follow under  *)
(* it - and it is given one header only, and one in every call that        *)
(* returns Ok.                                                             *)
HeaderBeforeRows == \A t \in Tasks :
  /\ given[t] # <<>> => headers[t] = <<[set |-> answer[t][1].set, after |-> 0]>>
  /\ Len(headers[t]) <= 1
  /\ outcome[t] = "ok" => Len(headers[t]) = 1

(* After a cancel a stream takes no row but the one it had in hand while   *)
(* it sent the header.                                                     *)
CancelStopsTaking ==
  [][\A t \in Tasks : cancelled[t] /\ rowCount'[t] # rowCount[t] => row[t] # <<>>]_vars

(* However a stream ends - cancelled, cut off at the cap, refused by its   *)
(* sink, failed or dropped - the tasks behind it get their turn on the     *)
(* session and end too.                                                    *)
EveryStreamEnds == \A t \in Tasks : <>(pc[t] = "done")

-----------------------------------------------------------------------------
(* What makes the invariants inductive.                                    *)

(* A task is between lock and unlock exactly while it holds the client;    *)
(* what it has not read yet is the rest of its own answer; and it has an   *)
(* outcome exactly when it has ended.                                      *)
Turn(t) ==
  /\ pc[t] \in Held <=> holder = t
  /\ pc[t] \in {"read", "columns", "send"} =>
       wire = SubSeq(answer[t], rowCount[t] + Len(row[t]) + 1, Len(answer[t]))
  /\ pc[t] = "columns" => Len(row[t]) = 1
  /\ pc[t] \notin {"columns", "done"} => row[t] = <<>>
  /\ outcome[t] = "pending" <=> pc[t] # "done"

(* Where a stream stands in its answer: it takes rows only after the       *)
(* header, which it sends with the first row in hand; and it leaves the    *)
(* loop at the end of the answer or at the cap, with a row too many read.  *)
Place(t) ==
  /\ pc[t] \in {"wait", "ask"} => ~header[t]
  /\ pc[t] = "columns" => ~header[t] /\ answer[t] # <<>> /\ row[t] = <<answer[t][1]>>
  /\ ~header[t] => given[t] = <<>> /\ batch[t] = <<>> /\ rowCount[t] = 0 /\ ~truncated[t]
  /\ header[t] => answer[t] # <<>> /\ headers[t] = <<[set |-> answer[t][1].set, after |-> 0]>>
  /\ ~header[t] /\ outcome[t] # "ok" => headers[t] = <<>>
  /\ truncated[t] => rowCount[t] = Cap /\ Len(answer[t]) > Cap
  /\ pc[t] \in {"read", "columns", "send"} => ~truncated[t]
  /\ pc[t] \in {"flush", "late"} \/ outcome[t] = "ok" => truncated[t] \/ rowCount[t] = Len(answer[t])
  /\ pc[t] = "late" => ~header[t]
  /\ outcome[t] = "ok" => batch[t] = <<>> /\ Len(headers[t]) = 1

IInv == TypeOK /\ \A t \in Tasks : Turn(t) /\ Ordered(t) /\ Place(t)
=============================================================================
