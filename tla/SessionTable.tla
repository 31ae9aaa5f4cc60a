---------------------------- MODULE SessionTable ----------------------------
(***************************************************************************)
(* What the connector promises its host, without locks, counts or wires.   *)
(*                                                                         *)
(* A table maps connection ids to sessions.  Each call takes effect on the *)
(* table in one step between its invocation and its response: connect      *)
(* publishes a session it opened itself, query and metadata bind the       *)
(* session their id names at that moment and keep it to their end, close   *)
(* takes the entry out.  A session is live exactly while the table names   *)
(* it or a call uses it.                                                   *)
(***************************************************************************)
CONSTANTS Callers, Ids, Sessions, None

VARIABLES
  table,   \* id -> session, or None
  using,   \* caller -> session its call has opened or bound, or None
  live,    \* the sessions that are open
  stage,   \* caller -> "idle", "running" or "returned"
  task,    \* caller -> the method and id it was called with
  result   \* caller -> what the call returns, "pending" until it does

vars == <<table, using, live, stage, task, result>>

NoTask == [op |-> "none", id |-> None]
Tasks == [op : {"connect", "query", "metadata", "close"}, id : Ids]

Referenced(t, u) == {s \in Sessions : (\E i \in Ids : t[i] = s) \/ (\E c \in Callers : u[c] = s)}

Init ==
  /\ table = [i \in Ids |-> None]
  /\ using = [c \in Callers |-> None]
  /\ live = {}
  /\ stage = [c \in Callers |-> "idle"]
  /\ task = [c \in Callers |-> NoTask]
  /\ result = [c \in Callers |-> "pending"]

Running(c, ops) == stage[c] = "running" /\ task[c].op \in ops

Answer(c, r) ==
  /\ stage' = [stage EXCEPT ![c] = "returned"]
  /\ result' = [result EXCEPT ![c] = r]
  /\ UNCHANGED task

Invoke(c, t) ==
  /\ stage[c] = "idle"
  /\ stage' = [stage EXCEPT ![c] = "running"]
  /\ task' = [task EXCEPT ![c] = t]
  /\ UNCHANGED <<table, using, live, result>>

Refuse(c) ==
  /\ stage[c] = "idle"
  /\ Answer(c, "invalid")
  /\ UNCHANGED <<table, using, live>>

Open(c, s) ==
  /\ Running(c, {"connect"})
  /\ using[c] = None
  /\ s \notin live
  /\ using' = [using EXCEPT ![c] = s]
  /\ live' = live \cup {s}
  /\ UNCHANGED <<table, stage, task, result>>

OpenFails(c) ==
  /\ Running(c, {"connect"})
  /\ using[c] = None
  /\ Answer(c, "failed")
  /\ UNCHANGED <<table, using, live>>

Publish(c) ==
  /\ Running(c, {"connect"})
  /\ using[c] # None
  /\ table' = [table EXCEPT ![task[c].id] = using[c]]
  /\ using' = [using EXCEPT ![c] = None]
  /\ live' = Referenced(table', using')
  /\ Answer(c, "ok")

Bind(c) ==
  /\ Running(c, {"query", "metadata"})
  /\ using[c] = None
  /\ table[task[c].id] # None
  /\ using' = [using EXCEPT ![c] = table[task[c].id]]
  /\ UNCHANGED <<table, live, stage, task, result>>

Miss(c) ==
  /\ Running(c, {"query", "metadata"})
  /\ using[c] = None
  /\ table[task[c].id] = None
  /\ Answer(c, "notFound")
  /\ UNCHANGED <<table, using, live>>

(* The statements end.  A connect whose session did not answer gives it up. *)
Finish(c, r) ==
  /\ \/ Running(c, {"query", "metadata"}) /\ r \in {"ok", "failed"}
     \/ Running(c, {"connect"}) /\ r = "failed"
  /\ using[c] # None
  /\ using' = [using EXCEPT ![c] = None]
  /\ live' = Referenced(table, using')
  /\ Answer(c, r)
  /\ UNCHANGED table

Close(c) ==
  /\ Running(c, {"close"})
  /\ table' = [table EXCEPT ![task[c].id] = None]
  /\ live' = Referenced(table', using)
  /\ Answer(c, IF table[task[c].id] = None THEN "absent" ELSE "closed")
  /\ UNCHANGED using

Respond(c) ==
  /\ stage[c] = "returned"
  /\ stage' = [stage EXCEPT ![c] = "idle"]
  /\ task' = [task EXCEPT ![c] = NoTask]
  /\ result' = [result EXCEPT ![c] = "pending"]
  /\ UNCHANGED <<table, using, live>>

Next == \E c \in Callers :
  \/ \E t \in Tasks : Invoke(c, t)
  \/ \E s \in Sessions : Open(c, s)
  \/ \E r \in {"ok", "failed"} : Finish(c, r)
  \/ Refuse(c) \/ OpenFails(c) \/ Publish(c)
  \/ Bind(c) \/ Miss(c) \/ Close(c) \/ Respond(c)

Spec == Init /\ [][Next]_vars
=============================================================================
