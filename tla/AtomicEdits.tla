---------------------------- MODULE AtomicEdits ----------------------------
(***************************************************************************)
(* What the desktop adapter promises about writes: the changes of a call   *)
(* enter the database in one step, the one in which it ends; a call that   *)
(* says ok reports exactly what entered, a call that says failed changed   *)
(* nothing, and only one that says neither leaves it open.                 *)
(***************************************************************************)
CONSTANT Tasks

VARIABLES
  durable,   \* the changes in the database, each naming its task
  outcome,   \* task -> "pending", "ok", "failed" or "unsure"
  report     \* task -> what it says it changed

vars == <<durable, outcome, report>>

Init ==
  /\ durable = {}
  /\ outcome = [t \in Tasks |-> "pending"]
  /\ report = [t \in Tasks |-> {}]

(* The call of t ends with r, and its changes enter.                       *)
End(t, r) ==
  LET entered == durable' \ durable IN
  /\ outcome[t] = "pending"
  /\ outcome' = [outcome EXCEPT ![t] = r]
  /\ durable \subseteq durable'
  /\ \A c \in durable' : c.task = t => c \in entered
  /\ \A c \in entered : c.task = t
  /\ r = "failed" => entered = {}
  /\ report' = [report EXCEPT ![t] = IF r = "ok" THEN entered ELSE {}]

Next == \E t \in Tasks, r \in {"ok", "failed", "unsure"} : End(t, r)

Spec == Init /\ [][Next]_vars
=============================================================================
