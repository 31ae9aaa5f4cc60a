----------------------------- MODULE EditProofs -----------------------------
(***************************************************************************)
(* Whatever queries do to the session's transaction and whichever calls    *)
(* fail or are dropped, EditBatch stores what it reports where no stray    *)
(* transaction was open, hands on a session whose open transaction can be  *)
(* traced to a call, and leaves no batch in part.  As long as queries only *)
(* write and no batch is dropped, it implements AtomicEdits.  For any      *)
(* number of tasks and edits.                                              *)
(***************************************************************************)
EXTENDS EditBatch, TLAPS

LEMMA InitInv == Init => IInv
BY EditAssumption
   DEF Init, IInv, TypeOK, Phases, Levels, Fates, FateOf, CleanSession, Open, Stored

-----------------------------------------------------------------------------
(* Statements.                                                             *)

(* What a statement of another task may do to u's changes: nothing, undo   *)
(* the open ones, or make them durable.                                    *)
Passes(u) ==
  \/ Open(u)' = Open(u) /\ Stored(u)' = Stored(u)
  \/ Open(u)' = {} /\ Stored(u)' = Stored(u)
  \/ Open(u)' = {} /\ Stored(u)' = Stored(u) \cup Open(u)

(* The transaction statements, and the changes of one task.                *)
Statement(t) ==
  \/ Untouched \/ Undone \/ Opened
  \/ depth # 0 /\ Committed
  \/ \E s \in SUBSET Changes : (\A c \in s : c.task = t) /\ Changed(s)

LEMMA StatementPasses ==
  ASSUME NEW t \in Tasks, NEW u \in Tasks, u # t, Statement(t)
  PROVE  Passes(u)
<1> USE DEF Passes, Open, Stored
<1>1. CASE Untouched \/ Undone \/ Opened
  BY <1>1 DEF Untouched, Undone, Opened
<1>2. CASE Committed
  BY <1>2 DEF Committed
<1>3. ASSUME NEW s \in SUBSET Changes, \A c \in s : c.task = t, Changed(s)
      PROVE  Passes(u)
  BY <1>3 DEF Changed
<1>4. QED BY <1>1, <1>2, <1>3 DEF Statement

LEMMA StatementTypes ==
  ASSUME TypeOK, Levels, NEW t \in Tasks, Statement(t)
  PROVE  /\ depth' \in Nat /\ pending' \subseteq Changes /\ durable' \subseteq Changes
         /\ depth' = 0 => pending' = {}
<1> USE DEF TypeOK, Levels
<1>1. CASE Untouched \/ Undone \/ Opened
  BY <1>1 DEF Untouched, Undone, Opened
<1>2. CASE depth # 0 /\ Committed
  BY <1>2 DEF Committed
<1>3. ASSUME NEW s \in SUBSET Changes, Changed(s)
      PROVE  /\ depth' \in Nat /\ pending' \subseteq Changes /\ durable' \subseteq Changes
             /\ depth' = 0 => pending' = {}
  BY <1>3 DEF Changed
<1>4. QED BY <1>1, <1>2, <1>3 DEF Statement

LEMMA EffectIsStatement ==
  ASSUME NEW t \in Tasks, op[t] \in UserSql, Effect(t)
  PROVE  Statement(t)
<1>1. WriteOf(t) \in Changes /\ WriteOf(t).task = t
  BY EditAssumption DEF WriteOf, Changes
<1>2. CASE op[t] = "write"
  <2>1. {WriteOf(t)} \in SUBSET Changes /\ \A c \in {WriteOf(t)} : c.task = t
    BY <1>1
  <2>2. Changed({WriteOf(t)})
    BY <1>2 DEF Effect
  <2>3. QED BY <2>1, <2>2 DEF Statement
<1>3. CASE op[t] = "begin"
  BY <1>3 DEF Effect, Statement
<1>4. CASE op[t] = "commit"
  <2>1. depth # 0 /\ Committed
    BY <1>4 DEF Effect
  <2>2. QED BY <2>1 DEF Statement
<1>5. CASE op[t] = "rollback"
  BY <1>5 DEF Effect, Statement
<1>6. QED BY <1>2, <1>3, <1>4, <1>5, EditAssumption

LEMMA UnansweredIsStatement ==
  ASSUME IInv, NEW t \in Tasks, pc[t] \in {"begin", "run", "rollback", "query"}, Unanswered(t)
  PROVE  Statement(t) /\ (link = "lost" => Untouched)
<1>1. ASSUME link = "open", InFlight(t)
      PROVE  Statement(t)
  <2>1. CASE pc[t] \in {"begin", "rollback"}
    BY <1>1, <2>1 DEF InFlight, Statement
  <2>2. CASE pc[t] = "run" /\ left[t] = {}
    <3>1. depth # 0 /\ (Undone \/ Committed)
      BY <1>1, <2>2 DEF InFlight, IInv, Levels
    <3>2. QED BY <3>1 DEF Statement
  <2>3. CASE pc[t] = "run" /\ left[t] # {}
    <3>1. Undone \/ \E c \in left[t] : \E s \in SUBSET {c} : Changed(s)
      BY <1>1, <2>3 DEF InFlight
    <3>2. ASSUME NEW c \in left[t], NEW s \in SUBSET {c}, Changed(s)
          PROVE  Statement(t)
      <4>1. s \in SUBSET Changes /\ \A d \in s : d.task = t
        BY <3>2 DEF IInv, TypeOK, Phases
      <4>2. QED BY <3>2, <4>1 DEF Statement
    <3>3. QED BY <3>1, <3>2 DEF Statement
  <2>4. CASE pc[t] = "query"
    <3>1. op[t] \in UserSql /\ (Undone \/ Effect(t))
      BY <1>1, <2>4 DEF InFlight, IInv, Phases
    <3>2. QED BY <3>1, EffectIsStatement DEF Statement
  <2>5. QED BY <2>1, <2>2, <2>3, <2>4
<1>2. QED BY <1>1 DEF Unanswered, Statement

(* A task that takes no statement to run keeps its fate.                   *)
LEMMA BystanderFate ==
  ASSUME NEW u \in Tasks, FateOf(u), pc[u] \in {"new", "wait", "done"}, Passes(u),
         pc'[u] = pc[u], op'[u] = op[u], outcome'[u] = outcome[u],
         applied'[u] = applied[u], within'[u] = within[u],
         pc[u] # "done" => outcome[u] = "pending"
  PROVE  FateOf(u)'
<1>1. CASE pc[u] # "done"
  BY <1>1 DEF FateOf, Passes
<1>2. CASE pc[u] = "done"
  BY <1>2 DEF FateOf, Passes
<1>3. QED BY <1>1, <1>2

(* Only the holder has statements to run.                                  *)
LEMMA FatesKept ==
  ASSUME TypeOK, Phases, Fates, NEW t \in Tasks, holder = t, FateOf(t)',
         \A u \in Tasks : u # t =>
           /\ Passes(u)
           /\ pc'[u] = pc[u] /\ op'[u] = op[u] /\ outcome'[u] = outcome[u]
           /\ applied'[u] = applied[u] /\ within'[u] = within[u]
  PROVE  Fates'
<1> SUFFICES ASSUME NEW u \in Tasks, u # t PROVE FateOf(u)'
  BY DEF Fates
<1>1. /\ pc[u] \in {"new", "wait", "done"} /\ FateOf(u)
      /\ pc[u] # "done" => outcome[u] = "pending"
  BY DEF TypeOK, Phases, Fates
<1>2. QED BY <1>1, BystanderFate

-----------------------------------------------------------------------------
(* The invariant, action by action.                                        *)

LEMMA StartInv ==
  ASSUME IInv, NEW t \in Tasks,
         \/ \E plan \in Plans(t) : Apply(t, plan)
         \/ \E q \in UserSql : RunQuery(t, q)
  PROVE  IInv'
<1> USE EditAssumption DEF IInv, Apply, RunQuery, Goto, server
<1>1. \A plan \in Plans(t) : plan \subseteq Changes /\ \A c \in plan : c.task = t
  BY DEF Plans, Changes
<1>2. pc[t] = "new" /\ holder # t /\ outcome[t] = "pending" /\ Open(t) = {} /\ Stored(t) = {}
  BY DEF Phases, Fates, FateOf
<1>3. TypeOK'
  BY <1>1 DEF TypeOK
<1>4. Phases'
  BY <1>1, <1>2 DEF TypeOK, Phases
<1>5. Levels'
  BY <1>2 DEF TypeOK, Levels
<1>6. Fates'
  BY <1>2 DEF TypeOK, Fates, FateOf, Open, Stored
<1>7. CleanSession'
  <2>1. t \notin strays
    BY <1>2 DEF Phases, CleanSession, TypeOK, Levels
  <2>2. QED BY <2>1 DEF TypeOK, CleanSession
<1>8. QED BY <1>3, <1>4, <1>5, <1>6, <1>7

(* A call that ends without having had the client.                         *)
LEMMA EarlyEndInv ==
  ASSUME IInv, NEW t \in Tasks,
         PlanFails(t) \/ Dropped(t) \/ (Abandon(t) /\ pc[t] = "wait")
  PROVE  IInv'
<1> USE EditAssumption DEF IInv, PlanFails, Dropped, Abandon, Finish, Goto, server
<1>1. /\ pc[t] \in {"new", "wait"} /\ outcome[t] = "pending" /\ t # None /\ holder # t
      /\ UNCHANGED <<link, depth, pending, durable, strays, applied, within>>
  BY DEF Phases
<1>2. TypeOK'
  BY DEF TypeOK
<1>3. Phases'
  BY <1>1 DEF TypeOK, Phases
<1>4. Levels'
  BY <1>1 DEF TypeOK, Levels
<1>5. Fates'
  BY <1>1 DEF TypeOK, Fates, FateOf, Open, Stored
<1>6. CleanSession'
  BY <1>1 DEF TypeOK, CleanSession
<1>7. QED BY <1>2, <1>3, <1>4, <1>5, <1>6

LEMMA AcquireInv ==
  ASSUME IInv, NEW t \in Tasks, Acquire(t)
  PROVE  IInv'
<1> USE EditAssumption DEF IInv, Acquire, Goto, server
<1>1. outcome[t] = "pending" /\ op[t] \in UserSql \cup {"edit"} /\ applied[t] = {}
  BY DEF Phases
<1>2. TypeOK'
  BY DEF TypeOK
<1>3. Phases'
  BY <1>1 DEF TypeOK, Phases
<1>4. strays = {} => depth = 0
  BY DEF Levels
<1>5. Levels'
  BY <1>4 DEF TypeOK, Levels, Phases
<1>6. Fates'
  BY <1>1 DEF TypeOK, Fates, FateOf, Open, Stored
<1>7. CleanSession'
  BY <1>4 DEF TypeOK, CleanSession, Levels
<1>8. QED BY <1>2, <1>3, <1>5, <1>6, <1>7

LEMMA BeginInv ==
  ASSUME IInv, NEW t \in Tasks, Begin(t)
  PROVE  IInv'
<1> USE EditAssumption DEF IInv, Begin, Opened, Goto
<1>1. /\ holder = t /\ applied[t] = {} /\ outcome[t] = "pending" /\ op[t] = "edit" /\ t # None
      /\ Open(t) = {} /\ Stored(t) = {} /\ pc[t] = "begin"
  BY DEF Phases, Fates, FateOf
<1>2. TypeOK'
  BY DEF TypeOK
<1>3. Phases'
  BY <1>1 DEF TypeOK, Phases
<1>4. strays = {} <=> depth = 0
  BY <1>1 DEF Levels
<1>5. Levels'
  <2>1. \A u \in Tasks : pc'[u] = "run" => u = t
    BY <1>1 DEF TypeOK, Phases
  <2>2. depth' = 1 => strays' = {}
    BY <1>4 DEF TypeOK
  <2>3. strays' = {} => depth' = 1 /\ holder' # None /\ pc'[holder'] = "run"
    BY <1>1, <1>4 DEF TypeOK
  <2>4. depth' # 0 /\ link' = "open"
    BY DEF TypeOK
  <2>5. \A u \in Tasks : holder' = u /\ within'[u] = {} => strays' = {}
    BY DEF Levels
  <2>6. QED BY <2>1, <2>2, <2>3, <2>4, <2>5 DEF Levels
<1>6. Fates'
  BY <1>1 DEF TypeOK, Fates, FateOf, Open, Stored
<1>7. CleanSession'
  BY <1>1 DEF TypeOK, CleanSession
<1>8. QED BY <1>2, <1>3, <1>5, <1>6, <1>7

LEMMA ExecuteInv ==
  ASSUME IInv, NEW t \in Tasks, Execute(t)
  PROVE  IInv'
<1> USE EditAssumption DEF IInv
<1>1. PICK c \in left[t] :
        /\ left' = [left EXCEPT ![t] = @ \ {c}]
        /\ \E changes \in SUBSET {c} :
             Changed(changes) /\ applied' = [applied EXCEPT ![t] = @ \cup changes]
  BY DEF Execute
<1>2. PICK changes \in SUBSET {c} :
        Changed(changes) /\ applied' = [applied EXCEPT ![t] = @ \cup changes]
  BY <1>1
<1>3. pc[t] = "run" /\ link = "open" /\ UNCHANGED <<holder, link, pc, op, outcome, strays, within>>
  BY DEF Execute
<1>4. /\ holder = t /\ depth # 0 /\ c.task = t /\ c \in Changes /\ outcome[t] = "pending"
      /\ op[t] = "edit" /\ Open(t) = applied[t] /\ Stored(t) = {}
  BY <1>3 DEF TypeOK, Phases, Levels, Fates, FateOf
<1>5. pending' = pending \cup changes /\ UNCHANGED <<depth, durable>>
  BY <1>2, <1>4 DEF TypeOK, Changed
<1>6. TypeOK'
  BY <1>1, <1>2, <1>3, <1>4, <1>5 DEF TypeOK
<1>7. Phases'
  BY <1>1, <1>2, <1>3, <1>4 DEF TypeOK, Phases
<1>8. Levels'
  BY <1>3, <1>4, <1>5 DEF Levels
<1>9. Fates'
  <2>1. Open(t)' = Open(t) \cup changes /\ Stored(t)' = {} /\ applied'[t] = applied[t] \cup changes
    BY <1>2, <1>4, <1>5 DEF TypeOK, Open, Stored
  <2>2. FateOf(t)'
    BY <1>3, <1>4, <2>1 DEF FateOf
  <2>3. \A u \in Tasks : u # t => Passes(u) /\ applied'[u] = applied[u]
    BY <1>2, <1>4, <1>5 DEF TypeOK, Passes, Open, Stored
  <2>4. QED BY <1>3, <1>4, <2>2, <2>3, FatesKept
<1>10. CleanSession'
  BY <1>3, <1>4, <1>5 DEF CleanSession
<1>11. QED BY <1>6, <1>7, <1>8, <1>9, <1>10

LEMMA ExecuteFailsInv ==
  ASSUME IInv, NEW t \in Tasks, ExecuteFails(t)
  PROVE  IInv'
<1> USE EditAssumption DEF IInv
<1>1. /\ holder = t /\ outcome[t] = "pending" /\ op[t] = "edit" /\ pc[t] = "run" /\ Stored(t) = {}
      /\ pc' = [pc EXCEPT ![t] = "rollback"] /\ t # None /\ Unanswered(t) /\ Strays({})
      /\ UNCHANGED <<holder, link, op, left, applied, outcome, within>>
  BY DEF Phases, Fates, FateOf, ExecuteFails, Goto
<1>2. Statement(t) /\ (link = "lost" => Untouched)
  BY <1>1, UnansweredIsStatement
<1>3. \/ depth' = 0
      \/ /\ depth' = depth /\ durable' = durable
         /\ \E s \in SUBSET Changes : (\A c \in s : c.task = t) /\ pending' = pending \cup s
  <2>1. CASE Untouched
    <3>1. {} \in SUBSET Changes /\ (\A c \in {} : c.task = t) /\ pending' = pending \cup {}
      BY <2>1 DEF Untouched
    <3>2. QED BY <2>1, <3>1 DEF Untouched
  <2>2. CASE link = "open" /\ InFlight(t)
    <3>1. depth # 0 /\ (Undone \/ \E c \in left[t] : \E s \in SUBSET {c} : Changed(s))
      BY <1>1, <2>2 DEF ExecuteFails, InFlight, Levels
    <3>2. ASSUME NEW c \in left[t], NEW s \in SUBSET {c}, Changed(s)
          PROVE  /\ depth' = depth /\ durable' = durable /\ pending' = pending \cup s
                 /\ s \in SUBSET Changes /\ \A d \in s : d.task = t
      BY <3>1, <3>2 DEF Changed, TypeOK, Phases
    <3>3. QED BY <3>1, <3>2 DEF Undone
  <2>3. QED BY <1>1, <2>1, <2>2 DEF Unanswered
<1>4. depth' \in Nat /\ pending' \subseteq Changes /\ durable' \subseteq Changes
      /\ (depth' = 0 => pending' = {})
  BY <1>2, StatementTypes
<1>5. strays' = IF depth' = 0 THEN {} ELSE strays
  BY <1>1 DEF Strays
<1>6. TypeOK'
  BY <1>1, <1>4, <1>5 DEF TypeOK
<1>7. Phases'
  BY <1>1 DEF TypeOK, Phases
<1>8. Levels'
  <2>1. \A u \in Tasks : pc'[u] # "run"
    BY <1>1 DEF TypeOK, Phases
  <2>2. pc'[t] = "rollback"
    BY <1>1 DEF TypeOK
  <2>3. link' = "lost" => depth' = 0
    BY <1>1, <1>2 DEF Levels, Untouched
  <2>4. QED BY <1>1, <1>3, <1>4, <1>5, <2>1, <2>2, <2>3 DEF Levels
<1>9. Fates'
  <2>1. Stored(t)' = {}
    <3>1. durable' = durable
      BY <1>1, <1>3 DEF Unanswered, InFlight, Untouched, Undone, Changed, Levels, ExecuteFails
    <3>2. QED BY <1>1, <3>1 DEF Stored
  <2>2. pc'[t] = "rollback"
    BY <1>1 DEF TypeOK
  <2>3. FateOf(t)'
    BY <1>1, <2>1, <2>2 DEF FateOf
  <2>4. \A u \in Tasks : u # t => Passes(u) /\ pc'[u] = pc[u]
    BY <1>1, <1>2, StatementPasses DEF TypeOK
  <2>5. QED BY <1>1, <2>3, <2>4, FatesKept
<1>10. CleanSession'
  BY <1>1, <1>3, <1>4, <1>5 DEF CleanSession
<1>11. QED BY <1>6, <1>7, <1>8, <1>9, <1>10

(* The end of a call that held the client: what it may leave of the        *)
(* session's transaction, and of its own changes.                          *)
LEMMA EndInv ==
  ASSUME IInv, NEW t \in Tasks, holder = t,
         NEW r \in {"ok", "failed", "stranded", "unsure", "dropped"}, Finish(t, r),
         UNCHANGED <<link, op, within>>, Statement(t), link = "lost" => Untouched,
         NEW who \in {{}, {t}}, Strays(who), depth' # 0 => strays' # {},
         who = {t} => \/ op[t] = "begin" /\ r \in {"ok", "unsure"}
                      \/ op[t] = "edit" /\ r # "ok",
         applied' \in [Tasks -> SUBSET Changes], \A c \in applied'[t] : c.task = t,
         \A u \in Tasks : u # t => applied'[u] = applied[u],
         op[t] = "edit" /\ r = "failed" => Open(t)' = {} /\ Stored(t)' = {},
         op[t] = "edit" /\ r \in {"ok", "unsure"} =>
           Open(t)' \in {{}, applied'[t]} /\ Stored(t)' \in {{}, applied'[t]},
         op[t] = "edit" /\ r = "ok" /\ within[t] = {} => Stored(t)' = applied'[t]
  PROVE  IInv'
<1> USE EditAssumption DEF IInv, Finish, Goto
<1>1. t # None /\ outcome[t] = "pending" /\ holder' = None
  BY DEF Phases
<1>2. /\ depth' \in Nat /\ pending' \subseteq Changes /\ durable' \subseteq Changes
      /\ depth' = 0 => pending' = {}
  BY StatementTypes
<1>3. strays' = IF depth' = 0 THEN {} ELSE strays \cup who
  BY DEF Strays
<1>4. TypeOK'
  BY <1>1, <1>2, <1>3 DEF TypeOK
<1>5. Phases'
  BY <1>1 DEF TypeOK, Phases
<1>6. \A u \in Tasks : pc'[u] # "run"
  BY DEF TypeOK, Phases
<1>7. Levels'
  <2>1. link' = "lost" => depth' = 0
    BY DEF Levels, Untouched
  <2>2. \A u \in Tasks : holder' # u
    BY <1>1
  <2>3. QED BY <1>2, <1>3, <1>6, <2>1, <2>2 DEF Levels
<1>8. Fates'
  <2>1. pc'[t] = "done" /\ outcome'[t] = r
    BY DEF TypeOK
  <2>2. FateOf(t)'
    BY <2>1 DEF FateOf
  <2>3. \A u \in Tasks : u # t =>
          /\ Passes(u)
          /\ pc'[u] = pc[u] /\ op'[u] = op[u] /\ outcome'[u] = outcome[u]
          /\ applied'[u] = applied[u] /\ within'[u] = within[u]
    BY StatementPasses DEF TypeOK
  <2>4. QED BY <2>2, <2>3, FatesKept
<1>9. CleanSession'
  <2>1. ASSUME NEW u \in strays'
        PROVE  \/ op'[u] = "begin" /\ outcome'[u] \in {"ok", "unsure"}
               \/ op'[u] = "edit" /\ outcome'[u] \in {"failed", "stranded", "unsure", "dropped"}
    <3>1. CASE u \in strays
      <4>1. u # t
        BY <1>1, <3>1 DEF CleanSession
      <4>2. QED BY <3>1, <4>1 DEF CleanSession, TypeOK
    <3>2. CASE who = {t} /\ u = t
      BY <3>2 DEF TypeOK
    <3>3. QED BY <1>3, <2>1, <3>1, <3>2
  <2>2. strays' = {} => pending' = {}
    BY <1>2
  <2>3. QED BY <2>1, <2>2 DEF CleanSession
<1>10. QED BY <1>4, <1>5, <1>7, <1>8, <1>9

(* What is known of a batch that holds the client, whatever the session is *)
(* in.                                                                     *)
LEMMA Holding ==
  ASSUME IInv, NEW t \in Tasks, pc[t] \in {"begin", "run", "rollback"}
  PROVE  /\ holder = t /\ op[t] = "edit" /\ Stored(t) = {}
         /\ applied \in [Tasks -> SUBSET Changes] /\ \A c \in applied[t] : c.task = t
         /\ pc[t] = "begin" => Open(t) = {}
         /\ pc[t] = "run" => Open(t) \in {{}, applied[t]}
BY DEF IInv, TypeOK, Phases, Fates, FateOf

LEMMA BeginFailsInv ==
  ASSUME IInv, NEW t \in Tasks, BeginFails(t)
  PROVE  IInv'
<1>1. /\ pc[t] = "begin" /\ Unanswered(t) /\ Strays({t}) /\ Finish(t, "failed")
      /\ UNCHANGED <<link, op, applied, within>>
  BY DEF BeginFails
<1>2. Untouched \/ Opened
  BY <1>1 DEF Unanswered, InFlight
<1>3. Open(t)' = {} /\ Stored(t)' = {}
  BY <1>1, <1>2, Holding DEF Untouched, Opened, Open, Stored
<1>4. depth' # 0 => strays' # {}
  BY <1>1 DEF Strays
<1>5. QED BY <1>1, <1>3, <1>4, Holding, UnansweredIsStatement, EndInv

LEMMA CommitInv ==
  ASSUME IInv, NEW t \in Tasks, Commit(t)
  PROVE  IInv'
<1>1. /\ pc[t] = "run" /\ link = "open" /\ Committed /\ Strays({}) /\ Finish(t, "ok")
      /\ UNCHANGED <<link, op, applied, within>>
  BY DEF Commit
<1>2. /\ depth \in Nat \ {0} /\ (depth = 1 <=> strays = {})
      /\ (within[t] = {} => strays = {}) /\ Open(t) = applied[t]
  BY <1>1, Holding DEF IInv, TypeOK, Levels, Fates, FateOf
<1>3. Statement(t)
  BY <1>1, <1>2 DEF Statement
<1>4. Open(t)' \in {{}, applied[t]} /\ Stored(t)' \in {{}, applied[t]}
  BY <1>1, <1>2, Holding DEF Committed, Open, Stored
<1>5. within[t] = {} => Stored(t)' = applied[t]
  BY <1>1, <1>2, Holding DEF Committed, Open, Stored
<1>6. depth' # 0 => strays' # {}
  BY <1>1, <1>2 DEF Strays, Committed
<1>7. QED BY <1>1, <1>3, <1>4, <1>5, <1>6, Holding, EndInv

LEMMA CommitFailsInv ==
  ASSUME IInv, NEW t \in Tasks, CommitFails(t)
  PROVE  IInv'
<1>1. /\ pc[t] = "run" /\ left[t] = {} /\ Unanswered(t) /\ Strays({t}) /\ Finish(t, "unsure")
      /\ UNCHANGED <<link, op, applied, within>>
  BY DEF CommitFails
<1>2. Untouched \/ Undone \/ Committed
  BY <1>1 DEF Unanswered, InFlight
<1>3. Open(t)' \in {{}, applied[t]} /\ Stored(t)' \in {{}, applied[t]}
  BY <1>1, <1>2, Holding DEF Untouched, Undone, Committed, Open, Stored
<1>4. depth' # 0 => strays' # {}
  BY <1>1 DEF Strays
<1>5. QED BY <1>1, <1>3, <1>4, Holding, UnansweredIsStatement, EndInv

LEMMA RollbackInv ==
  ASSUME IInv, NEW t \in Tasks, Rollback(t)
  PROVE  IInv'
<1>1. /\ pc[t] = "rollback" /\ Strays({}) /\ Finish(t, "failed")
      /\ IF link = "open" THEN Undone ELSE Untouched
      /\ UNCHANGED <<link, op, applied, within>>
  BY DEF Rollback
<1>2. link # "open" => depth = 0 /\ pending = {}
  BY DEF IInv, TypeOK, Levels
<1>3. Statement(t) /\ (link = "lost" => Untouched) /\ depth' = 0
  BY <1>1, <1>2 DEF Statement, Undone, Untouched
<1>4. Open(t)' = {} /\ Stored(t)' = {}
  BY <1>1, <1>2, Holding DEF Undone, Untouched, Open, Stored
<1>5. QED BY <1>1, <1>3, <1>4, Holding, EndInv

(* A call that ends without knowing what became of its transaction.        *)
LEMMA LeaveInv ==
  ASSUME IInv, NEW t \in Tasks, RollbackFails(t) \/ (Abandon(t) /\ pc[t] # "wait")
  PROVE  IInv'
<1>1. /\ pc[t] \in {"begin", "run", "rollback"} /\ Unanswered(t) /\ Strays({t})
      /\ UNCHANGED <<link, op, applied, within>>
  BY DEF RollbackFails, Abandon
<1>2. PICK r \in {"stranded", "dropped"} : Finish(t, r)
  BY DEF RollbackFails, Abandon
<1>3. depth' # 0 => strays' # {}
  BY <1>1 DEF Strays
<1>4. QED BY <1>1, <1>2, <1>3, Holding, UnansweredIsStatement, EndInv

LEMMA QueryInv ==
  ASSUME IInv, NEW t \in Tasks, QueryRuns(t) \/ QueryFails(t)
  PROVE  IInv'
<1>1. pc[t] = "query" /\ UNCHANGED <<link, op, within>> /\ Strays(Openers(t))
  BY DEF QueryRuns, QueryFails
<1>2. /\ holder = t /\ op[t] \in UserSql /\ op[t] # "edit" /\ applied[t] = {}
      /\ applied \in [Tasks -> SUBSET Changes]
  BY <1>1, EditAssumption DEF IInv, TypeOK, Phases
<1>3. Statement(t) /\ (link = "lost" => Untouched)
  BY <1>1, <1>2, EffectIsStatement, UnansweredIsStatement DEF QueryRuns, QueryFails
<1>4. PICK r \in {"ok", "unsure"} : Finish(t, r)
  BY DEF QueryRuns, QueryFails
<1>5. WriteOf(t) \in Changes /\ WriteOf(t).task = t
  BY EditAssumption DEF WriteOf, Changes
<1>6. /\ applied' \in [Tasks -> SUBSET Changes] /\ \A u \in Tasks : u # t => applied'[u] = applied[u]
      /\ \A c \in applied'[t] : c.task = t
  BY <1>2, <1>5 DEF QueryRuns, QueryFails
<1>7. depth' # 0 => strays' # {}
  <2>1. CASE op[t] = "begin"
    BY <1>1, <2>1 DEF Strays, Openers
  <2>2. CASE op[t] # "begin" /\ strays # {}
    BY <1>1, <2>2 DEF Strays
  <2>3. CASE op[t] # "begin" /\ strays = {}
    <3>1. depth = 0
      BY <1>1, <1>2, <2>3 DEF IInv, Levels
    <3>2. Untouched \/ Undone \/ Effect(t)
      BY <1>1 DEF QueryRuns, QueryFails, Unanswered, InFlight
    <3>3. Effect(t) => depth' = 0
      <4>1. op[t] \in {"write", "commit", "rollback"}
        BY <1>2, <2>3, EditAssumption
      <4>2. CASE op[t] = "write"
        BY <3>1, <4>2 DEF Effect, Changed
      <4>3. CASE op[t] = "commit"
        BY <3>1, <4>3 DEF Effect
      <4>4. CASE op[t] = "rollback"
        BY <3>1, <4>4 DEF Effect
      <4>5. QED BY <4>1, <4>2, <4>3, <4>4
    <3>4. QED BY <3>1, <3>2, <3>3 DEF Untouched, Undone
  <2>4. QED BY <2>1, <2>2, <2>3
<1>8. Openers(t) \in {{}, {t}} /\ (Openers(t) = {t} => op[t] = "begin")
  BY DEF Openers
<1>9. QED BY <1>1, <1>2, <1>3, <1>4, <1>6, <1>7, <1>8, EndInv

LEMMA LinkLossInv ==
  ASSUME IInv, LinkLoss
  PROVE  IInv'
<1> USE DEF IInv, LinkLoss, Undone, Strays
<1>1. TypeOK' /\ Phases' /\ Levels'
  BY DEF TypeOK, Phases, Levels
<1>2. Fates' /\ CleanSession'
  BY DEF Fates, FateOf, Open, Stored, CleanSession
<1>3. QED BY <1>1, <1>2

LEMMA NextInv == IInv /\ [Next]_vars => IInv'
<1>1. ASSUME IInv, Next
      PROVE  IInv'
  BY <1>1, StartInv, EarlyEndInv, AcquireInv, BeginInv, BeginFailsInv, ExecuteInv,
     ExecuteFailsInv, CommitInv, CommitFailsInv, RollbackInv, LeaveInv, QueryInv, LinkLossInv
     DEF Next
<1>2. ASSUME IInv, UNCHANGED vars
      PROVE  IInv'
  BY <1>2 DEF vars, server, IInv, TypeOK, Phases, Levels, Fates, FateOf, Open, Stored, CleanSession
<1>3. QED BY <1>1, <1>2

LEMMA Invariance == Spec => []IInv
BY InitInv, NextInv, PTL DEF Spec

-----------------------------------------------------------------------------

(* What apply_edits returns Ok with is in the database, all of it, if no   *)
(* transaction of another call was open when it took the client; whatever  *)
(* queries do, whichever BEGIN, COMMIT or ROLLBACK fails on a session that *)
(* stays open, and whichever batches are dropped (apply_edits, mssql.rs).  *)
THEOREM ReportsAreStored == Spec => []ReportedIsStored
<1>1. IInv => ReportedIsStored
  BY DEF IInv, Fates, FateOf, ReportedIsStored
<1>2. QED BY <1>1, Invariance, PTL

(* A call hands the client on with a transaction open only if it is a      *)
(* query that sent BEGIN, a batch that returned an error or one that was   *)
(* dropped, or if it found the transaction of such a call open itself; a   *)
(* batch that returned Ok leaves none (apply_edits, mssql.rs, and the drop *)
(* of its guard).                                                          *)
THEOREM SessionIsClean == Spec => []CleanSession
<1>1. IInv => CleanSession
  BY DEF IInv
<1>2. QED BY <1>1, Invariance, PTL

(* A batch is in the database whole or not at all, and one that failed     *)
(* before its COMMIT has left nothing a later COMMIT would keep, whatever  *)
(* transaction it began in; unless its future was dropped or its ROLLBACK  *)
(* failed too (apply_edits, mssql.rs).                                     *)
THEOREM BatchesAreWhole == Spec => []WholeOrNothing
<1>1. IInv => WholeOrNothing
  <2> SUFFICES ASSUME IInv, NEW t \in Tasks, op[t] = "edit",
                      outcome[t] \notin {"dropped", "stranded"}
               PROVE  /\ Stored(t) \in {{}, applied[t]}
                      /\ outcome[t] = "failed" => Open(t) = {} /\ Stored(t) = {}
    BY DEF WholeOrNothing
  <2>1. FateOf(t) /\ (pc[t] = "done" => outcome[t] \in {"failed", "ok", "unsure"})
    BY DEF IInv, TypeOK, Phases, Fates
  <2>2. QED BY <2>1 DEF FateOf
<1>2. QED BY <1>1, Invariance, PTL

-----------------------------------------------------------------------------
(* The refinement.  A step that ends no call changes nothing AtomicEdits   *)
(* sees; one that ends a call is its End.                                  *)

OnlyWrites == UserSql \subseteq {"write"} /\ ~EditsDropped

LEMMA StutterMaps ==
  ASSUME IInv, UNCHANGED <<durable, outcome>>,
         \A t \in Tasks : outcome[t] = "ok" => applied'[t] = applied[t] /\ within'[t] = within[t]
  PROVE  UNCHANGED Atomic!vars
<1>1. \A t \in Tasks : believed'[t] = believed[t]
  BY DEF believed
<1>2. \A t \in Tasks : (IF believed'[t] = "ok" THEN applied'[t] ELSE {}) =
                       (IF believed[t] = "ok" THEN applied[t] ELSE {})
  BY <1>1 DEF believed
<1>3. believed' = believed
  BY <1>1 DEF believed
<1>4. QED BY <1>2, <1>3 DEF Atomic!vars

(* What the end of t's call may return, for what it has made durable.      *)
LEMMA EndMaps ==
  ASSUME IInv, NEW t \in Tasks, outcome[t] = "pending", Stored(t) = {},
         NEW r \in {"ok", "failed", "stranded", "unsure"}, Finish(t, r),
         \A u \in Tasks : u # t => applied'[u] = applied[u], within' = within,
         NEW entered, durable' = durable \cup entered, \A c \in entered : c.task = t,
         r = "ok" /\ within[t] = {} => entered = applied'[t],
         r \in {"failed", "stranded"} => entered = {}
  PROVE  Atomic!Next
<1> DEFINE rep == [u \in Tasks |-> IF believed[u] = "ok" THEN applied[u] ELSE {}]
<1>1. outcome' = [outcome EXCEPT ![t] = r] /\ DOMAIN outcome = Tasks
  BY DEF Finish, IInv, TypeOK
<1>2. believed[t] = "pending"
  BY <1>1 DEF believed
<1>b. PICK b \in {"ok", "failed", "unsure"} : believed'[t] = b
  BY <1>1 DEF believed
<1>3. \A u \in Tasks : u # t => believed'[u] = believed[u]
  BY <1>1 DEF believed
<1>4. b = "ok" => entered = applied'[t]
  BY <1>1, <1>b DEF believed
<1>5. b = "failed" => entered = {}
  BY <1>1, <1>b DEF believed
<1>6. \A c \in durable : c.task # t
  BY DEF Stored
<1>7. durable' \ durable = entered /\ durable \subseteq durable'
  BY <1>6
<1>8. believed' = [believed EXCEPT ![t] = b]
  BY <1>3, <1>b DEF believed
<1>9. rep' = [rep EXCEPT ![t] = IF b = "ok" THEN durable' \ durable ELSE {}]
  <2>1. \A u \in Tasks : rep'[u] = IF u = t THEN (IF b = "ok" THEN entered ELSE {}) ELSE rep[u]
    BY <1>3, <1>4, <1>b
  <2>2. QED BY <1>7, <2>1
<1>10. Atomic!End(t, b)
  <2>1. believed[t] = "pending" /\ durable \subseteq durable'
    BY <1>2, <1>7
  <2>2. \A c \in durable' : c.task = t => c \in durable' \ durable
    BY <1>6
  <2>3. \A c \in durable' \ durable : c.task = t
    BY <1>7
  <2>4. b = "failed" => durable' \ durable = {}
    BY <1>5, <1>7
  <2>5. QED BY <1>8, <1>9, <2>1, <2>2, <2>3, <2>4 DEF Atomic!End
<1>11. QED BY <1>10 DEF Atomic!Next

LEMMA CommitMaps ==
  ASSUME IInv, NEW t \in Tasks, Commit(t) \/ CommitFails(t)
  PROVE  Atomic!Next
<1>1. /\ pc[t] = "run" /\ left[t] = {} /\ UNCHANGED <<applied, within>>
      /\ outcome[t] = "pending" /\ Stored(t) = {} /\ \A c \in applied[t] : c.task = t
  BY DEF Commit, CommitFails, IInv, Phases, Fates, FateOf
<1>2. link = "open" =>
        /\ depth # 0 /\ (depth = 1 <=> strays = {}) /\ (within[t] = {} => strays = {})
        /\ (strays = {} => pending = applied[t])
  <2>1. link = "open" => /\ depth # 0 /\ (depth = 1 <=> strays = {})
                         /\ Open(t) = applied[t] /\ holder = t
    BY <1>1 DEF IInv, Phases, Levels, Fates, FateOf
  <2>2. within[t] = {} /\ link = "open" => strays = {}
    BY <2>1 DEF IInv, Levels
  <2>3. strays = {} /\ link = "open" => pending = Open(t)
    BY <2>1 DEF Open, IInv, CleanSession
  <2>4. QED BY <2>1, <2>2, <2>3
<1>3. CASE Commit(t)
  <2>1. /\ Finish(t, "ok") /\ link = "open"
        /\ durable' = IF depth = 1 THEN durable \cup pending ELSE durable
    BY <1>3 DEF Commit, Committed
  <2> DEFINE entered == IF depth = 1 THEN pending ELSE {}
  <2>2. durable' = durable \cup entered /\ \A c \in entered : c.task = t
    BY <1>1, <1>2, <2>1
  <2>3. within[t] = {} => entered = applied'[t]
    BY <1>1, <1>2, <2>1
  <2> HIDE DEF entered
  <2>4. QED BY <1>1, <2>1, <2>2, <2>3, EndMaps
<1>4. CASE CommitFails(t)
  <2>1. Finish(t, "unsure") /\ (Untouched \/ (link = "open" /\ (Undone \/ Committed)))
    BY <1>1, <1>4 DEF CommitFails, Unanswered, InFlight
  <2>2. PICK entered \in {{}, applied[t]} : durable' = durable \cup entered
    <3>1. CASE Untouched \/ Undone
      BY <3>1 DEF Untouched, Undone
    <3>2. CASE link = "open" /\ Committed
      BY <1>2, <3>2 DEF Committed
    <3>3. QED BY <2>1, <3>1, <3>2
  <2>3. \A c \in entered : c.task = t
    BY <1>1
  <2>4. QED BY <1>1, <2>1, <2>2, <2>3, EndMaps
<1>5. QED BY <1>3, <1>4

LEMMA QueryMaps ==
  ASSUME OnlyWrites, IInv, NEW t \in Tasks, QueryRuns(t) \/ QueryFails(t)
  PROVE  Atomic!Next
<1>1. /\ pc[t] = "query" /\ op[t] = "write" /\ outcome[t] = "pending" /\ holder = t
      /\ Stored(t) = {} /\ within' = within /\ applied \in [Tasks -> SUBSET Changes]
  BY DEF OnlyWrites, QueryRuns, QueryFails, IInv, TypeOK, Phases, Fates, FateOf
<1>2. within[t] = {} => depth = 0
  BY <1>1 DEF IInv, Levels
<1>3. WriteOf(t) \in Changes /\ WriteOf(t).task = t
  BY EditAssumption DEF WriteOf, Changes
<1>4. Effect(t) => durable' = durable \cup IF depth > 0 THEN {} ELSE {WriteOf(t)}
  BY <1>1 DEF Effect, Changed
<1>5. CASE QueryRuns(t)
  <2> DEFINE entered == IF depth > 0 THEN {} ELSE {WriteOf(t)}
  <2>1. /\ durable' = durable \cup entered /\ (\A c \in entered : c.task = t)
        /\ applied' = [applied EXCEPT ![t] = {WriteOf(t)}]
    BY <1>1, <1>3, <1>4, <1>5 DEF QueryRuns
  <2>2. within[t] = {} => entered = applied'[t]
    BY <1>1, <1>2, <2>1
  <2>3. \A u \in Tasks : u # t => applied'[u] = applied[u]
    BY <1>1, <2>1
  <2>4. Finish(t, "ok")
    BY <1>5 DEF QueryRuns
  <2> HIDE DEF entered
  <2>5. QED BY <1>1, <2>1, <2>2, <2>3, <2>4, EndMaps
<1>6. CASE QueryFails(t)
  <2>1. Finish(t, "unsure") /\ UNCHANGED applied /\ (Untouched \/ Undone \/ Effect(t))
    BY <1>1, <1>6 DEF QueryFails, Unanswered, InFlight
  <2>2. PICK entered \in {{}, {WriteOf(t)}} : durable' = durable \cup entered
    BY <1>4, <2>1 DEF Untouched, Undone
  <2>3. \A c \in entered : c.task = t
    BY <1>3
  <2>4. QED BY <1>1, <2>1, <2>2, <2>3, EndMaps
<1>7. QED BY <1>5, <1>6

LEMMA StepMaps ==
  ASSUME OnlyWrites, IInv, [Next]_vars
  PROVE  [Atomic!Next]_(Atomic!vars)
<1>1. ASSUME NEW t \in Tasks,
             \/ \E plan \in Plans(t) : Apply(t, plan)
             \/ \E q \in UserSql : RunQuery(t, q)
             \/ Acquire(t) \/ Begin(t) \/ Execute(t) \/ ExecuteFails(t)
      PROVE  UNCHANGED Atomic!vars
  <2>1. outcome[t] = "pending" /\ (pc[t] = "run" => link # "open" \/ depth # 0)
    BY <1>1 DEF IInv, Phases, Levels, Apply, RunQuery, Acquire, Begin, Execute, ExecuteFails
  <2>2. UNCHANGED <<durable, outcome>>
    <3>1. CASE ExecuteFails(t)
      <4>1. depth \in Nat
        BY DEF IInv, TypeOK
      <4>2. outcome' = outcome /\ (Untouched \/ (link = "open" /\ InFlight(t)))
        BY <3>1 DEF ExecuteFails, Unanswered
      <4>3. ASSUME link = "open", InFlight(t)
            PROVE  durable' = durable
        <5>1. depth > 0 /\ pc[t] = "run" /\ left[t] # {}
          BY <2>1, <3>1, <4>1, <4>3 DEF ExecuteFails
        <5>2. Undone \/ \E s : Changed(s)
          BY <4>3, <5>1 DEF InFlight
        <5>3. QED BY <5>1, <5>2 DEF Undone, Changed
      <4>4. QED BY <4>2, <4>3 DEF Untouched
    <3>2. CASE Execute(t)
      <4>1. depth # 0 /\ outcome' = outcome /\ \E changes : Changed(changes)
        BY <2>1, <3>2 DEF Execute
      <4>2. depth > 0
        BY <4>1 DEF IInv, TypeOK
      <4>3. QED BY <4>1, <4>2 DEF Changed
    <3>3. CASE Acquire(t) \/ Begin(t)
      BY <3>3 DEF Acquire, Begin, Opened, server
    <3>4. CASE (\E plan \in Plans(t) : Apply(t, plan)) \/ \E q \in UserSql : RunQuery(t, q)
      BY <3>4 DEF Apply, RunQuery, server
    <3>5. QED BY <1>1, <3>1, <3>2, <3>3, <3>4
  <2>3. \A u \in Tasks : u # t => applied'[u] = applied[u] /\ within'[u] = within[u]
    <3>1. /\ applied' = applied \/ \E x : applied' = [applied EXCEPT ![t] = x]
          /\ within' = within \/ within' = [within EXCEPT ![t] = strays]
      BY <1>1 DEF Apply, RunQuery, Acquire, Begin, Execute, ExecuteFails
    <3>2. QED BY <3>1 DEF IInv, TypeOK
  <2>4. QED BY <2>1, <2>2, <2>3, StutterMaps
<1>2. ASSUME NEW t \in Tasks,
             PlanFails(t) \/ BeginFails(t) \/ Dropped(t) \/ Rollback(t) \/ RollbackFails(t)
      PROVE  Atomic!Next
  <2>1. UNCHANGED <<durable, applied, within>> /\ outcome[t] = "pending" /\ Stored(t) = {}
    BY <1>2 DEF IInv, Phases, Fates, FateOf, PlanFails, BeginFails, Dropped, Rollback,
       RollbackFails, Unanswered, InFlight, Opened, Untouched, Undone, server
  <2>2. PICK r \in {"failed", "stranded", "unsure"} : Finish(t, r)
    BY <1>2 DEF PlanFails, BeginFails, Dropped, Rollback, RollbackFails
  <2>3. PICK entered \in {{}} : durable' = durable \cup entered
    BY <2>1
  <2>4. QED BY <2>1, <2>2, <2>3, EndMaps
<1>3. ASSUME LinkLoss \/ UNCHANGED vars
      PROVE  UNCHANGED Atomic!vars
  <2>1. UNCHANGED <<durable, outcome, applied, within>>
    BY <1>3 DEF LinkLoss, Undone, vars, server
  <2>2. QED BY <2>1, StutterMaps
<1>4. QED
  BY <1>1, <1>2, <1>3, CommitMaps, QueryMaps DEF Next, OnlyWrites, Abandon

(* The calls of the adapter take effect on the database like AtomicEdits:  *)
(* whole, at once, and only as reported, an Ok given inside a transaction  *)
(* that a failed BEGIN, COMMIT or ROLLBACK left open counting as no answer;*)
(* as long as queries only write and no batch is dropped (apply_edits and  *)
(* run_query, mssql.rs).                                                   *)
THEOREM EditsAreAtomic ==
  ASSUME OnlyWrites
  PROVE  Spec => ImplementsAtomic
<1>1. Init => Atomic!Init
  BY DEF Init, Atomic!Init, believed
<1>2. IInv /\ [Next]_vars => [Atomic!Next]_(Atomic!vars)
  BY OnlyWrites, StepMaps
<1>3. QED BY <1>1, <1>2, Invariance, PTL DEF Spec, ImplementsAtomic, Atomic!Spec
=============================================================================
