--------------------------- MODULE ConnectorProofs ---------------------------
(***************************************************************************)
(* What TLAPS proves of Connector for every number of callers, ids and     *)
(* sessions, every set of statements and every cap: first that an answer   *)
(* is the caller's own; then what a host sees: the count of handles on     *)
(* every session is right, a reply is complete, a session is published     *)
(* only when it has answered, and the calls take effect one at a time on a *)
(* plain table of sessions.                                                *)
(***************************************************************************)
EXTENDS Connector, SequenceTheorems, FiniteSetTheorems, TLAPS

(* An answer is a sequence of tokens of its statement, its rows first and   *)
(* numbered in order (query on the wire, run_query's stream).               *)
LEMMA AnswerShape ==
  ASSUME NEW q \in Statements, NEW x \in Answers(q)
  PROVE  /\ x \in Seq(Tokens)
         /\ \A i \in 1..Len(x) : x[i].sql = q /\ (x[i].kind = "row" => x[i].n = i)
<1> USE ConnectorAssumption
<1>1. PICK m \in 0..MaxAnswer :
        \/ x = RowsOf(q, m) \o <<Token("done", q, m)>>
        \/ x = RowsOf(q, m) \o <<Token("error", q, m), Token("done", q, m)>>
  BY DEF Answers
<1>2. /\ RowsOf(q, m) \in Seq(Tokens) /\ Len(RowsOf(q, m)) = m
      /\ \A i \in 1..m : RowsOf(q, m)[i] = Token("row", q, i)
  BY DEF RowsOf, Token, Tokens
<1>3. \A k \in {"row", "error", "done"} : \A i \in Nat :
        /\ Token(k, q, i) \in Tokens
        /\ Token(k, q, i).kind = k /\ Token(k, q, i).sql = q /\ Token(k, q, i).n = i
  BY DEF Token, Tokens
<1>4. CASE x = RowsOf(q, m) \o <<Token("done", q, m)>>
  BY <1>2, <1>3, <1>4
<1>5. CASE x = RowsOf(q, m) \o <<Token("error", q, m), Token("done", q, m)>>
  BY <1>2, <1>3, <1>5
<1>6. QED
  BY <1>1, <1>4, <1>5

LEMMA TailIndex ==
  ASSUME NEW S, NEW q \in Seq(S), q # <<>>
  PROVE  /\ Tail(q) \in Seq(S) /\ Len(Tail(q)) = Len(q) - 1
         /\ Head(q) = q[1] /\ Head(q) \in S /\ 1 \in 1..Len(q)
         /\ \A i \in 1..Len(Tail(q)) : i + 1 \in 1..Len(q) /\ Tail(q)[i] = q[i + 1]
OBVIOUS

LEMMA LongTail ==
  ASSUME NEW S, NEW q \in Seq(S), Len(q) > 1
  PROVE  Tail(q) \in Seq(S) /\ Tail(q) # <<>>
<1>1. q # <<>>
  OBVIOUS
<1>2. Tail(q) \in Seq(S) /\ Len(Tail(q)) = Len(q) - 1 /\ Len(q) \in Nat
  BY <1>1, TailIndex
<1>3. Len(Tail(q)) # 0
  BY <1>2
<1>4. QED BY <1>2, <1>3, EmptySeq

-----------------------------------------------------------------------------
(* What a call that reads has kept and has still to read, as one formula.  *)
Fits(ans, op, q, kept, cut) ==
  /\ \A i \in 1..Len(kept) : kept[i] = Token("row", q, i)
  /\ \A i \in 1..Len(ans) : ans[i].sql = q
  /\ IF cut THEN ~(op = "query" => Len(kept) < Cap)
            ELSE \A i \in 1..Len(ans) : ans[i].kind = "row" => ans[i].n = Len(kept) + i

FitsNow(c) == Fits(answer[conn[c]], req[c].op, Head(todo[c]), rows[c], more[c])

Readers == \A c \in Callers : pc[c] = "read" => FitsNow(c)

LEMMA ReadersEquiv == Readers <=> RowsContinue /\ OwnAnswer
BY DEF Readers, FitsNow, Fits, RowsContinue, OwnAnswer, Keeps

LEMMA FitsFresh ==
  ASSUME NEW q \in Statements, NEW x \in Answers(q), NEW op
  PROVE  Fits(x, op, q, <<>>, FALSE)
BY AnswerShape DEF Fits

LEMMA FitsNothingLeft ==
  ASSUME NEW ans \in Seq(Tokens), NEW op, NEW q, NEW kept \in Seq(Tokens),
         NEW cut \in BOOLEAN, Fits(ans, op, q, kept, cut)
  PROVE  /\ Fits(<<>>, op, q, kept, cut)
         /\ \A k \in 0..Len(ans) : Fits(SubSeq(ans, 1, k), op, q, kept, cut)
BY DEF Fits

(* Reading a row: kept under the cap, turned away over it.                 *)
LEMMA FitsKeep ==
  ASSUME NEW ans \in Seq(Tokens), NEW op, NEW q, NEW kept \in Seq(Tokens),
         NEW cut \in BOOLEAN, Fits(ans, op, q, kept, cut),
         ans # <<>>, Head(ans).kind = "row", op = "query" => Len(kept) < Cap
  PROVE  Fits(Tail(ans), op, q, Append(kept, Head(ans)), cut)
<1> USE ConnectorAssumption
<1>1. ~cut /\ Head(ans) = ans[1] /\ 1 \in 1..Len(ans) /\ Head(ans) \in Tokens
  BY DEF Fits
<1>2. Head(ans) = Token("row", q, Len(kept) + 1)
  BY <1>1 DEF Fits, Token, Tokens
<1>3. \A i \in 1..Len(Append(kept, Head(ans))) : Append(kept, Head(ans))[i] = Token("row", q, i)
  BY <1>2 DEF Fits
<1>4. \A i \in 1..Len(Tail(ans)) : i + 1 \in 1..Len(ans) /\ Tail(ans)[i] = ans[i + 1]
  BY <1>1
<1>5. \A i \in 1..Len(Tail(ans)) : Tail(ans)[i].sql = q
  BY <1>4 DEF Fits
<1>6. \A i \in 1..Len(Tail(ans)) : Tail(ans)[i].kind = "row" =>
        Tail(ans)[i].n = Len(Append(kept, Head(ans))) + i
  BY <1>1, <1>4 DEF Fits
<1>7. QED
  BY <1>1, <1>3, <1>5, <1>6 DEF Fits

LEMMA FitsCut ==
  ASSUME NEW ans \in Seq(Tokens), NEW op, NEW q, NEW kept \in Seq(Tokens),
         NEW cut \in BOOLEAN, Fits(ans, op, q, kept, cut),
         ans # <<>>, ~(op = "query" => Len(kept) < Cap)
  PROVE  Fits(Tail(ans), op, q, kept, TRUE)
<1>1. \A i \in 1..Len(Tail(ans)) : i + 1 \in 1..Len(ans) /\ Tail(ans)[i] = ans[i + 1]
  OBVIOUS
<1>2. QED
  BY <1>1 DEF Fits

-----------------------------------------------------------------------------
(* The client lock: the queue changes in two ways, or not at all.          *)

Client == {"ask", "read"}

LEMMA QueueSame ==
  ASSUME TypeOK, QueueHonest, UNCHANGED queue,
         \A d \in Callers : /\ pc'[d] \in Client <=> pc[d] \in Client
                            /\ pc[d] \in Client => conn'[d] = conn[d]
                            /\ pc'[d] = "read" => Holds(d, conn[d])
  PROVE  QueueHonest'
<1>1. ASSUME NEW s \in Sessions, NEW i \in 1..Len(queue[s])
      PROVE  /\ queue[s][i] \in Callers
             /\ conn'[queue[s][i]] = s /\ pc'[queue[s][i]] \in Client
  BY <1>1 DEF TypeOK, QueueHonest, Client
<1>2. ASSUME NEW d \in Callers, pc'[d] \in Client
      PROVE  \E i \in 1..Len(queue[conn'[d]]) : queue[conn'[d]][i] = d
  BY <1>2 DEF QueueHonest, Client
<1>3. ASSUME NEW d \in Callers, pc'[d] = "read"
      PROVE  Holds(d, conn[d])'
  BY <1>3 DEF QueueHonest, Client, Holds
<1>4. QED
  BY <1>1, <1>2, <1>3 DEF QueueHonest, Client

LEMMA QueueJoined ==
  ASSUME TypeOK, QueueHonest, NEW c \in Callers, pc[c] = "lock", conn[c] \in Sessions,
         queue' = [queue EXCEPT ![conn[c]] = Append(@, c)],
         pc' = [pc EXCEPT ![c] = "ask"], UNCHANGED conn
  PROVE  QueueHonest'
<1> DEFINE s0 == conn[c]
<1>1. /\ queue'[s0] = Append(queue[s0], c) /\ queue[s0] \in Seq(Callers)
      /\ \A s \in Sessions : s # s0 => queue'[s] = queue[s]
      /\ \A d \in Callers : d # c => pc'[d] = pc[d]
      /\ pc'[c] = "ask"
  BY DEF TypeOK
<1>2. /\ Len(queue'[s0]) = Len(queue[s0]) + 1 /\ queue'[s0][Len(queue[s0]) + 1] = c
      /\ \A i \in 1..Len(queue[s0]) : queue'[s0][i] = queue[s0][i]
      /\ \A i \in 1..Len(queue[s0]) : queue[s0][i] # c
  BY <1>1 DEF QueueHonest
<1>3. ASSUME NEW s \in Sessions, NEW i \in 1..Len(queue'[s])
      PROVE  /\ conn'[queue'[s][i]] = s
             /\ pc'[queue'[s][i]] \in Client
             /\ \A j \in 1..Len(queue'[s]) : queue'[s][i] = queue'[s][j] => i = j
  <2>1. CASE s # s0
    BY <1>1, <1>3, <2>1 DEF QueueHonest, Client, TypeOK
  <2>2. CASE s = s0 /\ i = Len(queue[s0]) + 1
    BY <1>1, <1>2, <1>3, <2>2 DEF QueueHonest, Client, TypeOK
  <2>3. CASE s = s0 /\ i \in 1..Len(queue[s0])
    BY <1>1, <1>2, <1>3, <2>3 DEF QueueHonest, Client, TypeOK
  <2>4. QED
    BY <1>1, <1>2, <1>3, <2>1, <2>2, <2>3
<1>4. ASSUME NEW d \in Callers, pc'[d] \in Client
      PROVE  \E i \in 1..Len(queue'[conn'[d]]) : queue'[conn'[d]][i] = d
  <2>1. CASE d = c
    BY <1>1, <1>2, <2>1
  <2>2. CASE d # c
    <3>1. PICK i \in 1..Len(queue[conn[d]]) : queue[conn[d]][i] = d
      BY <1>1, <1>4, <2>2 DEF QueueHonest, Client
    <3>2. CASE conn[d] = s0
      BY <1>1, <1>2, <3>1, <3>2
    <3>3. CASE conn[d] # s0
      <4>1. queue'[conn[d]] = queue[conn[d]]
        BY <3>3 DEF TypeOK
      <4>2. QED BY <3>1, <4>1
    <3>4. QED BY <3>2, <3>3
  <2>3. QED BY <2>1, <2>2
<1>5. ASSUME NEW d \in Callers, pc'[d] = "read"
      PROVE  Holds(d, conn[d])'
  <2>1. d # c /\ pc[d] = "read" /\ Holds(d, conn[d])
    BY <1>1, <1>5 DEF QueueHonest
  <2>2. CASE conn[d] = s0
    BY <1>1, <1>2, <2>1, <2>2 DEF Holds
  <2>3. CASE conn[d] # s0
    <3>1. queue'[conn[d]] = queue[conn[d]]
      BY <2>3 DEF TypeOK
    <3>2. QED BY <2>1, <3>1 DEF Holds
  <2>4. QED BY <2>2, <2>3
<1>6. QED
  BY <1>3, <1>4, <1>5 DEF QueueHonest, Client

LEMMA QueueLeft ==
  ASSUME TypeOK, QueueHonest, NEW c \in Callers, Holds(c, conn[c]), conn[c] \in Sessions,
         pc[c] \in Client, NEW phase, phase \notin Client,
         queue' = [queue EXCEPT ![conn[c]] = Tail(@)],
         pc' = [pc EXCEPT ![c] = phase], UNCHANGED conn
  PROVE  QueueHonest'
<1> DEFINE s0 == conn[c]
<1>1. /\ queue'[s0] = Tail(queue[s0]) /\ queue[s0] \in Seq(Callers) /\ queue[s0] # <<>>
      /\ queue[s0][1] = c
      /\ \A s \in Sessions : s # s0 => queue'[s] = queue[s]
      /\ \A d \in Callers : d # c => pc'[d] = pc[d]
      /\ pc'[c] = phase
  BY DEF TypeOK, Holds
<1>2. /\ Len(queue'[s0]) = Len(queue[s0]) - 1
      /\ \A i \in 1..Len(queue'[s0]) : i + 1 \in 1..Len(queue[s0]) /\ queue'[s0][i] = queue[s0][i + 1]
  <2>1. /\ Len(Tail(queue[s0])) = Len(queue[s0]) - 1
        /\ \A i \in 1..Len(Tail(queue[s0])) :
             i + 1 \in 1..Len(queue[s0]) /\ Tail(queue[s0])[i] = queue[s0][i + 1]
    <3> HIDE DEF s0
    <3>1. QED BY <1>1, TailIndex
  <2>2. QED BY <1>1, <2>1
<1>8. ASSUME NEW i \in 2..Len(queue[s0])
      PROVE  i - 1 \in 1..Len(queue'[s0]) /\ queue'[s0][i - 1] = queue[s0][i]
  <2> DEFINE k == i - 1
  <2>1. k \in 1..Len(queue'[s0]) /\ k + 1 = i
    BY <1>1, <1>2, <1>8
  <2>2. queue'[s0][k] = queue[s0][k + 1]
    BY <1>2, <2>1
  <2>3. QED BY <2>1, <2>2
<1>3. \A i \in 2..Len(queue[s0]) : queue[s0][i] # c
  BY <1>1 DEF QueueHonest
<1>4. ASSUME NEW s \in Sessions, NEW i \in 1..Len(queue'[s])
      PROVE  /\ conn'[queue'[s][i]] = s
             /\ pc'[queue'[s][i]] \in Client
             /\ \A j \in 1..Len(queue'[s]) : queue'[s][i] = queue'[s][j] => i = j
  <2>1. CASE s # s0
    <3>0. queue'[s] = queue[s] /\ queue[s] \in Seq(Callers)
      BY <1>1, <2>1 DEF TypeOK
    <3>1. /\ queue'[s] = queue[s] /\ queue[s][i] \in Callers
          /\ conn[queue[s][i]] = s /\ pc[queue[s][i]] \in Client
      BY <1>4, <3>0 DEF QueueHonest, Client
    <3>2. queue[s][i] # c
      BY <2>1, <3>1
    <3>3. \A j \in 1..Len(queue[s]) : queue[s][i] = queue[s][j] => i = j
      BY <1>4, <3>1 DEF QueueHonest
    <3>4. QED BY <1>1, <3>1, <3>2, <3>3
  <2>2. CASE s = s0
    <3>1. i + 1 \in 2..Len(queue[s0]) /\ queue'[s][i] = queue[s0][i + 1]
      BY <1>1, <1>2, <1>4, <2>2
    <3>2. queue[s0][i + 1] \in Callers /\ queue[s0][i + 1] # c
      BY <1>1, <1>3, <3>1
    <3>3. conn[queue[s0][i + 1]] = s0 /\ pc[queue[s0][i + 1]] \in Client
      BY <3>1 DEF QueueHonest, Client
    <3>4. ASSUME NEW j \in 1..Len(queue'[s]), queue'[s][i] = queue'[s][j]
          PROVE  i = j
      <4>1. j + 1 \in 1..Len(queue[s0]) /\ queue[s0][i + 1] = queue[s0][j + 1]
        BY <1>2, <2>2, <3>1, <3>4
      <4>2. i + 1 \in 1..Len(queue[s0])
        BY <3>1
      <4>3. i + 1 = j + 1
        BY <4>1, <4>2 DEF QueueHonest
      <4>4. QED BY <4>3
    <3>5. QED BY <1>1, <2>2, <3>1, <3>2, <3>3, <3>4
  <2>3. QED BY <2>1, <2>2
<1>5. ASSUME NEW d \in Callers, pc'[d] \in Client
      PROVE  \E i \in 1..Len(queue'[conn'[d]]) : queue'[conn'[d]][i] = d
  <2>1. d # c /\ pc[d] \in Client
    BY <1>1, <1>5
  <2>2. PICK i \in 1..Len(queue[conn[d]]) : queue[conn[d]][i] = d
    BY <2>1 DEF QueueHonest, Client
  <2>3. CASE conn[d] = s0
    <3>1. i \in 2..Len(queue[s0])
      BY <1>1, <2>1, <2>2, <2>3
    <3>2. i - 1 \in 1..Len(queue'[s0]) /\ queue'[s0][i - 1] = d
      BY <1>8, <2>2, <2>3, <3>1
    <3>3. QED BY <2>3, <3>2
  <2>4. CASE conn[d] # s0
    <3>1. queue'[conn[d]] = queue[conn[d]]
      BY <2>4 DEF TypeOK
    <3>2. QED BY <2>2, <3>1
  <2>5. QED BY <2>3, <2>4
<1>6. ASSUME NEW d \in Callers, pc'[d] = "read"
      PROVE  Holds(d, conn[d])'
  <2>1. d # c /\ pc[d] = "read" /\ Holds(d, conn[d])
    BY <1>1, <1>6 DEF QueueHonest, Client
  <2>2. conn[d] # s0
    BY <1>1, <2>1 DEF Holds
  <2>3. queue'[conn[d]] = queue[conn[d]]
    BY <2>2 DEF TypeOK
  <2>4. QED BY <2>1, <2>3 DEF Holds
<1>7. QED
  BY <1>4, <1>5, <1>6 DEF QueueHonest, Client

-----------------------------------------------------------------------------
(* A step of c moves no other call, and what the others read stays, unless *)
(* their session is gone.                                                  *)

Others(c) == \A d \in Callers \ {c} :
  /\ pc'[d] = pc[d] /\ req'[d] = req[d] /\ conn'[d] = conn[d]
  /\ todo'[d] = todo[d] /\ rows'[d] = rows[d] /\ more'[d] = more[d]

LEMMA ReadersKept ==
  ASSUME TypeOK, HandleHeld, Readers, NEW c \in Callers, Others(c),
         \A d \in Callers \ {c} : pc[d] = "read" =>
           answer'[conn[d]] = answer[conn[d]] \/ answer'[conn[d]] = <<>>,
         pc'[c] = "read" => FitsNow(c)'
  PROVE  Readers'
<1> SUFFICES ASSUME NEW d \in Callers, pc'[d] = "read"
             PROVE  FitsNow(d)'
  BY DEF Readers
<1>1. CASE d = c
  BY <1>1
<1>2. CASE d # c
  <2>1. /\ pc[d] = "read" /\ req'[d] = req[d] /\ conn'[d] = conn[d] /\ todo'[d] = todo[d]
        /\ rows'[d] = rows[d] /\ more'[d] = more[d]
    BY <1>2 DEF Others
  <2>2. FitsNow(d)
    BY <2>1 DEF Readers
  <2>3. CASE answer'[conn[d]] = answer[conn[d]]
    BY <2>1, <2>2, <2>3 DEF FitsNow
  <2>4. CASE answer'[conn[d]] = <<>>
    <3>1. /\ answer[conn[d]] \in Seq(Tokens) /\ rows[d] \in Seq(Tokens) /\ more[d] \in BOOLEAN
      BY <2>1 DEF TypeOK, HandleHeld
    <3>2. Fits(<<>>, req[d].op, Head(todo[d]), rows[d], more[d])
      BY <2>2, <3>1 DEF FitsNow, Fits
    <3>3. QED BY <2>1, <2>4, <3>2 DEF FitsNow
  <2>5. QED BY <1>2, <2>1, <2>3, <2>4
<1>3. QED BY <1>1, <1>2

(* Two calls at the client of one session are the same call.               *)
LEMMA OneHolder ==
  ASSUME QueueHonest, NEW c \in Callers, Holds(c, conn[c]),
         NEW d \in Callers \ {c}, pc[d] = "read"
  PROVE  conn[d] # conn[c]
BY DEF QueueHonest, Holds

Strong == TypeOK /\ HandleHeld /\ QueueHonest /\ Readers

LEMMA StrongEquiv == Strong <=> IInv
BY ReadersEquiv DEF Strong, IInv

LEMMA DropHandleType ==
  ASSUME TypeOK, NEW s \in Sessions, DropHandle(s)
  PROVE  /\ strong' \in [Sessions -> Int]
         /\ link' \in [Sessions -> {"free", "open", "lost"}]
         /\ answer' \in [Sessions -> Seq(Tokens)]
BY DEF TypeOK, DropHandle

-----------------------------------------------------------------------------
(* One lemma per action: it keeps the strengthened invariant.              *)

LEMMA BadRequestKeeps ==
  ASSUME Strong, NEW c \in Callers, BadRequest(c)
  PROVE  Strong'
<1> USE ConnectorAssumption DEF Strong, BadRequest, vars, sessionVars, replyVars, Goto
<1>1. TypeOK'
  BY DEF TypeOK, HandleHeld, Phases, Outcomes
<1>2. HandleHeld'
  BY DEF TypeOK, HandleHeld, Phases
<1>3. QueueHonest'
  <2>1. \A d \in Callers : /\ pc'[d] \in Client <=> pc[d] \in Client
                           /\ pc[d] \in Client => conn'[d] = conn[d]
                           /\ pc'[d] = "read" => Holds(d, conn[d])
    BY DEF TypeOK, HandleHeld, QueueHonest, Client, Phases
  <2>2. QED BY <2>1, QueueSame
<1>4. Others(c)
  BY DEF TypeOK, Others
<1>5. Readers'
  <2>1. \A d \in Callers \ {c} : pc[d] = "read" => answer'[conn[d]] = answer[conn[d]]
    OBVIOUS
  <2>2. pc'[c] # "read"
    BY DEF TypeOK
  <2>3. QED BY <1>4, <2>1, <2>2, ReadersKept
<1>6. QED
  BY <1>1, <1>2, <1>3, <1>5

LEMMA DialFailsKeeps ==
  ASSUME Strong, NEW c \in Callers, DialFails(c)
  PROVE  Strong'
<1> USE ConnectorAssumption DEF Strong, DialFails, vars, sessionVars, replyVars, Goto
<1>1. TypeOK'
  BY DEF TypeOK, HandleHeld, Phases, Outcomes
<1>2. HandleHeld'
  BY DEF TypeOK, HandleHeld, Phases
<1>3. QueueHonest'
  <2>1. \A d \in Callers : /\ pc'[d] \in Client <=> pc[d] \in Client
                           /\ pc[d] \in Client => conn'[d] = conn[d]
                           /\ pc'[d] = "read" => Holds(d, conn[d])
    BY DEF TypeOK, HandleHeld, QueueHonest, Client, Phases
  <2>2. QED BY <2>1, QueueSame
<1>4. Others(c)
  BY DEF TypeOK, Others
<1>5. Readers'
  <2>1. \A d \in Callers \ {c} : pc[d] = "read" => answer'[conn[d]] = answer[conn[d]]
    OBVIOUS
  <2>2. pc'[c] # "read"
    BY DEF TypeOK
  <2>3. QED BY <1>4, <2>1, <2>2, ReadersKept
<1>6. QED
  BY <1>1, <1>2, <1>3, <1>5

LEMMA EnqueueKeeps ==
  ASSUME Strong, NEW c \in Callers, Enqueue(c)
  PROVE  Strong'
<1> USE ConnectorAssumption DEF Strong, Enqueue, vars, sessionVars, replyVars, Goto
<1>1. TypeOK'
  BY DEF TypeOK, HandleHeld, Phases, Outcomes
<1>2. HandleHeld'
  BY DEF TypeOK, HandleHeld, Phases
<1>3. QueueHonest'
  <2>1. conn[c] \in Sessions
    BY DEF TypeOK, HandleHeld
  <2>2. QED BY <2>1, QueueJoined
<1>4. Others(c)
  BY DEF TypeOK, Others
<1>5. Readers'
  <2>1. \A d \in Callers \ {c} : pc[d] = "read" => answer'[conn[d]] = answer[conn[d]]
    OBVIOUS
  <2>2. pc'[c] # "read"
    BY DEF TypeOK
  <2>3. QED BY <1>4, <2>1, <2>2, ReadersKept
<1>6. QED
  BY <1>1, <1>2, <1>3, <1>5

LEMMA AskFailsKeeps ==
  ASSUME Strong, NEW c \in Callers, AskFails(c)
  PROVE  Strong'
<1> USE ConnectorAssumption DEF Strong, AskFails, vars, sessionVars, replyVars, Goto, Fail
<1>1. TypeOK'
  <2>1. /\ conn[c] \in Sessions /\ queue[conn[c]] \in Seq(Callers)
        /\ queue[conn[c]] # <<>> /\ answer[conn[c]] \in Seq(Tokens)
    BY DEF TypeOK, HandleHeld, QueueHonest, Holds
  <2>2. /\ Tail(queue[conn[c]]) \in Seq(Callers)
        /\ answer[conn[c]] # <<>> => Tail(answer[conn[c]]) \in Seq(Tokens)
    BY <2>1, TailIndex
  <2>3. queue' \in [Sessions -> Seq(Callers)] /\ answer' \in [Sessions -> Seq(Tokens)]
    BY <2>1, <2>2 DEF TypeOK
  <2>4. QED BY <2>3 DEF TypeOK, Phases, Outcomes
<1>2. HandleHeld'
  BY DEF TypeOK, HandleHeld, Phases
<1>3. QueueHonest'
  <2>1. conn[c] \in Sessions /\ Holds(c, conn[c]) /\ pc[c] \in Client
    BY DEF TypeOK, HandleHeld, QueueHonest, Client
  <2>2. QED BY <2>1, QueueLeft DEF Client
<1>4. Others(c)
  BY DEF TypeOK, Others
<1>5. Readers'
  <2>1. \A d \in Callers \ {c} : pc[d] = "read" => answer'[conn[d]] = answer[conn[d]]
    OBVIOUS
  <2>2. pc'[c] # "read"
    BY DEF TypeOK
  <2>3. QED BY <1>4, <2>1, <2>2, ReadersKept
<1>6. QED
  BY <1>1, <1>2, <1>3, <1>5

LEMMA ReadErrorKeeps ==
  ASSUME Strong, NEW c \in Callers, ReadError(c)
  PROVE  Strong'
<1> USE ConnectorAssumption DEF Strong, ReadError, vars, sessionVars, replyVars, Goto, Fail, Receive
<1>1. TypeOK'
  <2>1. /\ conn[c] \in Sessions /\ queue[conn[c]] \in Seq(Callers)
        /\ queue[conn[c]] # <<>> /\ answer[conn[c]] \in Seq(Tokens)
    BY DEF TypeOK, HandleHeld, QueueHonest, Holds
  <2>2. /\ Tail(queue[conn[c]]) \in Seq(Callers)
        /\ answer[conn[c]] # <<>> => Tail(answer[conn[c]]) \in Seq(Tokens)
    BY <2>1, TailIndex
  <2>3. queue' \in [Sessions -> Seq(Callers)] /\ answer' \in [Sessions -> Seq(Tokens)]
    BY <2>1, <2>2 DEF TypeOK
  <2>4. QED BY <2>3 DEF TypeOK, Phases, Outcomes
<1>2. HandleHeld'
  BY DEF TypeOK, HandleHeld, Phases
<1>3. QueueHonest'
  <2>1. conn[c] \in Sessions /\ Holds(c, conn[c]) /\ pc[c] \in Client
    BY DEF TypeOK, HandleHeld, QueueHonest, Client
  <2>2. QED BY <2>1, QueueLeft DEF Client
<1>4. Others(c)
  BY DEF TypeOK, Others
<1>5. Readers'
  <2>1. \A d \in Callers \ {c} : pc[d] = "read" => answer'[conn[d]] = answer[conn[d]]
    <3>1. Holds(c, conn[c])
      BY DEF QueueHonest
    <3>2. \A d \in Callers \ {c} : pc[d] = "read" => conn[d] # conn[c]
      BY <3>1, OneHolder
    <3>3. QED BY <3>2 DEF TypeOK, HandleHeld
  <2>2. pc'[c] # "read"
    BY DEF TypeOK
  <2>3. QED BY <1>4, <2>1, <2>2, ReadersKept
<1>6. QED
  BY <1>1, <1>2, <1>3, <1>5

LEMMA ReadLostKeeps ==
  ASSUME Strong, NEW c \in Callers, ReadLost(c)
  PROVE  Strong'
<1> USE ConnectorAssumption DEF Strong, ReadLost, vars, sessionVars, replyVars, Goto, Fail
<1>1. TypeOK'
  <2>1. /\ conn[c] \in Sessions /\ queue[conn[c]] \in Seq(Callers)
        /\ queue[conn[c]] # <<>> /\ answer[conn[c]] \in Seq(Tokens)
    BY DEF TypeOK, HandleHeld, QueueHonest, Holds
  <2>2. /\ Tail(queue[conn[c]]) \in Seq(Callers)
        /\ answer[conn[c]] # <<>> => Tail(answer[conn[c]]) \in Seq(Tokens)
    BY <2>1, TailIndex
  <2>3. queue' \in [Sessions -> Seq(Callers)] /\ answer' \in [Sessions -> Seq(Tokens)]
    BY <2>1, <2>2 DEF TypeOK
  <2>4. QED BY <2>3 DEF TypeOK, Phases, Outcomes
<1>2. HandleHeld'
  BY DEF TypeOK, HandleHeld, Phases
<1>3. QueueHonest'
  <2>1. conn[c] \in Sessions /\ Holds(c, conn[c]) /\ pc[c] \in Client
    BY DEF TypeOK, HandleHeld, QueueHonest, Client
  <2>2. QED BY <2>1, QueueLeft DEF Client
<1>4. Others(c)
  BY DEF TypeOK, Others
<1>5. Readers'
  <2>1. \A d \in Callers \ {c} : pc[d] = "read" => answer'[conn[d]] = answer[conn[d]]
    OBVIOUS
  <2>2. pc'[c] # "read"
    BY DEF TypeOK
  <2>3. QED BY <1>4, <2>1, <2>2, ReadersKept
<1>6. QED
  BY <1>1, <1>2, <1>3, <1>5

LEMMA NoVersionKeeps ==
  ASSUME Strong, NEW c \in Callers, NoVersion(c)
  PROVE  Strong'
<1> USE ConnectorAssumption DEF Strong, NoVersion, vars, sessionVars, replyVars, Goto, Fail, Receive
<1>1. TypeOK'
  <2>1. /\ conn[c] \in Sessions /\ queue[conn[c]] \in Seq(Callers)
        /\ queue[conn[c]] # <<>> /\ answer[conn[c]] \in Seq(Tokens)
    BY DEF TypeOK, HandleHeld, QueueHonest, Holds
  <2>2. /\ Tail(queue[conn[c]]) \in Seq(Callers)
        /\ answer[conn[c]] # <<>> => Tail(answer[conn[c]]) \in Seq(Tokens)
    BY <2>1, TailIndex
  <2>3. queue' \in [Sessions -> Seq(Callers)] /\ answer' \in [Sessions -> Seq(Tokens)]
    BY <2>1, <2>2 DEF TypeOK
  <2>4. pc' \in [Callers -> Phases] /\ outcome' \in [Callers -> Outcomes]
    BY DEF TypeOK, Phases, Outcomes
  <2>5. todo' \in [Callers -> Seq(Statements)]
    BY DEF TypeOK
  <2>6. rows' \in [Callers -> Seq(Tokens)]
    <3>1. rows' = rows \/ rows' = [rows EXCEPT ![c] = <<>>]
      OBVIOUS
    <3>2. rows \in [Callers -> Seq(Tokens)] /\ <<>> \in Seq(Tokens)
      BY DEF TypeOK
    <3>3. CASE rows' = rows
      BY <3>2, <3>3
    <3>4. CASE rows' = [rows EXCEPT ![c] = <<>>]
      BY <3>2, <3>4
    <3>5. QED BY <3>1, <3>3, <3>4
  <2>7. more' \in [Callers -> BOOLEAN]
    BY DEF TypeOK
  <2>8. QED BY <2>3, <2>4, <2>5, <2>6, <2>7 DEF TypeOK
<1>2. HandleHeld'
  BY DEF TypeOK, HandleHeld, Phases
<1>3. QueueHonest'
  <2>1. conn[c] \in Sessions /\ Holds(c, conn[c]) /\ pc[c] \in Client
    BY DEF TypeOK, HandleHeld, QueueHonest, Client
  <2>2. QED BY <2>1, QueueLeft DEF Client
<1>4. Others(c)
  BY DEF TypeOK, Others
<1>5. Readers'
  <2>1. \A d \in Callers \ {c} : pc[d] = "read" => answer'[conn[d]] = answer[conn[d]]
    <3>1. Holds(c, conn[c])
      BY DEF QueueHonest
    <3>2. \A d \in Callers \ {c} : pc[d] = "read" => conn[d] # conn[c]
      BY <3>1, OneHolder
    <3>3. QED BY <3>2 DEF TypeOK, HandleHeld
  <2>2. pc'[c] # "read"
    BY DEF TypeOK
  <2>3. QED BY <1>4, <2>1, <2>2, ReadersKept
<1>6. QED
  BY <1>1, <1>2, <1>3, <1>5

LEMMA NextStatementKeeps ==
  ASSUME Strong, NEW c \in Callers, NextStatement(c)
  PROVE  Strong'
<1> USE ConnectorAssumption DEF Strong, NextStatement, vars, sessionVars, replyVars, Goto, Receive
<1>1. TypeOK'
  BY DEF TypeOK, HandleHeld, Phases, Outcomes
<1>2. HandleHeld'
  <2>1. todo[c] \in Seq(Statements) /\ todo[c] # <<>> /\ todo'[c] = Tail(todo[c])
    BY DEF TypeOK, HandleHeld
  <2>2. Len(todo[c]) > 1
    OBVIOUS
  <2>3. todo'[c] # <<>>
    BY <2>1, <2>2, LongTail
  <2>4. QED BY <2>3 DEF TypeOK, HandleHeld, Phases
<1>3. QueueHonest'
  <2>1. \A d \in Callers : /\ pc'[d] \in Client <=> pc[d] \in Client
                           /\ pc[d] \in Client => conn'[d] = conn[d]
                           /\ pc'[d] = "read" => Holds(d, conn[d])
    BY DEF TypeOK, HandleHeld, QueueHonest, Client, Phases
  <2>2. QED BY <2>1, QueueSame
<1>4. Others(c)
  BY DEF TypeOK, Others
<1>5. Readers'
  <2>1. \A d \in Callers \ {c} : pc[d] = "read" => answer'[conn[d]] = answer[conn[d]]
    <3>1. Holds(c, conn[c])
      BY DEF QueueHonest
    <3>2. \A d \in Callers \ {c} : pc[d] = "read" => conn[d] # conn[c]
      BY <3>1, OneHolder
    <3>3. QED BY <3>2 DEF TypeOK, HandleHeld
  <2>2. pc'[c] # "read"
    BY DEF TypeOK
  <2>3. QED BY <1>4, <2>1, <2>2, ReadersKept
<1>6. QED
  BY <1>1, <1>2, <1>3, <1>5

LEMMA CompleteKeeps ==
  ASSUME Strong, NEW c \in Callers, Complete(c)
  PROVE  Strong'
<1> USE ConnectorAssumption DEF Strong, Complete, vars, sessionVars, replyVars, Goto, Receive
<1>1. TypeOK'
  <2>1. /\ conn[c] \in Sessions /\ queue[conn[c]] \in Seq(Callers)
        /\ queue[conn[c]] # <<>> /\ answer[conn[c]] \in Seq(Tokens)
    BY DEF TypeOK, HandleHeld, QueueHonest, Holds
  <2>2. /\ Tail(queue[conn[c]]) \in Seq(Callers)
        /\ answer[conn[c]] # <<>> => Tail(answer[conn[c]]) \in Seq(Tokens)
    BY <2>1, TailIndex
  <2>3. queue' \in [Sessions -> Seq(Callers)] /\ answer' \in [Sessions -> Seq(Tokens)]
    BY <2>1, <2>2 DEF TypeOK
  <2>4. pc' \in [Callers -> Phases] /\ outcome' \in [Callers -> Outcomes]
    BY DEF TypeOK, Phases, Outcomes
  <2>5. todo' \in [Callers -> Seq(Statements)]
    BY DEF TypeOK
  <2>6. rows' \in [Callers -> Seq(Tokens)]
    <3>1. rows' = rows \/ rows' = [rows EXCEPT ![c] = <<>>]
      OBVIOUS
    <3>2. rows \in [Callers -> Seq(Tokens)] /\ <<>> \in Seq(Tokens)
      BY DEF TypeOK
    <3>3. CASE rows' = rows
      BY <3>2, <3>3
    <3>4. CASE rows' = [rows EXCEPT ![c] = <<>>]
      BY <3>2, <3>4
    <3>5. QED BY <3>1, <3>3, <3>4
  <2>7. more' \in [Callers -> BOOLEAN]
    BY DEF TypeOK
  <2>8. QED BY <2>3, <2>4, <2>5, <2>6, <2>7 DEF TypeOK
<1>2. HandleHeld'
  <2>1. /\ conn[c] # None /\ pc'[c] \in {"register", "release"} /\ req[c].id \in Ids
        /\ \A d \in Callers \ {c} : pc'[d] = pc[d] /\ todo'[d] = todo[d]
    BY DEF TypeOK, HandleHeld
  <2>2. QED BY <2>1 DEF TypeOK, HandleHeld
<1>3. QueueHonest'
  <2>1. conn[c] \in Sessions /\ Holds(c, conn[c]) /\ pc[c] \in Client
    BY DEF TypeOK, HandleHeld, QueueHonest, Client
  <2>2. QED BY <2>1, QueueLeft DEF Client
<1>4. Others(c)
  BY DEF TypeOK, Others
<1>5. Readers'
  <2>1. \A d \in Callers \ {c} : pc[d] = "read" => answer'[conn[d]] = answer[conn[d]]
    <3>1. Holds(c, conn[c])
      BY DEF QueueHonest
    <3>2. \A d \in Callers \ {c} : pc[d] = "read" => conn[d] # conn[c]
      BY <3>1, OneHolder
    <3>3. QED BY <3>2 DEF TypeOK, HandleHeld
  <2>2. pc'[c] # "read"
    BY DEF TypeOK
  <2>3. QED BY <1>4, <2>1, <2>2, ReadersKept
<1>6. QED
  BY <1>1, <1>2, <1>3, <1>5

LEMMA LockRegistryKeeps ==
  ASSUME Strong, NEW c \in Callers, LockRegistry(c)
  PROVE  Strong'
<1> USE ConnectorAssumption DEF Strong, LockRegistry, vars, sessionVars, replyVars, Goto
<1>1. TypeOK'
  BY DEF TypeOK, HandleHeld, Phases, Outcomes
<1>2. HandleHeld'
  BY DEF TypeOK, HandleHeld, Phases
<1>3. QueueHonest'
  <2>1. \A d \in Callers : /\ pc'[d] \in Client <=> pc[d] \in Client
                           /\ pc[d] \in Client => conn'[d] = conn[d]
                           /\ pc'[d] = "read" => Holds(d, conn[d])
    BY DEF TypeOK, HandleHeld, QueueHonest, Client, Phases
  <2>2. QED BY <2>1, QueueSame
<1>4. Others(c)
  BY DEF TypeOK, Others
<1>5. Readers'
  <2>1. \A d \in Callers \ {c} : pc[d] = "read" => answer'[conn[d]] = answer[conn[d]]
    OBVIOUS
  <2>2. pc'[c] # "read"
    BY DEF TypeOK
  <2>3. QED BY <1>4, <2>1, <2>2, ReadersKept
<1>6. QED
  BY <1>1, <1>2, <1>3, <1>5

LEMMA LookupKeeps ==
  ASSUME Strong, NEW c \in Callers, Lookup(c)
  PROVE  Strong'
<1> USE ConnectorAssumption DEF Strong, Lookup, vars, sessionVars, replyVars, Goto, InRegistry
<1>1. TypeOK'
  <2> DEFINE s == registry[req[c].id]
  <2>1. req[c].id \in Ids /\ s \in Sessions \cup {None}
    BY DEF TypeOK, HandleHeld
  <2>2. CASE s = None
    <3>1. /\ pc' = [pc EXCEPT ![c] = "reply"] /\ outcome' = [outcome EXCEPT ![c] = "notFound"]
          /\ todo' = [todo EXCEPT ![c] = <<>>] /\ UNCHANGED <<strong, conn>>
      BY <2>2
    <3>2. pc' \in [Callers -> Phases] /\ outcome' \in [Callers -> Outcomes]
      BY <3>1 DEF TypeOK, Phases, Outcomes
    <3>3. todo' \in [Callers -> Seq(Statements)]
      BY <3>1 DEF TypeOK
    <3>4. QED BY <3>1, <3>2, <3>3 DEF TypeOK
  <2>3. CASE s # None
    <3>1. /\ pc' = [pc EXCEPT ![c] = "lock"] /\ conn' = [conn EXCEPT ![c] = s]
          /\ strong' = [strong EXCEPT ![s] = @ + 1] /\ UNCHANGED <<outcome, todo>>
      BY <2>3
    <3>2. pc' \in [Callers -> Phases] /\ conn' \in [Callers -> Sessions \cup {None}]
      BY <2>1, <3>1 DEF TypeOK, Phases
    <3>3. strong' \in [Sessions -> Int]
      BY <2>1, <2>3, <3>1 DEF TypeOK
    <3>4. QED BY <3>1, <3>2, <3>3 DEF TypeOK
  <2>4. QED BY <2>2, <2>3
<1>2. HandleHeld'
  BY DEF TypeOK, HandleHeld, Phases
<1>3. QueueHonest'
  <2>1. \A d \in Callers : /\ pc'[d] \in Client <=> pc[d] \in Client
                           /\ pc[d] \in Client => conn'[d] = conn[d]
                           /\ pc'[d] = "read" => Holds(d, conn[d])
    BY DEF TypeOK, HandleHeld, QueueHonest, Client, Phases
  <2>2. QED BY <2>1, QueueSame
<1>4. Others(c)
  BY DEF TypeOK, Others
<1>5. Readers'
  <2>1. \A d \in Callers \ {c} : pc[d] = "read" => answer'[conn[d]] = answer[conn[d]]
    OBVIOUS
  <2>2. pc'[c] # "read"
    BY DEF TypeOK
  <2>3. QED BY <1>4, <2>1, <2>2, ReadersKept
<1>6. QED
  BY <1>1, <1>2, <1>3, <1>5

LEMMA RegisterKeeps ==
  ASSUME Strong, NEW c \in Callers, Register(c)
  PROVE  Strong'
<1> USE ConnectorAssumption DEF Strong, Register, vars, sessionVars, replyVars, Goto, InRegistry, DropHandle
<1>1. TypeOK'
  <2> DEFINE old == registry[req[c].id]
  <2>1. req[c].id \in Ids /\ old \in Sessions \cup {None}
    BY DEF TypeOK, HandleHeld
  <2>2. /\ strong' \in [Sessions -> Int] /\ link' \in [Sessions -> {"free", "open", "lost"}]
        /\ answer' \in [Sessions -> Seq(Tokens)]
    <3>1. CASE old = None
      BY <3>1 DEF TypeOK
    <3>2. CASE old # None
      BY <2>1, <3>2, DropHandleType DEF DropHandle
    <3>3. QED BY <3>1, <3>2
  <2>3. pc' \in [Callers -> Phases] /\ outcome' \in [Callers -> Outcomes]
    BY DEF TypeOK, Phases, Outcomes
  <2>4. registry' \in [Ids -> Sessions \cup {None}] /\ conn' \in [Callers -> Sessions \cup {None}]
    BY <2>1 DEF TypeOK, HandleHeld
  <2>5. QED BY <2>2, <2>3, <2>4 DEF TypeOK
<1>2. HandleHeld'
  BY DEF TypeOK, HandleHeld, Phases
<1>3. QueueHonest'
  <2>1. \A d \in Callers : /\ pc'[d] \in Client <=> pc[d] \in Client
                           /\ pc[d] \in Client => conn'[d] = conn[d]
                           /\ pc'[d] = "read" => Holds(d, conn[d])
    BY DEF TypeOK, HandleHeld, QueueHonest, Client, Phases
  <2>2. QED BY <2>1, QueueSame
<1>4. Others(c)
  BY DEF TypeOK, Others
<1>5. Readers'
  <2>1. \A d \in Callers \ {c} : pc[d] = "read" =>
           answer'[conn[d]] = answer[conn[d]] \/ answer'[conn[d]] = <<>>
    BY DEF TypeOK, HandleHeld
  <2>2. pc'[c] # "read"
    BY DEF TypeOK
  <2>3. QED BY <1>4, <2>1, <2>2, ReadersKept
<1>6. QED
  BY <1>1, <1>2, <1>3, <1>5

LEMMA RemoveKeeps ==
  ASSUME Strong, NEW c \in Callers, Remove(c)
  PROVE  Strong'
<1> USE ConnectorAssumption DEF Strong, Remove, vars, sessionVars, replyVars, Goto, InRegistry, DropHandle
<1>1. TypeOK'
  <2> DEFINE old == registry[req[c].id]
  <2>1. req[c].id \in Ids /\ old \in Sessions \cup {None}
    BY DEF TypeOK, HandleHeld
  <2>2. /\ strong' \in [Sessions -> Int] /\ link' \in [Sessions -> {"free", "open", "lost"}]
        /\ answer' \in [Sessions -> Seq(Tokens)]
    <3>1. CASE old = None
      BY <3>1 DEF TypeOK
    <3>2. CASE old # None
      BY <2>1, <3>2, DropHandleType DEF DropHandle
    <3>3. QED BY <3>1, <3>2
  <2>3. pc' \in [Callers -> Phases] /\ outcome' \in [Callers -> Outcomes]
    BY DEF TypeOK, Phases, Outcomes
  <2>4. registry' \in [Ids -> Sessions \cup {None}] /\ conn' \in [Callers -> Sessions \cup {None}]
    BY <2>1 DEF TypeOK, HandleHeld
  <2>5. QED BY <2>2, <2>3, <2>4 DEF TypeOK
<1>2. HandleHeld'
  BY DEF TypeOK, HandleHeld, Phases
<1>3. QueueHonest'
  <2>1. \A d \in Callers : /\ pc'[d] \in Client <=> pc[d] \in Client
                           /\ pc[d] \in Client => conn'[d] = conn[d]
                           /\ pc'[d] = "read" => Holds(d, conn[d])
    BY DEF TypeOK, HandleHeld, QueueHonest, Client, Phases
  <2>2. QED BY <2>1, QueueSame
<1>4. Others(c)
  BY DEF TypeOK, Others
<1>5. Readers'
  <2>1. \A d \in Callers \ {c} : pc[d] = "read" =>
           answer'[conn[d]] = answer[conn[d]] \/ answer'[conn[d]] = <<>>
    BY DEF TypeOK, HandleHeld
  <2>2. pc'[c] # "read"
    BY DEF TypeOK
  <2>3. QED BY <1>4, <2>1, <2>2, ReadersKept
<1>6. QED
  BY <1>1, <1>2, <1>3, <1>5

LEMMA ReleaseKeeps ==
  ASSUME Strong, NEW c \in Callers, Release(c)
  PROVE  Strong'
<1> USE ConnectorAssumption DEF Strong, Release, vars, sessionVars, replyVars, Goto, DropHandle
<1>1. TypeOK'
  BY DEF TypeOK, HandleHeld, Phases, Outcomes
<1>2. HandleHeld'
  BY DEF TypeOK, HandleHeld, Phases
<1>3. QueueHonest'
  <2>1. \A d \in Callers : /\ pc'[d] \in Client <=> pc[d] \in Client
                           /\ pc[d] \in Client => conn'[d] = conn[d]
                           /\ pc'[d] = "read" => Holds(d, conn[d])
    BY DEF TypeOK, HandleHeld, QueueHonest, Client, Phases
  <2>2. QED BY <2>1, QueueSame
<1>4. Others(c)
  BY DEF TypeOK, Others
<1>5. Readers'
  <2>1. \A d \in Callers \ {c} : pc[d] = "read" =>
           answer'[conn[d]] = answer[conn[d]] \/ answer'[conn[d]] = <<>>
    BY DEF TypeOK, HandleHeld
  <2>2. pc'[c] # "read"
    BY DEF TypeOK
  <2>3. QED BY <1>4, <2>1, <2>2, ReadersKept
<1>6. QED
  BY <1>1, <1>2, <1>3, <1>5

LEMMA ReturnKeeps ==
  ASSUME Strong, NEW c \in Callers, Return(c)
  PROVE  Strong'
<1> USE ConnectorAssumption DEF Strong, Return, vars, sessionVars, replyVars, Goto, NoRequest
<1>1. TypeOK'
  <2>1. [op |-> "none", id |-> None] \in [op : Methods, id : Ids \cup {None}]
    BY DEF Methods
  <2>2. req' \in [Callers -> [op : Methods, id : Ids \cup {None}]]
    BY <2>1 DEF TypeOK
  <2>3. QED BY <2>2 DEF TypeOK, Phases, Outcomes
<1>2. HandleHeld'
  BY DEF TypeOK, HandleHeld, Phases
<1>3. QueueHonest'
  <2>1. \A d \in Callers : /\ pc'[d] \in Client <=> pc[d] \in Client
                           /\ pc[d] \in Client => conn'[d] = conn[d]
                           /\ pc'[d] = "read" => Holds(d, conn[d])
    BY DEF TypeOK, HandleHeld, QueueHonest, Client, Phases
  <2>2. QED BY <2>1, QueueSame
<1>4. Others(c)
  BY DEF TypeOK, Others
<1>5. Readers'
  <2>1. \A d \in Callers \ {c} : pc[d] = "read" => answer'[conn[d]] = answer[conn[d]]
    OBVIOUS
  <2>2. pc'[c] # "read"
    BY DEF TypeOK
  <2>3. QED BY <1>4, <2>1, <2>2, ReadersKept
<1>6. QED
  BY <1>1, <1>2, <1>3, <1>5

LEMMA BeginKeeps ==
  ASSUME Strong, NEW c \in Callers, NEW op \in Methods, NEW i \in Ids,
         NEW statements \in Seq(Statements), NEW phase \in {"dial", "lookup", "remove"},
         phase \in {"dial", "lookup"} => statements # <<>>,
         Begin(c, op, i, statements, phase)
  PROVE  Strong'
<1> USE ConnectorAssumption DEF Strong, Begin, vars, sessionVars, replyVars, Goto
<1>1. TypeOK'
  <2>1. req' \in [Callers -> [op : Methods, id : Ids \cup {None}]]
    BY DEF TypeOK
  <2>2. pc' \in [Callers -> Phases] /\ todo' \in [Callers -> Seq(Statements)]
    BY DEF TypeOK, Phases
  <2>3. QED BY <2>1, <2>2 DEF TypeOK
<1>2. HandleHeld'
  BY DEF TypeOK, HandleHeld, Phases
<1>3. QueueHonest'
  <2>1. \A d \in Callers : /\ pc'[d] \in Client <=> pc[d] \in Client
                           /\ pc[d] \in Client => conn'[d] = conn[d]
                           /\ pc'[d] = "read" => Holds(d, conn[d])
    BY DEF TypeOK, HandleHeld, QueueHonest, Client, Phases
  <2>2. QED BY <2>1, QueueSame
<1>4. Others(c)
  BY DEF TypeOK, Others
<1>5. Readers'
  <2>1. \A d \in Callers \ {c} : pc[d] = "read" => answer'[conn[d]] = answer[conn[d]]
    OBVIOUS
  <2>2. pc'[c] # "read"
    BY DEF TypeOK
  <2>3. QED BY <1>4, <2>1, <2>2, ReadersKept
<1>6. QED
  BY <1>1, <1>2, <1>3, <1>5

LEMMA ArriveKeeps ==
  ASSUME Strong, NEW c \in Callers, Arrive(c)
  PROVE  Strong'
<1>1. CASE BadRequest(c)
  BY <1>1, BadRequestKeeps
<1>2. ASSUME NEW i \in Ids, CallConnect(c, i)
      PROVE  Strong'
  <2>1. <<Version>> \in Seq(Statements) /\ <<Version>> # <<>> /\ "connect" \in Methods
    BY DEF Statements, Methods
  <2>2. QED BY <1>2, <2>1, BeginKeeps DEF CallConnect
<1>3. ASSUME NEW i \in Ids, CallMetadata(c, i)
      PROVE  Strong'
  <2>1. /\ <<Objects, Columns>> \in Seq(Statements) /\ <<Objects, Columns>> # <<>>
        /\ "metadata" \in Methods
    BY DEF Statements, Methods
  <2>2. QED BY <1>3, <2>1, BeginKeeps DEF CallMetadata
<1>4. ASSUME NEW i \in Ids, CallClose(c, i)
      PROVE  Strong'
  <2>1. <<>> \in Seq(Statements) /\ "close" \in Methods
    BY DEF Methods
  <2>2. QED BY <1>4, <2>1, BeginKeeps DEF CallClose
<1>5. ASSUME NEW i \in Ids, NEW q \in Sql, CallQuery(c, i, q)
      PROVE  Strong'
  <2>1. <<q>> \in Seq(Statements) /\ <<q>> # <<>> /\ "query" \in Methods
    BY DEF Statements, Methods
  <2>2. QED BY <1>5, <2>1, BeginKeeps DEF CallQuery
<1>6. QED
  BY <1>1, <1>2, <1>3, <1>4, <1>5 DEF Arrive

LEMMA DialKeeps ==
  ASSUME Strong, NEW c \in Callers, NEW s \in Sessions, Dial(c, s)
  PROVE  Strong'
<1> USE ConnectorAssumption DEF Strong, Dial, vars, sessionVars, replyVars, Goto
<1>1. TypeOK'
  BY DEF TypeOK, HandleHeld, Phases
<1>2. HandleHeld'
  BY DEF TypeOK, HandleHeld, Phases
<1>3. QueueHonest'
  <2>1. \A d \in Callers : /\ pc'[d] \in Client <=> pc[d] \in Client
                           /\ pc[d] \in Client => conn'[d] = conn[d]
                           /\ pc'[d] = "read" => Holds(d, conn[d])
    BY DEF TypeOK, HandleHeld, QueueHonest, Client, Phases
  <2>2. QED BY <2>1, QueueSame
<1>4. Others(c)
  BY DEF TypeOK, Others
<1>5. Readers'
  <2>1. \A d \in Callers \ {c} : pc[d] = "read" => answer'[conn[d]] = answer[conn[d]]
    OBVIOUS
  <2>2. pc'[c] # "read"
    BY DEF TypeOK
  <2>3. QED BY <1>4, <2>1, <2>2, ReadersKept
<1>6. QED
  BY <1>1, <1>2, <1>3, <1>5

LEMMA AskKeeps ==
  ASSUME Strong, NEW c \in Callers, Ask(c)
  PROVE  Strong'
<1> USE ConnectorAssumption DEF Strong, Ask, vars, sessionVars, replyVars, Goto
<1> DEFINE q == Head(todo[c])
<1>1. conn[c] \in Sessions /\ todo[c] # <<>> /\ todo[c] \in Seq(Statements) /\ q \in Statements
  BY DEF TypeOK, HandleHeld
<1>2. PICK a \in Answers(q) : answer' = [answer EXCEPT ![conn[c]] = a]
  OBVIOUS
<1>3. a \in Seq(Tokens)
  BY <1>1, AnswerShape
<1>4. TypeOK'
  <2>1. answer' \in [Sessions -> Seq(Tokens)]
    BY <1>1, <1>2, <1>3 DEF TypeOK
  <2>2. /\ pc' \in [Callers -> Phases] /\ rows' \in [Callers -> Seq(Tokens)]
        /\ more' \in [Callers -> BOOLEAN]
    BY DEF TypeOK, Phases
  <2>3. QED BY <2>1, <2>2 DEF TypeOK
<1>5. HandleHeld'
  BY DEF TypeOK, HandleHeld, Phases
<1>6. QueueHonest'
  <2>1. \A d \in Callers : /\ pc'[d] \in Client <=> pc[d] \in Client
                           /\ pc[d] \in Client => conn'[d] = conn[d]
                           /\ pc'[d] = "read" => Holds(d, conn[d])
    BY DEF TypeOK, HandleHeld, QueueHonest, Client, Phases
  <2>2. QED BY <2>1, QueueSame
<1>7. Others(c)
  BY DEF TypeOK, Others
<1>8. Readers'
  <2>1. \A d \in Callers \ {c} : pc[d] = "read" => answer'[conn[d]] = answer[conn[d]]
    <3>1. \A d \in Callers \ {c} : pc[d] = "read" => conn[d] # conn[c]
      BY OneHolder
    <3>2. QED BY <1>2, <3>1 DEF TypeOK, HandleHeld
  <2>2. /\ answer'[conn'[c]] = a /\ Head(todo'[c]) = q
        /\ rows'[c] = <<>> /\ more'[c] = FALSE /\ req'[c] = req[c]
    BY <1>1, <1>2 DEF TypeOK
  <2>3. Fits(a, req[c].op, q, <<>>, FALSE)
    BY <1>1, FitsFresh
  <2>4. FitsNow(c)'
    BY <2>2, <2>3 DEF FitsNow
  <2>5. QED BY <1>7, <2>1, <2>4, ReadersKept
<1>9. QED
  BY <1>4, <1>5, <1>6, <1>8

LEMMA ReadRowKeeps ==
  ASSUME Strong, NEW c \in Callers, ReadRow(c)
  PROVE  Strong'
<1> USE ConnectorAssumption DEF Strong, ReadRow, Receive, vars, sessionVars, replyVars
<1> DEFINE ans == answer[conn[c]]
<1>1. /\ conn[c] \in Sessions /\ ans \in Seq(Tokens) /\ ans # <<>>
      /\ rows[c] \in Seq(Tokens) /\ more[c] \in BOOLEAN /\ pc[c] = "read"
  BY DEF TypeOK, HandleHeld
<1>2. Tail(ans) \in Seq(Tokens) /\ Head(ans) \in Tokens
  <2> HIDE DEF ans
  <2> QED BY <1>1, TailIndex
<1>3. TypeOK'
  <2>1. answer' \in [Sessions -> Seq(Tokens)]
    BY <1>1, <1>2 DEF TypeOK
  <2>2. rows' \in [Callers -> Seq(Tokens)] /\ more' \in [Callers -> BOOLEAN]
    <3>1. Append(rows[c], Head(ans)) \in Seq(Tokens)
      BY <1>1, <1>2
    <3>2. CASE Keeps(c)
      <4>1. rows' = [rows EXCEPT ![c] = Append(rows[c], Head(ans))] /\ more' = more
        BY <3>2
      <4>2. rows \in [Callers -> Seq(Tokens)] /\ more \in [Callers -> BOOLEAN]
        BY DEF TypeOK
      <4> HIDE DEF ans
      <4>3. QED BY <3>1, <4>1, <4>2
    <3>3. CASE ~Keeps(c)
      BY <3>3 DEF TypeOK
    <3>4. QED BY <3>2, <3>3
  <2>3. QED BY <2>1, <2>2 DEF TypeOK
<1>4. HandleHeld'
  BY DEF TypeOK, HandleHeld
<1>5. QueueHonest'
  <2>1. \A d \in Callers : /\ pc'[d] \in Client <=> pc[d] \in Client
                           /\ pc[d] \in Client => conn'[d] = conn[d]
                           /\ pc'[d] = "read" => Holds(d, conn[d])
    BY DEF QueueHonest
  <2>2. QED BY <2>1, QueueSame
<1>6. Others(c)
  BY DEF TypeOK, Others
<1>7. Readers'
  <2>1. \A d \in Callers \ {c} : pc[d] = "read" => answer'[conn[d]] = answer[conn[d]]
    <3>1. Holds(c, conn[c])
      BY <1>1 DEF QueueHonest
    <3>2. \A d \in Callers \ {c} : pc[d] = "read" => conn[d] # conn[c]
      BY <3>1, OneHolder
    <3>3. QED BY <3>2 DEF TypeOK, HandleHeld
  <2>2. answer'[conn'[c]] = Tail(ans) /\ todo'[c] = todo[c] /\ req'[c] = req[c]
    BY <1>1 DEF TypeOK
  <2>3. Fits(ans, req[c].op, Head(todo[c]), rows[c], more[c])
    BY <1>1 DEF Readers, FitsNow
  <2>4. CASE Keeps(c)
    <3>1. rows'[c] = Append(rows[c], Head(ans)) /\ more'[c] = more[c]
      BY <2>4 DEF TypeOK
    <3>2. Fits(Tail(ans), req[c].op, Head(todo[c]), Append(rows[c], Head(ans)), more[c])
      <4>1. Head(ans).kind = "row" /\ (req[c].op = "query" => Len(rows[c]) < Cap)
        BY <2>4 DEF Keeps
      <4> HIDE DEF ans
      <4>2. QED BY <1>1, <2>3, <4>1, FitsKeep
    <3>3. FitsNow(c)'
      BY <2>2, <3>1, <3>2 DEF FitsNow
    <3>4. QED BY <1>6, <2>1, <3>3, ReadersKept
  <2>5. CASE ~Keeps(c)
    <3>1. rows'[c] = rows[c] /\ more'[c] = TRUE
      BY <2>5 DEF TypeOK
    <3>2. Fits(Tail(ans), req[c].op, Head(todo[c]), rows[c], TRUE)
      <4>1. ~(req[c].op = "query" => Len(rows[c]) < Cap)
        BY <2>5 DEF Keeps
      <4> HIDE DEF ans
      <4>2. QED BY <1>1, <2>3, <4>1, FitsCut
    <3>3. FitsNow(c)'
      BY <2>2, <3>1, <3>2 DEF FitsNow
    <3>4. QED BY <1>6, <2>1, <3>3, ReadersKept
  <2>6. QED BY <2>4, <2>5
<1>8. QED
  BY <1>3, <1>4, <1>5, <1>7

LEMMA LinkLossKeeps ==
  ASSUME Strong, NEW s \in Sessions, LinkLoss(s)
  PROVE  Strong'
<1> USE ConnectorAssumption DEF Strong, LinkLoss, vars, sessionVars, replyVars
<1>1. PICK k \in 0..Len(answer[s]) : answer' = [answer EXCEPT ![s] = SubSeq(@, 1, k)]
  OBVIOUS
<1>2. TypeOK'
  <2>1. SubSeq(answer[s], 1, k) \in Seq(Tokens)
    BY DEF TypeOK
  <2>2. QED BY <1>1, <2>1 DEF TypeOK
<1>3. HandleHeld'
  BY DEF HandleHeld
<1>4. QueueHonest'
  BY QueueSame DEF QueueHonest, Client
<1>5. Readers'
  <2> SUFFICES ASSUME NEW d \in Callers, pc[d] = "read"
               PROVE  FitsNow(d)'
    BY DEF Readers
  <2>1. /\ conn[d] \in Sessions /\ answer[conn[d]] \in Seq(Tokens) /\ rows[d] \in Seq(Tokens)
        /\ more[d] \in BOOLEAN /\ FitsNow(d)
    BY DEF TypeOK, HandleHeld, Readers
  <2>2. CASE conn[d] # s
    <3>1. answer'[conn[d]] = answer[conn[d]]
      BY <1>1, <2>1, <2>2 DEF TypeOK
    <3>2. QED BY <2>1, <3>1 DEF FitsNow
  <2>3. CASE conn[d] = s
    <3>1. answer'[s] = SubSeq(answer[s], 1, k)
      BY <1>1 DEF TypeOK
    <3>2. Fits(SubSeq(answer[s], 1, k), req[d].op, Head(todo[d]), rows[d], more[d])
      BY <2>1, <2>3, FitsNothingLeft DEF FitsNow
    <3>3. QED BY <2>3, <3>1, <3>2 DEF FitsNow
  <2>4. QED BY <2>2, <2>3
<1>6. QED
  BY <1>2, <1>3, <1>4, <1>5

-----------------------------------------------------------------------------

LEMMA InitStrong == Init => Strong
<1> USE ConnectorAssumption DEF Init
<1>1. Init => TypeOK
  BY DEF TypeOK, Phases, Outcomes, NoRequest, Methods
<1>2. Init => HandleHeld /\ QueueHonest /\ Readers
  BY DEF HandleHeld, QueueHonest, Readers
<1>3. QED BY <1>1, <1>2 DEF Strong

LEMMA NextStrong == Strong /\ [Next]_vars => Strong'
<1> SUFFICES ASSUME Strong, [Next]_vars
             PROVE  Strong'
  OBVIOUS
<1>1. ASSUME NEW c \in Callers, Arrive(c)
      PROVE  Strong'
  BY <1>1, ArriveKeeps
<1>2. ASSUME NEW c \in Callers, Local(c)
      PROVE  Strong'
  BY <1>2, EnqueueKeeps, LookupKeeps, RegisterKeeps, RemoveKeeps, ReleaseKeeps, ReturnKeeps
     DEF Local
<1>3. ASSUME NEW c \in Callers, Talk(c)
      PROVE  Strong'
  BY <1>3, AskKeeps, AskFailsKeeps, ReadRowKeeps, ReadErrorKeeps, ReadLostKeeps,
     NextStatementKeeps, CompleteKeeps, NoVersionKeeps DEF Talk
<1>4. ASSUME NEW c \in Callers, LockRegistry(c) \/ DialFails(c)
      PROVE  Strong'
  BY <1>4, LockRegistryKeeps, DialFailsKeeps
<1>5. ASSUME NEW c \in Callers, NEW s \in Sessions, Dial(c, s)
      PROVE  Strong'
  BY <1>5, DialKeeps
<1>6. ASSUME NEW s \in Sessions, LinkLoss(s)
      PROVE  Strong'
  BY <1>6, LinkLossKeeps
<1>7. CASE UNCHANGED vars
  BY <1>7 DEF Strong, TypeOK, HandleHeld, QueueHonest, Holds, Readers, FitsNow, vars,
     sessionVars, replyVars
<1>8. QED
  BY <1>1, <1>2, <1>3, <1>4, <1>5, <1>6, <1>7 DEF Next

(* The strengthened invariant holds in every reachable state.              *)
THEOREM Invariance == Spec => []IInv
<1>1. Init => IInv
  BY InitStrong, StrongEquiv
<1>2. IInv /\ [Next]_vars => IInv'
  <2>1. IInv => Strong
    BY StrongEquiv
  <2>2. Strong' => IInv'
    <3>1. Readers' <=> (RowsContinue /\ OwnAnswer)'
      BY DEF Readers, FitsNow, Fits, RowsContinue, OwnAnswer, Keeps
    <3>2. QED BY <3>1 DEF Strong, IInv
  <2>3. QED BY <2>1, <2>2, NextStrong
<1>3. QED
  BY <1>1, <1>2, PTL DEF Spec

(* Every state of the connector is well typed.                             *)
THEOREM TypeCorrect == Spec => []TypeOK
<1>1. IInv => TypeOK
  BY DEF IInv
<1>2. QED
  BY <1>1, Invariance, PTL

(* A call reads the answer to its own statement, in order and without a    *)
(* gap, however many calls share its session (the client lock around       *)
(* run_query, load_metadata and load_version).                             *)
THEOREM AnswersAreOwn == Spec => []OwnAnswer
<1>1. IInv => OwnAnswer
  BY DEF IInv
<1>2. QED
  BY <1>1, Invariance, PTL

-----------------------------------------------------------------------------
(* The count of handles: each step moves one handle at a time, and Count   *)
(* changes by one for each place that starts or stops naming a session.    *)

Unit(x, y) == IF x = y THEN 1 ELSE 0

(* Rewriting one place of f changes the count of v by what it gains there. *)
CountMoves(f, v) ==
  /\ Count(f, v) \in Nat
  /\ \A x \in DOMAIN f : f[x] = v => Count(f, v) >= 1
  /\ \A x \in DOMAIN f : \A w :
       Count([f EXCEPT ![x] = w], v) = Count(f, v) + Unit(w, v) - Unit(f[x], v)

LEMMA CountMovesAlways ==
  ASSUME NEW D, IsFiniteSet(D), NEW R, NEW f \in [D -> R], NEW v
  PROVE  CountMoves(f, v)
<1> DEFINE A == {y \in D : f[y] = v}
<1>1. DOMAIN f = D /\ Count(f, v) = Cardinality(A)
  <2>1. DOMAIN f = D
    OBVIOUS
  <2>2. QED BY <2>1 DEF Count
<1>2. IsFiniteSet(A) /\ Cardinality(A) \in Nat
  BY FS_Subset, FS_CardinalityType
<1>3. ASSUME NEW x \in D, f[x] = v
      PROVE  Count(f, v) >= 1
  <2>1. A # {}
    BY <1>3
  <2>2. Cardinality(A) # 0
    BY <1>2, <2>1, FS_EmptySet
  <2>3. QED BY <1>1, <1>2, <2>2
<1>4. ASSUME NEW x \in D, NEW w
      PROVE  Count([f EXCEPT ![x] = w], v) = Count(f, v) + Unit(w, v) - Unit(f[x], v)
  <2> DEFINE g == [f EXCEPT ![x] = w]
             B == {y \in D : g[y] = v}
  <2>1. g[x] = w /\ (\A y \in D \ {x} : g[y] = f[y]) /\ DOMAIN g = D
    BY <1>1
  <2>2. Count(g, v) = Cardinality(B)
    BY <2>1 DEF Count
  <2>3. CASE w = v /\ f[x] # v
    <3>1. B = A \cup {x} /\ x \notin A
      BY <2>1, <2>3
    <3>2. Cardinality(B) = Cardinality(A) + 1
      BY <1>2, <3>1, FS_AddElement
    <3>3. Unit(w, v) = 1 /\ Unit(f[x], v) = 0
      BY <2>3 DEF Unit
    <3> HIDE DEF A, B, g
    <3>4. QED BY <1>1, <1>2, <2>2, <3>2, <3>3 DEF g
  <2>4. CASE w # v /\ f[x] = v
    <3>1. B = A \ {x} /\ x \in A
      BY <2>1, <2>4
    <3>2. Cardinality(B) = Cardinality(A) - 1
      BY <1>2, <3>1, FS_RemoveElement
    <3>3. Unit(w, v) = 0 /\ Unit(f[x], v) = 1
      BY <2>4 DEF Unit
    <3> HIDE DEF A, B, g
    <3>4. QED BY <1>1, <1>2, <2>2, <3>2, <3>3 DEF g
  <2>5. CASE (w = v /\ f[x] = v) \/ (w # v /\ f[x] # v)
    <3>1. B = A
      BY <2>1, <2>5
    <3>2. Unit(w, v) = Unit(f[x], v) /\ Unit(w, v) \in {0, 1}
      BY <2>5 DEF Unit
    <3> HIDE DEF A, B, g
    <3>3. QED BY <1>1, <1>2, <2>2, <3>1, <3>2 DEF g
  <2>6. QED BY <2>3, <2>4, <2>5
<1>5. QED
  BY <1>1, <1>2, <1>3, <1>4, Zenon DEF CountMoves

(* Both uses of it: the registry's entries and the calls' handles.         *)
LEMMA Counts ==
  ASSUME TypeOK, NEW s \in Sessions
  PROVE  /\ Count(registry, s) \in Nat /\ Count(conn, s) \in Nat
         /\ \A i \in Ids : /\ registry[i] = s => Count(registry, s) >= 1
                           /\ \A w : Count([registry EXCEPT ![i] = w], s) =
                                Count(registry, s) + Unit(w, s) - Unit(registry[i], s)
         /\ \A c \in Callers : /\ conn[c] = s => Count(conn, s) >= 1
                               /\ \A w : Count([conn EXCEPT ![c] = w], s) =
                                    Count(conn, s) + Unit(w, s) - Unit(conn[c], s)
<1>1. /\ registry \in [Ids -> Sessions \cup {None}] /\ conn \in [Callers -> Sessions \cup {None}]
      /\ DOMAIN registry = Ids /\ DOMAIN conn = Callers
      /\ IsFiniteSet(Ids) /\ IsFiniteSet(Callers)
  BY ConnectorAssumption DEF TypeOK
<1>2. CountMoves(registry, s) /\ CountMoves(conn, s)
  BY <1>1, CountMovesAlways
<1>3. QED
  BY <1>1, <1>2, Zenon DEF CountMoves

-----------------------------------------------------------------------------

LEMMA DialCounts ==
  ASSUME IInv, HandlesCounted, NEW c \in Callers, NEW d \in Sessions, Dial(c, d)
  PROVE  HandlesCounted'
<1> USE ConnectorAssumption DEF Dial
<1>1. TypeOK /\ conn[c] = None
  BY DEF IInv, HandleHeld
<1>2. SUFFICES ASSUME NEW s \in Sessions
               PROVE  /\ strong'[s] = Count(registry', s) + Count(conn', s)
                      /\ link'[s] = "free" <=> strong'[s] = 0
  BY DEF HandlesCounted
<1>3. /\ Count(registry, s) \in Nat /\ Count(conn, s) \in Nat
      /\ Count(conn', s) = Count(conn, s) + Unit(d, s) - Unit(conn[c], s)
      /\ registry' = registry
  BY <1>1, Counts
<1>4. /\ strong[s] = Count(registry, s) + Count(conn, s)
      /\ link[s] = "free" <=> strong[s] = 0
  BY DEF HandlesCounted
<1>5. CASE s = d
  BY <1>1, <1>3, <1>4, <1>5 DEF Unit, TypeOK
<1>6. CASE s # d
  BY <1>1, <1>3, <1>4, <1>6 DEF Unit, TypeOK
<1>7. QED BY <1>5, <1>6

LEMMA LookupCounts ==
  ASSUME IInv, HandlesCounted, NEW c \in Callers, Lookup(c)
  PROVE  HandlesCounted'
<1> USE ConnectorAssumption
<1> DEFINE old == registry[req[c].id]
<1>1. /\ TypeOK /\ conn[c] = None /\ pc[c] = "lookup" /\ req[c].id \in Ids
      /\ UNCHANGED <<registry, link>>
  BY DEF IInv, HandleHeld, Lookup, InRegistry
<1>2. SUFFICES ASSUME NEW s \in Sessions
               PROVE  /\ strong'[s] = Count(registry', s) + Count(conn', s)
                      /\ link'[s] = "free" <=> strong'[s] = 0
  BY DEF HandlesCounted
<1>3. /\ Count(registry, s) \in Nat /\ Count(conn, s) \in Nat
      /\ old = s => Count(registry, s) >= 1
      /\ \A w : Count([conn EXCEPT ![c] = w], s) = Count(conn, s) + Unit(w, s) - Unit(conn[c], s)
  BY <1>1, Counts
<1>4. /\ strong[s] = Count(registry, s) + Count(conn, s)
      /\ link[s] = "free" <=> strong[s] = 0
  BY DEF HandlesCounted
<1>5. CASE old = None
  BY <1>1, <1>4, <1>5 DEF Lookup
<1>6. CASE old # None
  <2>1. /\ strong' = [strong EXCEPT ![old] = @ + 1] /\ conn' = [conn EXCEPT ![c] = old]
        /\ old \in Sessions
    BY <1>1, <1>6 DEF Lookup, TypeOK
  <2>2. Count(conn', s) = Count(conn, s) + Unit(old, s) - Unit(conn[c], s)
    BY <1>3, <2>1
  <2>3. strong'[s] = strong[s] + Unit(old, s)
    BY <1>1, <2>1 DEF Unit, TypeOK
  <2>4. QED BY <1>1, <1>3, <1>4, <2>2, <2>3 DEF Unit
<1>7. QED BY <1>5, <1>6

(* Dropping a handle that something still counts: what is left is right.   *)
LEMMA DropCounts ==
  ASSUME TypeOK, NEW old \in Sessions, DropHandle(old), NEW s \in Sessions,
         NEW n \in Nat, strong[s] = n, old = s => n >= 1,
         link[s] = "free" <=> strong[s] = 0
  PROVE  /\ strong'[s] = n - Unit(old, s)
         /\ link'[s] = "free" <=> strong'[s] = 0
<1>1. CASE s = old
  BY <1>1 DEF DropHandle, Unit, TypeOK
<1>2. CASE s # old
  BY <1>2 DEF DropHandle, Unit, TypeOK
<1>3. QED BY <1>1, <1>2

LEMMA RegisterCounts ==
  ASSUME IInv, HandlesCounted, NEW c \in Callers, Register(c)
  PROVE  HandlesCounted'
<1> USE ConnectorAssumption
<1> DEFINE old == registry[req[c].id]
           n(s) == Count(registry, s) + Count(conn, s)
<1>1. /\ TypeOK /\ conn[c] # None /\ req[c].id \in Ids
      /\ registry' = [registry EXCEPT ![req[c].id] = conn[c]]
      /\ conn' = [conn EXCEPT ![c] = None]
  BY DEF IInv, HandleHeld, Register, InRegistry
<1>2. SUFFICES ASSUME NEW s \in Sessions
               PROVE  /\ strong'[s] = Count(registry', s) + Count(conn', s)
                      /\ link'[s] = "free" <=> strong'[s] = 0
  BY DEF HandlesCounted
<1>3. /\ Count(registry, s) \in Nat /\ Count(conn, s) \in Nat
      /\ old = s => Count(registry, s) >= 1
      /\ Count(registry', s) = Count(registry, s) + Unit(conn[c], s) - Unit(old, s)
      /\ Count(conn', s) = Count(conn, s) + Unit(None, s) - Unit(conn[c], s)
  BY <1>1, Counts
<1>4. Count(registry', s) + Count(conn', s) = n(s) - Unit(old, s) /\ n(s) \in Nat
  BY <1>3 DEF Unit
<1>5. strong[s] = n(s) /\ (link[s] = "free" <=> strong[s] = 0)
  BY DEF HandlesCounted
<1>6. CASE old = None
  <2>1. UNCHANGED <<link, strong>>
    BY <1>6 DEF Register
  <2>2. QED BY <1>4, <1>5, <1>6, <2>1 DEF Unit
<1>7. CASE old # None
  <2>1. DropHandle(old) /\ old \in Sessions
    BY <1>1, <1>7 DEF Register, TypeOK
  <2>2. strong'[s] = n(s) - Unit(old, s) /\ (link'[s] = "free" <=> strong'[s] = 0)
    BY <1>1, <1>3, <1>4, <1>5, <2>1, DropCounts
  <2>3. QED BY <1>4, <2>2
<1>8. QED BY <1>6, <1>7

LEMMA RemoveCounts ==
  ASSUME IInv, HandlesCounted, NEW c \in Callers, Remove(c)
  PROVE  HandlesCounted'
<1> USE ConnectorAssumption
<1> DEFINE old == registry[req[c].id]
           n(s) == Count(registry, s) + Count(conn, s)
<1>1. /\ TypeOK /\ req[c].id \in Ids /\ UNCHANGED conn
      /\ registry' = [registry EXCEPT ![req[c].id] = None]
  BY DEF IInv, HandleHeld, Remove, InRegistry
<1>2. SUFFICES ASSUME NEW s \in Sessions
               PROVE  /\ strong'[s] = Count(registry', s) + Count(conn', s)
                      /\ link'[s] = "free" <=> strong'[s] = 0
  BY DEF HandlesCounted
<1>3. /\ Count(registry, s) \in Nat /\ Count(conn, s) \in Nat
      /\ old = s => Count(registry, s) >= 1
      /\ Count(registry', s) = Count(registry, s) + Unit(None, s) - Unit(old, s)
  BY <1>1, Counts
<1>4. Count(registry', s) + Count(conn', s) = n(s) - Unit(old, s) /\ n(s) \in Nat
  BY <1>1, <1>3 DEF Unit
<1>5. strong[s] = n(s) /\ (link[s] = "free" <=> strong[s] = 0)
  BY DEF HandlesCounted
<1>6. CASE old = None
  <2>1. UNCHANGED <<link, strong>>
    BY <1>6 DEF Remove
  <2>2. QED BY <1>4, <1>5, <1>6, <2>1 DEF Unit
<1>7. CASE old # None
  <2>1. DropHandle(old) /\ old \in Sessions
    BY <1>1, <1>7 DEF Remove, TypeOK
  <2>2. strong'[s] = n(s) - Unit(old, s) /\ (link'[s] = "free" <=> strong'[s] = 0)
    BY <1>1, <1>3, <1>4, <1>5, <2>1, DropCounts
  <2>3. QED BY <1>4, <2>2
<1>8. QED BY <1>6, <1>7

LEMMA ReleaseCounts ==
  ASSUME IInv, HandlesCounted, NEW c \in Callers, Release(c)
  PROVE  HandlesCounted'
<1> USE ConnectorAssumption
<1> DEFINE n(s) == Count(registry, s) + Count(conn, s)
<1>1. /\ TypeOK /\ conn[c] \in Sessions /\ UNCHANGED registry
      /\ conn' = [conn EXCEPT ![c] = None] /\ DropHandle(conn[c])
  BY DEF IInv, HandleHeld, TypeOK, Release
<1>2. SUFFICES ASSUME NEW s \in Sessions
               PROVE  /\ strong'[s] = Count(registry', s) + Count(conn', s)
                      /\ link'[s] = "free" <=> strong'[s] = 0
  BY DEF HandlesCounted
<1>3. /\ Count(registry, s) \in Nat /\ Count(conn, s) \in Nat
      /\ conn[c] = s => Count(conn, s) >= 1
      /\ Count(conn', s) = Count(conn, s) + Unit(None, s) - Unit(conn[c], s)
  BY <1>1, Counts
<1>4. Count(registry', s) + Count(conn', s) = n(s) - Unit(conn[c], s) /\ n(s) \in Nat
  BY <1>1, <1>3 DEF Unit
<1>5. strong[s] = n(s) /\ (link[s] = "free" <=> strong[s] = 0)
  BY DEF HandlesCounted
<1>6. strong'[s] = n(s) - Unit(conn[c], s) /\ (link'[s] = "free" <=> strong'[s] = 0)
  BY <1>1, <1>3, <1>4, <1>5, DropCounts
<1>7. QED BY <1>4, <1>6

-----------------------------------------------------------------------------

LEMMA InitCounts == Init => HandlesCounted
<1> SUFFICES ASSUME Init, NEW s \in Sessions
             PROVE  /\ strong[s] = Count(registry, s) + Count(conn, s)
                    /\ link[s] = "free" <=> strong[s] = 0
  BY DEF HandlesCounted
<1>1. s # None
  BY ConnectorAssumption
<1>2. {i \in DOMAIN registry : registry[i] = s} = {} /\ {c \in DOMAIN conn : conn[c] = s} = {}
  BY <1>1 DEF Init
<1>3. Count(registry, s) = 0 /\ Count(conn, s) = 0
  BY <1>2, FS_EmptySet DEF Count
<1>4. QED BY <1>3 DEF Init

LEMMA NextCounts == IInv /\ HandlesCounted /\ [Next]_vars => HandlesCounted'
<1> SUFFICES ASSUME IInv, HandlesCounted, [Next]_vars
             PROVE  HandlesCounted'
  OBVIOUS
<1>1. ASSUME UNCHANGED <<registry, conn, strong, link>>
      PROVE  HandlesCounted'
  BY <1>1 DEF HandlesCounted
<1>2. ASSUME NEW c \in Callers, Arrive(c)
      PROVE  HandlesCounted'
  BY <1>1, <1>2 DEF Arrive, BadRequest, CallConnect, CallQuery, CallMetadata, CallClose, Begin,
     sessionVars
<1>3. ASSUME NEW c \in Callers, Local(c)
      PROVE  HandlesCounted'
  <2>1. CASE Enqueue(c) \/ Return(c)
    BY <1>1, <2>1 DEF Enqueue, Return, sessionVars
  <2>2. QED
    BY <1>3, <2>1, LookupCounts, RegisterCounts, RemoveCounts, ReleaseCounts DEF Local
<1>4. ASSUME NEW c \in Callers, Talk(c)
      PROVE  HandlesCounted'
  BY <1>1, <1>4 DEF Talk, Ask, AskFails, ReadRow, ReadError, ReadLost, NextStatement, Complete,
     NoVersion, Fail
<1>5. ASSUME NEW c \in Callers, LockRegistry(c) \/ DialFails(c)
      PROVE  HandlesCounted'
  BY <1>1, <1>5 DEF LockRegistry, DialFails, sessionVars
<1>6. ASSUME NEW c \in Callers, NEW s \in Sessions, Dial(c, s)
      PROVE  HandlesCounted'
  BY <1>6, DialCounts
<1>7. ASSUME NEW s \in Sessions, LinkLoss(s)
      PROVE  HandlesCounted'
  <2>1. /\ UNCHANGED <<registry, conn, strong>>
        /\ \A d \in Sessions : link'[d] = "free" <=> link[d] = "free"
    BY <1>7 DEF LinkLoss, IInv, TypeOK
  <2>2. QED BY <2>1 DEF HandlesCounted
<1>8. CASE UNCHANGED vars
  BY <1>1, <1>8 DEF vars, sessionVars
<1>9. QED
  BY <1>2, <1>3, <1>4, <1>5, <1>6, <1>7, <1>8 DEF Next

(* Every Arc handle is accounted for and a session is open or lost exactly *)
(* while one exists: none leaks when an id is connected again or a connect *)
(* fails, none is closed under a call (SqlServerConnection's clones, the   *)
(* registry's insert and remove).                                          *)
THEOREM HandlesAreCounted == Spec => []HandlesCounted
<1>1. Init => HandlesCounted
  BY InitCounts
<1>2. IInv /\ HandlesCounted /\ [Next]_vars => HandlesCounted'
  BY NextCounts
<1>3. QED
  BY <1>1, <1>2, Invariance, PTL DEF Spec

-----------------------------------------------------------------------------
(* What is known of one call, and that a step of c is a step of no other.  *)

ShapeOf(c) ==
  /\ pc[c] = "idle" => req[c] = NoRequest
  /\ pc[c] \in {"dial", "register"} => req[c].op = "connect"
  /\ pc[c] = "lookup" => req[c].op \in {"query", "metadata"}
  /\ pc[c] = "remove" => req[c].op = "close"
  /\ pc[c] \in {"lock", "ask", "read", "release"} => req[c].op \in {"connect", "query", "metadata"}
  /\ pc[c] \in {"dial", "lock", "ask", "read"} /\ req[c].op = "connect" => todo[c] = <<Version>>
  /\ outcome[c] = "pending" <=> pc[c] \notin {"release", "reply"}
  /\ pc[c] = "release" => outcome[c] \in {"ok", "failed"}
  /\ pc[c] = "release" /\ req[c].op = "connect" => outcome[c] = "failed"
  /\ pc[c] = "register" => rows[c] # <<>> /\ rows[c][1].sql = Version

Shaped == \A c \in Callers : ShapeOf(c)

LEMMA ShapedEquiv == Shaped <=> CallShape /\ Probed
BY DEF Shaped, ShapeOf, CallShape, Probed

Aside(c) == Others(c) /\ \A d \in Callers \ {c} : outcome'[d] = outcome[d]

LEMMA ShapeKept ==
  ASSUME Shaped, NEW c \in Callers, Aside(c), ShapeOf(c)'
  PROVE  Shaped'
<1> SUFFICES ASSUME NEW d \in Callers PROVE ShapeOf(d)'
  BY DEF Shaped
<1>1. CASE d = c
  BY <1>1
<1>2. CASE d # c
  <2>1. /\ ShapeOf(d) /\ pc'[d] = pc[d] /\ req'[d] = req[d] /\ todo'[d] = todo[d]
        /\ outcome'[d] = outcome[d] /\ rows'[d] = rows[d]
    BY <1>2 DEF Shaped, Aside, Others
  <2>2. QED BY <2>1 DEF ShapeOf
<1>3. QED BY <1>1, <1>2

LEMMA FailShape ==
  ASSUME TypeOK, NEW c \in Callers, ShapeOf(c), pc[c] \in {"ask", "read"}, Fail(c)
  PROVE  Aside(c) /\ ShapeOf(c)'
BY DEF TypeOK, Fail, Aside, Others, ShapeOf, Goto

(* Arriving and leaving.                                                   *)
LEMMA BeginShape ==
  ASSUME TypeOK, Shaped, NEW c \in Callers, Arrive(c)
  PROVE  Aside(c) /\ ShapeOf(c)'
<1>0. ShapeOf(c)
  BY DEF Shaped
<1>1. CASE BadRequest(c)
  BY <1>0, <1>1 DEF TypeOK, BadRequest, Aside, Others, ShapeOf, Goto
<1>2. ASSUME NEW i \in Ids, CallConnect(c, i) \/ CallMetadata(c, i) \/ CallClose(c, i)
                            \/ \E q \in Sql : CallQuery(c, i, q)
      PROVE  Aside(c) /\ ShapeOf(c)'
  BY <1>0, <1>2 DEF TypeOK, CallConnect, CallMetadata, CallClose, CallQuery, Begin, Aside, Others,
     ShapeOf, Goto, replyVars
<1>3. QED BY <1>1, <1>2 DEF Arrive

LEMMA LocalShape ==
  ASSUME Strong, Shaped, NEW c \in Callers, Local(c)
  PROVE  Aside(c) /\ ShapeOf(c)'
<1>0. ShapeOf(c) /\ TypeOK
  BY DEF Shaped, Strong
<1> USE DEF TypeOK, Aside, Others, ShapeOf, Goto, replyVars
<1>1. CASE Enqueue(c)
  BY <1>0, <1>1 DEF Enqueue
<1>2. CASE Lookup(c)
  BY <1>0, <1>2 DEF Lookup, InRegistry
<1>3. CASE Register(c)
  BY <1>0, <1>3 DEF Register, InRegistry
<1>4. CASE Remove(c)
  BY <1>0, <1>4 DEF Remove, InRegistry
<1>5. CASE Release(c)
  BY <1>0, <1>5 DEF Release
<1>6. CASE Return(c)
  BY <1>0, <1>6 DEF Return
<1>7. QED BY <1>1, <1>2, <1>3, <1>4, <1>5, <1>6 DEF Local

LEMMA TalkShape ==
  ASSUME Strong, Shaped, NEW c \in Callers, Talk(c)
  PROVE  Aside(c) /\ ShapeOf(c)'
<1>0. ShapeOf(c) /\ TypeOK
  BY DEF Shaped, Strong
<1> USE DEF Goto, replyVars
<1>1. CASE Ask(c)
  BY <1>0, <1>1 DEF Ask, TypeOK, Aside, Others, ShapeOf
<1>2. CASE AskFails(c)
  BY <1>0, <1>2, FailShape DEF AskFails
<1>3. CASE ReadRow(c)
  BY <1>0, <1>3 DEF ReadRow, Receive, TypeOK, Aside, Others, ShapeOf
<1>4. CASE ReadError(c)
  BY <1>0, <1>4, FailShape DEF ReadError, Receive
<1>5. CASE ReadLost(c)
  BY <1>0, <1>5, FailShape DEF ReadLost
<1>6. CASE NextStatement(c)
  <2>1. Len(todo[c]) > 1 /\ pc[c] = "read"
    BY <1>6 DEF NextStatement, Receive
  <2>2. req[c].op # "connect"
    <3>1. todo[c] # <<Version>>
      <4>1. SUFFICES ASSUME todo[c] = <<Version>> PROVE FALSE
        OBVIOUS
      <4>2. Len(todo[c]) = 1
        BY ONLY <4>1
      <4>3. QED BY <2>1, <4>2
    <3>2. QED BY <1>0, <2>1, <3>1, Zenon DEF ShapeOf
  <2>3. QED BY <1>0, <1>6, <2>1, <2>2 DEF NextStatement, TypeOK, Aside, Others, ShapeOf
<1>7. CASE Complete(c)
  <2>1. pc[c] = "read" /\ FitsNow(c)
    BY <1>7 DEF Complete, Receive, Strong, Readers
  <2>2. CASE req[c].op = "connect"
    <3>1. todo[c] = <<Version>> /\ rows[c] # <<>> /\ rows[c] \in Seq(Tokens)
      BY <1>0, <1>7, <2>1, <2>2 DEF Complete, ShapeOf, TypeOK
    <3>2. rows[c][1] = Token("row", Version, 1)
      BY <2>1, <3>1 DEF FitsNow, Fits
    <3>3. rows[c][1].sql = Version
      BY <3>2 DEF Token
    <3>4. /\ pc' = [pc EXCEPT ![c] = "register"] /\ todo' = [todo EXCEPT ![c] = <<>>]
          /\ UNCHANGED <<rows, more, outcome, req, conn>>
      BY <1>7, <2>2 DEF Complete
    <3>5. QED BY <1>0, <2>1, <2>2, <3>1, <3>3, <3>4 DEF TypeOK, Aside, Others, ShapeOf
  <2>3. CASE req[c].op # "connect"
    <3>1. /\ pc' = [pc EXCEPT ![c] = "release"] /\ outcome' = [outcome EXCEPT ![c] = "ok"]
          /\ todo' = [todo EXCEPT ![c] = <<>>] /\ rows' = [rows EXCEPT ![c] = <<>>]
          /\ more' = [more EXCEPT ![c] = FALSE] /\ UNCHANGED <<req, conn>>
      BY <1>7, <2>3 DEF Complete
    <3>2. req[c].op \in {"query", "metadata"}
      BY <1>0, <2>1, <2>3 DEF ShapeOf
    <3>3. QED BY <1>0, <3>1, <3>2 DEF TypeOK, Aside, Others, ShapeOf
  <2>4. QED BY <2>2, <2>3
<1>8. CASE NoVersion(c)
  BY <1>0, <1>8, FailShape DEF NoVersion, Receive
<1>9. QED BY <1>1, <1>2, <1>3, <1>4, <1>5, <1>6, <1>7, <1>8 DEF Talk

LEMMA ConnectShape ==
  ASSUME TypeOK, Shaped, NEW c \in Callers,
         LockRegistry(c) \/ DialFails(c) \/ \E s \in Sessions : Dial(c, s)
  PROVE  Aside(c) /\ ShapeOf(c)'
<1>0. ShapeOf(c)
  BY DEF Shaped
<1> USE DEF TypeOK, Aside, Others, ShapeOf, Goto, replyVars
<1>1. CASE LockRegistry(c)
  BY <1>0, <1>1 DEF LockRegistry
<1>2. CASE DialFails(c)
  BY <1>0, <1>2 DEF DialFails
<1>3. ASSUME NEW s \in Sessions, Dial(c, s)
      PROVE  Aside(c) /\ ShapeOf(c)'
  BY <1>0, <1>3 DEF Dial
<1>4. QED BY <1>1, <1>2, <1>3

LEMMA NextShape == Strong /\ Shaped /\ [Next]_vars => Shaped'
<1> SUFFICES ASSUME Strong, Shaped, [Next]_vars PROVE Shaped'
  OBVIOUS
<1>1. TypeOK
  BY DEF Strong
<1>2. ASSUME UNCHANGED <<pc, req, todo, rows, outcome>>
      PROVE  Shaped'
  BY <1>2 DEF Shaped, ShapeOf
<1>3. ASSUME NEW c \in Callers, Arrive(c) \/ Local(c) \/ Talk(c) \/ LockRegistry(c)
                       \/ DialFails(c) \/ \E s \in Sessions : Dial(c, s)
      PROVE  Shaped'
  <2>1. Aside(c) /\ ShapeOf(c)'
    BY <1>1, <1>3, BeginShape, LocalShape, TalkShape, ConnectShape
  <2>2. QED BY <2>1, ShapeKept
<1>4. ASSUME NEW s \in Sessions, LinkLoss(s)
      PROVE  Shaped'
  BY <1>2, <1>4 DEF LinkLoss, replyVars
<1>5. CASE UNCHANGED vars
  BY <1>2, <1>5 DEF vars, replyVars
<1>6. QED BY <1>3, <1>4, <1>5 DEF Next

-----------------------------------------------------------------------------
(* The end of an answer counts its rows, however far it has been read.     *)

EndFits(ans, op, kept, cut) ==
  /\ op = "query" => Len(kept) <= Cap
  /\ \A i \in 1..Len(ans) : ans[i].kind = "done" =>
       \/ \E j \in 1..i - 1 : ans[j].kind = "error"
       \/ IF cut THEN ans[i].n > Cap ELSE ans[i].n = Len(kept) + i - 1

EndFitsNow(c) == EndFits(answer[conn[c]], req[c].op, rows[c], more[c])

LEMMA EndCountsEquiv == EndCounts <=> \A c \in Callers : pc[c] = "read" => EndFitsNow(c)
BY DEF EndCounts, EndFitsNow, EndFits

LEMMA EndFitsFresh ==
  ASSUME NEW q \in Statements, NEW x \in Answers(q), NEW op
  PROVE  EndFits(x, op, <<>>, FALSE)
<1> USE ConnectorAssumption
<1>1. PICK m \in 0..MaxAnswer :
        \/ x = RowsOf(q, m) \o <<Token("done", q, m)>>
        \/ x = RowsOf(q, m) \o <<Token("error", q, m), Token("done", q, m)>>
  BY DEF Answers
<1>2. /\ RowsOf(q, m) \in Seq(Tokens) /\ Len(RowsOf(q, m)) = m
      /\ \A i \in 1..m : RowsOf(q, m)[i].kind = "row"
  BY DEF RowsOf, Token, Tokens
<1>3. /\ Token("done", q, m) \in Tokens /\ Token("error", q, m) \in Tokens
      /\ Token("done", q, m).n = m /\ Token("error", q, m).kind = "error"
  BY DEF Token, Tokens
<1>4. \A i \in 1..Len(x) : x[i].kind = "done" =>
        (\E j \in 1..i - 1 : x[j].kind = "error") \/ x[i].n = i - 1
  <2>1. CASE x = RowsOf(q, m) \o <<Token("done", q, m)>>
    <3>1. /\ Len(x) = m + 1 /\ x[m + 1] = Token("done", q, m)
          /\ \A i \in 1..m : x[i] = RowsOf(q, m)[i]
      BY <1>2, <1>3, <2>1
    <3>2. QED BY <1>2, <1>3, <3>1
  <2>2. CASE x = RowsOf(q, m) \o <<Token("error", q, m), Token("done", q, m)>>
    <3>1. /\ Len(x) = m + 2 /\ x[m + 1] = Token("error", q, m)
          /\ \A i \in 1..m : x[i] = RowsOf(q, m)[i]
      BY <1>2, <1>3, <2>2
    <3>2. QED BY <1>2, <1>3, <3>1
  <2>3. QED BY <1>1, <2>1, <2>2
<1>5. Len(<<>>) = 0 /\ 0 <= Cap /\ \A i \in 1..Len(x) : Len(<<>>) + i - 1 = i - 1
  OBVIOUS
<1>6. QED
  BY <1>4, <1>5, Zenon DEF EndFits

LEMMA EndFitsPrefix ==
  ASSUME NEW ans \in Seq(Tokens), NEW op, NEW kept \in Seq(Tokens), NEW cut \in BOOLEAN,
         EndFits(ans, op, kept, cut), NEW k \in 0..Len(ans)
  PROVE  EndFits(SubSeq(ans, 1, k), op, kept, cut)
<1> DEFINE sub == SubSeq(ans, 1, k)
<1>1. /\ Len(sub) = k /\ k \in Nat
      /\ \A i \in 1..k : i \in 1..Len(ans) /\ sub[i] = ans[i]
  OBVIOUS
<1> HIDE DEF sub
<1>2. ASSUME NEW i \in 1..k, ans[i].kind = "done"
      PROVE  \/ \E j \in 1..i - 1 : sub[j].kind = "error"
             \/ IF cut THEN ans[i].n > Cap ELSE ans[i].n = Len(kept) + i - 1
  <2>1. \/ \E j \in 1..i - 1 : ans[j].kind = "error"
        \/ IF cut THEN ans[i].n > Cap ELSE ans[i].n = Len(kept) + i - 1
    BY <1>1, <1>2, Zenon DEF EndFits
  <2>2. \A j \in 1..i - 1 : j \in 1..k
    BY <1>1
  <2>3. QED BY <1>1, <2>1, <2>2, Zenon
<1>3. \A i \in 1..Len(sub) : sub[i].kind = "done" =>
        \/ \E j \in 1..i - 1 : sub[j].kind = "error"
        \/ IF cut THEN sub[i].n > Cap ELSE sub[i].n = Len(kept) + i - 1
  BY <1>1, <1>2, Zenon
<1>4. QED BY <1>3, Zenon DEF EndFits, sub

(* A row is read: what is left of the answer starts one row later.         *)
LEMMA EndFitsRow ==
  ASSUME NEW ans \in Seq(Tokens), NEW op, NEW kept \in Seq(Tokens), NEW cut \in BOOLEAN,
         EndFits(ans, op, kept, cut), ans # <<>>, Head(ans).kind = "row"
  PROVE  /\ (op = "query" => Len(kept) < Cap) /\ ~cut =>
              EndFits(Tail(ans), op, Append(kept, Head(ans)), FALSE)
         /\ ~(op = "query" => Len(kept) < Cap) => EndFits(Tail(ans), op, kept, TRUE)
<1> USE ConnectorAssumption
<1>1. /\ Len(Tail(ans)) = Len(ans) - 1 /\ Head(ans) = ans[1] /\ Head(ans) \in Tokens
      /\ \A i \in 1..Len(Tail(ans)) : i + 1 \in 1..Len(ans) /\ Tail(ans)[i] = ans[i + 1]
  BY TailIndex
<1>2. Len(Append(kept, Head(ans))) = Len(kept) + 1
  BY <1>1
<1>3. ASSUME NEW i \in 1..Len(Tail(ans)), Tail(ans)[i].kind = "done"
      PROVE  \/ \E j \in 1..i - 1 : Tail(ans)[j].kind = "error"
             \/ IF cut THEN Tail(ans)[i].n > Cap ELSE Tail(ans)[i].n = Len(kept) + i
  <2>1. i + 1 \in 1..Len(ans) /\ ans[i + 1].kind = "done" /\ Tail(ans)[i] = ans[i + 1]
    BY <1>1, <1>3
  <2>2. \/ \E j \in 1..(i + 1) - 1 : ans[j].kind = "error"
        \/ IF cut THEN ans[i + 1].n > Cap ELSE ans[i + 1].n = Len(kept) + (i + 1) - 1
    BY <2>1 DEF EndFits
  <2>3. ASSUME NEW j \in 1..(i + 1) - 1, ans[j].kind = "error"
        PROVE  \E l \in 1..i - 1 : Tail(ans)[l].kind = "error"
    <3>1. j # 1
      BY <1>1, <2>3
    <3>2. j - 1 \in 1..i - 1 /\ Tail(ans)[j - 1] = ans[(j - 1) + 1] /\ (j - 1) + 1 = j
      BY <1>1, <3>1
    <3>3. QED BY <2>3, <3>2
  <2>4. QED BY <2>1, <2>2, <2>3
<1>4. CASE (op = "query" => Len(kept) < Cap) /\ ~cut
  BY <1>2, <1>3, <1>4 DEF EndFits
<1>5. CASE ~(op = "query" => Len(kept) < Cap)
  <2>1. op = "query" /\ Len(kept) = Cap
    BY <1>5 DEF EndFits
  <2>2. \A i \in 1..Len(Tail(ans)) : Tail(ans)[i].kind = "done" =>
          (\E j \in 1..i - 1 : Tail(ans)[j].kind = "error") \/ Tail(ans)[i].n > Cap
    BY <1>3, <2>1
  <2>3. QED BY <1>5, <2>1, <2>2 DEF EndFits
<1>6. QED BY <1>4, <1>5

LEMMA EndCountsKept ==
  ASSUME TypeOK, HandleHeld, EndCounts, NEW c \in Callers, Others(c),
         \A d \in Callers \ {c} : pc[d] = "read" =>
           answer'[conn[d]] = answer[conn[d]] \/ answer'[conn[d]] = <<>>,
         pc'[c] = "read" => EndFitsNow(c)'
  PROVE  EndCounts'
<1>1. SUFFICES ASSUME NEW d \in Callers, pc'[d] = "read"
               PROVE  EndFitsNow(d)'
  BY DEF EndCounts, EndFitsNow, EndFits
<1>2. CASE d = c
  BY <1>1, <1>2
<1>3. CASE d # c
  <2>1. /\ pc[d] = "read" /\ req'[d] = req[d] /\ conn'[d] = conn[d]
        /\ rows'[d] = rows[d] /\ more'[d] = more[d]
    BY <1>1, <1>3 DEF Others
  <2>2. EndFitsNow(d)
    BY <2>1, EndCountsEquiv
  <2>3. CASE answer'[conn[d]] = answer[conn[d]]
    BY <2>1, <2>2, <2>3 DEF EndFitsNow
  <2>4. CASE answer'[conn[d]] = <<>>
    <3>1. EndFits(<<>>, req[d].op, rows[d], more[d])
      BY <2>2 DEF EndFitsNow, EndFits
    <3>2. QED BY <2>1, <2>4, <3>1 DEF EndFitsNow
  <2>5. QED BY <1>3, <2>1, <2>3, <2>4
<1>4. QED BY <1>2, <1>3

LEMMA TalkEnds ==
  ASSUME Strong, EndCounts, NEW c \in Callers, Talk(c), Others(c)
  PROVE  EndCounts'
<1> USE ConnectorAssumption
<1> DEFINE s == conn[c]
           ans == answer[s]
<1>1. TypeOK /\ HandleHeld /\ QueueHonest
  BY DEF Strong
<1>2. pc[c] \in Client /\ Holds(c, s) /\ s \in Sessions /\ ans \in Seq(Tokens)
  BY <1>1 DEF TypeOK, HandleHeld, QueueHonest, Client, Talk, Ask, AskFails, ReadRow, ReadError,
     ReadLost, NextStatement, Complete, NoVersion, Receive
<1>3. \A d \in Callers \ {c} : pc[d] = "read" => conn[d] # s /\ conn[d] \in Sessions
  BY <1>1, <1>2, OneHolder DEF TypeOK, HandleHeld
<1>4. \A d \in Callers \ {c} : pc[d] = "read" => answer'[conn[d]] = answer[conn[d]]
  <2>1. \A t \in Sessions : t # s => answer'[t] = answer[t]
    BY <1>1, <1>2 DEF TypeOK, Talk, Ask, AskFails, ReadRow, ReadError, ReadLost,
       NextStatement, Complete, NoVersion, Receive
  <2>2. QED BY <1>3, <2>1
<1>5. SUFFICES ASSUME pc'[c] = "read" PROVE EndFitsNow(c)'
  BY <1>1, <1>4, EndCountsKept
<1>6. CASE Ask(c)
  <2>1. todo[c] # <<>> /\ todo[c] \in Seq(Statements) /\ Head(todo[c]) \in Statements
    BY <1>1, <1>6 DEF Ask, TypeOK, HandleHeld
  <2>2. PICK a \in Answers(Head(todo[c])) : answer' = [answer EXCEPT ![s] = a]
    BY <1>6 DEF Ask
  <2>3. answer'[conn'[c]] = a /\ rows'[c] = <<>> /\ more'[c] = FALSE /\ req'[c] = req[c]
    BY <1>1, <1>2, <1>6, <2>2 DEF Ask, TypeOK
  <2>4. EndFits(a, req[c].op, <<>>, FALSE)
    BY <2>1, EndFitsFresh
  <2>5. QED BY <2>3, <2>4 DEF EndFitsNow
<1>7. CASE ReadRow(c)
  <2>1. /\ pc[c] = "read" /\ ans # <<>> /\ Head(ans).kind = "row"
        /\ answer' = [answer EXCEPT ![s] = Tail(ans)] /\ UNCHANGED <<conn, req>>
        /\ IF Keeps(c)
             THEN rows' = [rows EXCEPT ![c] = Append(rows[c], Head(ans))] /\ more' = more
             ELSE more' = [more EXCEPT ![c] = TRUE] /\ rows' = rows
    BY <1>7 DEF ReadRow, Receive
  <2>2. EndFits(ans, req[c].op, rows[c], more[c]) /\ (more[c] => ~Keeps(c))
    BY <2>1, EndCountsEquiv DEF EndFitsNow, Strong, Readers, FitsNow, Fits, Keeps
  <2>3. /\ rows[c] \in Seq(Tokens) /\ more[c] \in BOOLEAN /\ answer'[conn'[c]] = Tail(ans)
        /\ req'[c] = req[c]
    BY <1>1, <1>2, <2>1 DEF TypeOK
  <2>4. CASE Keeps(c)
    <3>1. rows'[c] = Append(rows[c], Head(ans)) /\ more'[c] = FALSE
      BY <1>1, <2>1, <2>2, <2>4 DEF TypeOK
    <3>2. EndFits(Tail(ans), req[c].op, Append(rows[c], Head(ans)), FALSE)
      <4> HIDE DEF ans
      <4>1. QED BY <1>2, <2>1, <2>2, <2>3, <2>4, EndFitsRow DEF Keeps
    <3>3. QED BY <2>3, <3>1, <3>2 DEF EndFitsNow
  <2>5. CASE ~Keeps(c)
    <3>1. rows'[c] = rows[c] /\ more'[c] = TRUE
      BY <1>1, <2>1, <2>5 DEF TypeOK
    <3>2. EndFits(Tail(ans), req[c].op, rows[c], TRUE)
      <4> HIDE DEF ans
      <4>1. QED BY <1>2, <2>1, <2>2, <2>3, <2>5, EndFitsRow DEF Keeps
    <3>3. QED BY <2>3, <3>1, <3>2 DEF EndFitsNow
  <2>6. QED BY <2>4, <2>5
<1>8. CASE AskFails(c) \/ ReadError(c) \/ ReadLost(c) \/ NextStatement(c) \/ Complete(c)
           \/ NoVersion(c)
  <2>1. pc' = [pc EXCEPT ![c] = "release"] \/ pc' = [pc EXCEPT ![c] = "register"]
        \/ pc' = [pc EXCEPT ![c] = "ask"]
    BY <1>8 DEF AskFails, ReadError, ReadLost, NextStatement, Complete, NoVersion, Fail, Goto
  <2>2. QED BY <1>1, <1>5, <2>1 DEF TypeOK
<1>9. QED BY <1>6, <1>7, <1>8 DEF Talk

LEMMA NextEnds == Strong /\ Shaped /\ EndCounts /\ [Next]_vars => EndCounts'
<1> USE ConnectorAssumption
<1> SUFFICES ASSUME Strong, Shaped, EndCounts, [Next]_vars PROVE EndCounts'
  OBVIOUS
<1>1. TypeOK /\ HandleHeld /\ QueueHonest
  BY DEF Strong
<1>2. ASSUME NEW c \in Callers, Arrive(c) \/ Local(c) \/ LockRegistry(c)
                       \/ DialFails(c) \/ \E s \in Sessions : Dial(c, s)
      PROVE  EndCounts'
  <2>1. Others(c)
    BY <1>1, <1>2, BeginShape, LocalShape, ConnectShape DEF Aside
  <2>2. \A d \in Callers : pc[d] = "read" =>
          answer'[conn[d]] = answer[conn[d]] \/ answer'[conn[d]] = <<>>
    <3>1. CASE answer' = answer
      BY <3>1
    <3>2. CASE \E s \in Sessions \cup {None} : DropHandle(s)
      BY <1>1, <3>2 DEF DropHandle, TypeOK, HandleHeld
    <3>3. answer' = answer \/ \E s \in Sessions \cup {None} : DropHandle(s)
      <4>1. CASE Arrive(c)
        BY <4>1 DEF Arrive, BadRequest, CallConnect, CallQuery, CallMetadata, CallClose, Begin,
           sessionVars
      <4>2. CASE Local(c)
        <5>1. conn[c] \in Sessions \cup {None}
          BY <1>1 DEF TypeOK
        <5>2. CASE Register(c) \/ Remove(c)
          <6>1. req[c].id \in Ids
            BY <1>1, <5>2 DEF HandleHeld, Register, Remove, InRegistry
          <6>2. registry[req[c].id] \in Sessions \cup {None}
            BY <1>1, <6>1 DEF TypeOK
          <6>3. QED BY <5>2, <6>2 DEF Register, Remove
        <5>3. QED BY <4>2, <5>1, <5>2 DEF Local, Enqueue, Lookup, Release, Return, sessionVars
      <4>3. CASE LockRegistry(c) \/ DialFails(c) \/ \E s \in Sessions : Dial(c, s)
        BY <4>3 DEF LockRegistry, DialFails, Dial, sessionVars
      <4>4. QED BY <1>2, <4>1, <4>2, <4>3
    <3>4. QED BY <3>1, <3>2, <3>3
  <2>3. CASE pc'[c] # "read"
    BY <1>1, <2>1, <2>2, <2>3, EndCountsKept
  <2>4. CASE pc'[c] = "read"
    <3>1. FALSE
      BY <1>1, <1>2, <2>4 DEF TypeOK, Goto, Arrive, BadRequest, CallConnect, CallQuery,
         CallMetadata, CallClose, Begin, Local, Enqueue, Lookup, Register, Remove, Release, Return,
         LockRegistry, DialFails, Dial
    <3>2. QED BY <3>1
  <2>5. QED BY <2>3, <2>4
<1>3. ASSUME NEW c \in Callers, Talk(c)
      PROVE  EndCounts'
  BY <1>1, <1>3, TalkShape, TalkEnds DEF Aside
<1>4. ASSUME NEW s \in Sessions, LinkLoss(s)
      PROVE  EndCounts'
  <2>1. SUFFICES ASSUME NEW d \in Callers, pc'[d] = "read" PROVE EndFitsNow(d)'
    BY DEF EndCounts, EndFitsNow, EndFits
  <2>2. /\ UNCHANGED <<pc, req, conn, rows, more>>
        /\ \E k \in 0..Len(answer[s]) : answer' = [answer EXCEPT ![s] = SubSeq(@, 1, k)]
    BY <1>4 DEF LinkLoss, replyVars
  <2>3. PICK k \in 0..Len(answer[s]) : answer' = [answer EXCEPT ![s] = SubSeq(@, 1, k)]
    BY <2>2
  <2>4. /\ conn[d] \in Sessions /\ answer[conn[d]] \in Seq(Tokens) /\ rows[d] \in Seq(Tokens)
        /\ more[d] \in BOOLEAN /\ EndFitsNow(d)
    BY <1>1, <2>1, <2>2, EndCountsEquiv DEF TypeOK, HandleHeld
  <2>5. CASE conn[d] # s
    <3>1. answer'[conn[d]] = answer[conn[d]]
      BY <1>1, <2>3, <2>4, <2>5 DEF TypeOK
    <3>2. QED BY <2>2, <2>4, <3>1 DEF EndFitsNow
  <2>6. CASE conn[d] = s
    <3>1. answer'[s] = SubSeq(answer[s], 1, k)
      BY <1>1, <2>3 DEF TypeOK
    <3>2. EndFits(SubSeq(answer[s], 1, k), req[d].op, rows[d], more[d])
      BY <2>4, <2>6, EndFitsPrefix DEF EndFitsNow
    <3>3. QED BY <2>2, <2>6, <3>1, <3>2 DEF EndFitsNow
  <2>7. QED BY <2>5, <2>6
<1>5. CASE UNCHANGED vars
  BY <1>5 DEF EndCounts, vars, sessionVars, replyVars
<1>6. QED BY <1>2, <1>3, <1>4, <1>5 DEF Next

-----------------------------------------------------------------------------
(* A session that is being dialled is nobody else's.                       *)

LEMMA DialAlone ==
  ASSUME IInv, HandlesCounted, OwnedAlone, NEW c \in Callers, NEW s \in Sessions, Dial(c, s)
  PROVE  OwnedAlone'
<1> USE ConnectorAssumption
<1>1. TypeOK
  BY DEF IInv
<1>2. Count(registry, s) + Count(conn, s) = 0
  BY DEF HandlesCounted, Dial
<1>3. /\ \A i \in Ids : registry[i] # s
      /\ \A d \in Callers : conn[d] # s
  BY <1>1, <1>2, Counts
<1>4. /\ \A d \in Callers \ {c} : conn'[d] = conn[d] /\ req'[d] = req[d]
      /\ conn'[c] = s /\ registry' = registry
  BY <1>1 DEF Dial, TypeOK
<1>5. QED BY <1>3, <1>4 DEF OwnedAlone

LEMMA NextAlone ==
  IInv /\ HandlesCounted /\ Shaped /\ OwnedAlone /\ [Next]_vars => OwnedAlone'
<1> USE ConnectorAssumption
<1> SUFFICES ASSUME IInv, HandlesCounted, Shaped, OwnedAlone, [Next]_vars PROVE OwnedAlone'
  OBVIOUS
<1>1. TypeOK /\ HandleHeld
  BY DEF IInv
<1>2. ASSUME UNCHANGED <<registry, conn, req>>
      PROVE  OwnedAlone'
  BY <1>2 DEF OwnedAlone
<1>3. ASSUME NEW c \in Callers, Arrive(c) \/ Return(c)
      PROVE  OwnedAlone'
  <2>1. conn[c] = None /\ UNCHANGED <<registry, conn>>
    BY <1>1, <1>3 DEF HandleHeld, Arrive, BadRequest, CallConnect, CallQuery, CallMetadata,
       CallClose, Begin, Return
  <2>2. \A d \in Callers \ {c} : req'[d] = req[d]
    BY <1>1, <1>3 DEF TypeOK, Arrive, BadRequest, CallConnect, CallQuery, CallMetadata,
       CallClose, Begin, Return
  <2>3. QED BY <2>1, <2>2 DEF OwnedAlone
<1>4. ASSUME NEW c \in Callers, Local(c)
      PROVE  OwnedAlone'
  <2>1. CASE Enqueue(c)
    BY <1>2, <2>1 DEF Enqueue
  <2>2. CASE Lookup(c)
    <3>1. pc[c] = "lookup" /\ req[c].op \in {"query", "metadata"} /\ UNCHANGED <<registry, req>>
      BY <2>2 DEF Lookup, InRegistry, Shaped, ShapeOf
    <3>2. \A d \in Callers \ {c} : conn'[d] = conn[d]
      BY <1>1, <2>2 DEF Lookup, TypeOK
    <3>3. conn'[c] = conn[c] \/ (conn'[c] = registry[req[c].id] /\ req[c].id \in Ids)
      BY <1>1, <2>2 DEF Lookup, InRegistry, TypeOK, HandleHeld
    <3>4. QED BY <3>1, <3>2, <3>3 DEF OwnedAlone
  <2>3. CASE Register(c)
    <3>1. /\ pc[c] = "register" /\ req[c].op = "connect" /\ conn[c] # None /\ req' = req
          /\ registry' = [registry EXCEPT ![req[c].id] = conn[c]]
          /\ conn' = [conn EXCEPT ![c] = None]
      BY <1>1, <2>3 DEF Register, InRegistry, Shaped, ShapeOf, HandleHeld
    <3>2. \A i \in Ids : registry'[i] \in {registry[i], conn[c]}
      BY <1>1, <3>1 DEF TypeOK
    <3>3. conn'[c] = None /\ \A d \in Callers \ {c} : conn'[d] = conn[d]
      BY <1>1, <3>1 DEF TypeOK
    <3>4. \A d \in Callers \ {c} : conn[d] # conn[c]
      BY <3>1 DEF OwnedAlone
    <3>5. QED BY <3>1, <3>2, <3>3, <3>4 DEF OwnedAlone
  <2>4. CASE Remove(c)
    <3>1. /\ registry' = [registry EXCEPT ![req[c].id] = None] /\ UNCHANGED <<conn, req>>
      BY <2>4 DEF Remove
    <3>2. \A i \in Ids : registry'[i] \in {registry[i], None}
      BY <1>1, <3>1 DEF TypeOK
    <3>3. QED BY <3>1, <3>2 DEF OwnedAlone
  <2>5. CASE Release(c)
    <3>1. conn' = [conn EXCEPT ![c] = None] /\ UNCHANGED <<registry, req>>
      BY <2>5 DEF Release
    <3>2. \A d \in Callers : conn'[d] \in {conn[d], None}
      BY <1>1, <3>1 DEF TypeOK
    <3>3. QED BY <3>1, <3>2 DEF OwnedAlone
  <2>6. QED BY <1>3, <1>4, <2>1, <2>2, <2>3, <2>4, <2>5 DEF Local
<1>5. ASSUME NEW c \in Callers, Talk(c)
      PROVE  OwnedAlone'
  BY <1>2, <1>5 DEF Talk, Ask, AskFails, ReadRow, ReadError, ReadLost, NextStatement, Complete,
     NoVersion, Fail
<1>6. ASSUME NEW c \in Callers, LockRegistry(c) \/ DialFails(c)
      PROVE  OwnedAlone'
  BY <1>2, <1>6 DEF LockRegistry, DialFails
<1>7. ASSUME NEW c \in Callers, NEW s \in Sessions, Dial(c, s)
      PROVE  OwnedAlone'
  BY <1>7, DialAlone
<1>8. ASSUME NEW s \in Sessions, LinkLoss(s)
      PROVE  OwnedAlone'
  BY <1>2, <1>8 DEF LinkLoss
<1>9. CASE UNCHANGED vars
  BY <1>2, <1>9 DEF vars
<1>10. QED BY <1>3, <1>4, <1>5, <1>6, <1>7, <1>8, <1>9 DEF Next

-----------------------------------------------------------------------------

Whole == Strong /\ HandlesCounted /\ Shaped /\ OwnedAlone /\ EndCounts

LEMMA WholeEquiv == Whole <=> TableInv
BY StrongEquiv, ShapedEquiv DEF Whole, TableInv

LEMMA InitWhole == Init => Whole
<1> SUFFICES ASSUME Init PROVE Whole
  OBVIOUS
<1>1. Strong /\ HandlesCounted
  BY InitStrong, InitCounts
<1>2. Shaped /\ OwnedAlone /\ EndCounts
  BY ConnectorAssumption DEF Init, Shaped, ShapeOf, OwnedAlone, EndCounts, NoRequest
<1>3. QED BY <1>1, <1>2 DEF Whole

LEMMA NextWhole == Whole /\ [Next]_vars => Whole'
<1> SUFFICES ASSUME Whole, [Next]_vars PROVE Whole'
  OBVIOUS
<1>1. IInv /\ Strong /\ HandlesCounted /\ Shaped /\ OwnedAlone /\ EndCounts
  BY StrongEquiv DEF Whole
<1>2. QED
  BY <1>1, NextStrong, NextCounts, NextShape, NextAlone, NextEnds DEF Whole

(* What the proofs below rest on holds in every reachable state: besides   *)
(* the types, who owns which handle and client, whose session is its own,  *)
(* and how the end of an answer counts what was read of it (call_json's    *)
(* methods and what they hold between two awaits).                         *)
THEOREM TableIsSound == Spec => []TableInv
<1>1. Spec => []Whole
  BY InitWhole, NextWhole, PTL DEF Spec
<1>2. Whole => TableInv
  BY WholeEquiv
<1>3. QED BY <1>1, <1>2, PTL

LEMMA AlwaysWhole == Spec => []Whole
BY InitWhole, NextWhole, PTL DEF Spec

-----------------------------------------------------------------------------

LEMMA ReplyComplete ==
  ASSUME Whole, NEW c \in Callers, Complete(c), req[c].op = "query"
  PROVE  LET end == Head(answer[conn[c]]) IN
         /\ end.kind = "done"
         /\ Len(rows[c]) = IF end.n < Cap THEN end.n ELSE Cap
         /\ more[c] = (end.n > Cap)
<1> USE ConnectorAssumption
<1> DEFINE ans == answer[conn[c]]
           end == Head(ans)
<1>1. /\ pc[c] = "read" /\ ans # <<>> /\ end.kind = "done" /\ ans \in Seq(Tokens)
      /\ rows[c] \in Seq(Tokens) /\ more[c] \in BOOLEAN
  BY DEF Whole, Strong, TypeOK, HandleHeld, Complete, Receive
<1>2. 1 \in 1..Len(ans) /\ end = ans[1] /\ end \in Tokens
  <2> HIDE DEF ans
  <2>1. QED BY <1>1, TailIndex
<1>3. EndFits(ans, req[c].op, rows[c], more[c]) /\ (more[c] => ~Keeps(c))
  BY <1>1, EndCountsEquiv DEF Whole, Strong, EndFitsNow, Readers, FitsNow, Fits, Keeps
<1>4. end.n \in Nat /\ Len(rows[c]) \in Nat /\ Len(rows[c]) <= Cap
  BY <1>1, <1>2, <1>3 DEF Tokens, EndFits
<1>5. IF more[c] THEN end.n > Cap ELSE end.n = Len(rows[c]) + 1 - 1
  BY <1>1, <1>2, <1>3 DEF EndFits
<1>6. CASE more[c] = TRUE
  <2>1. Len(rows[c]) >= Cap
    BY <1>3, <1>4, <1>6 DEF Keeps
  <2>2. QED BY <1>1, <1>4, <1>5, <1>6, <2>1
<1>7. CASE more[c] = FALSE
  BY <1>1, <1>4, <1>5, <1>7
<1>8. QED BY <1>1, <1>6, <1>7

(* A query that returns ok read its answer to the end and returns the      *)
(* first Cap rows of it, truncated exactly when there were more (run_query).*)
THEOREM RepliesAreComplete == Spec => CompleteReply
<1>1. ASSUME Whole, [Next]_vars, NEW c \in Callers, req[c].op = "query",
             outcome[c] # "ok", outcome'[c] = "ok"
      PROVE  Complete(c)
  <2>1. TypeOK /\ Shaped
    BY <1>1 DEF Whole, Strong
  <2>2. ASSUME NEW d \in Callers, Arrive(d) \/ Local(d) \/ Talk(d) \/ LockRegistry(d)
                         \/ DialFails(d) \/ \E s \in Sessions : Dial(d, s)
        PROVE  d = c
    <3>1. Aside(d)
      BY <1>1, <2>1, <2>2, BeginShape, LocalShape, TalkShape, ConnectShape DEF Whole
    <3>2. QED BY <1>1, <3>1 DEF Aside
  <2>3. /\ ~Arrive(c) /\ ~LockRegistry(c) /\ ~DialFails(c) /\ ~ \E s \in Sessions : Dial(c, s)
        /\ ~Local(c)
    <3>1. pc[c] = "register" => req[c].op = "connect"
      BY <2>1 DEF Shaped, ShapeOf
    <3>2. outcome \in [Callers -> Outcomes]
      BY <2>1 DEF TypeOK
    <3>3. QED
      BY <1>1, <3>1, <3>2 DEF Arrive, BadRequest, CallConnect, CallQuery, CallMetadata, CallClose,
         Begin, LockRegistry, DialFails, Dial, Local, Enqueue, Lookup, Register, Remove, Release,
         Return, InRegistry, replyVars
  <2>4. Talk(c) => Complete(c)
    BY <1>1, <2>1 DEF TypeOK, Talk, Ask, AskFails, ReadRow, ReadError, ReadLost, NextStatement,
       NoVersion, Fail, replyVars
  <2>5. ~ UNCHANGED vars /\ ~ \E s \in Sessions : LinkLoss(s)
    BY <1>1 DEF vars, LinkLoss, replyVars
  <2>6. QED BY <1>1, <2>2, <2>3, <2>4, <2>5 DEF Next
<1>2. Whole /\ [Next]_vars => [\A c \in Callers :
        (req[c].op = "query" /\ outcome[c] # "ok" /\ outcome'[c] = "ok") =>
          LET end == Head(answer[conn[c]]) IN
          /\ end.kind = "done"
          /\ Len(rows[c]) = IF end.n < Cap THEN end.n ELSE Cap
          /\ more[c] = (end.n > Cap)]_vars
  BY <1>1, ReplyComplete
<1>3. QED
  BY <1>2, AlwaysWhole, PTL DEF Spec, CompleteReply

-----------------------------------------------------------------------------

LEMMA RegisterProbed ==
  ASSUME Whole, NEW c \in Callers, Register(c)
  PROVE  ReadyFor(req[c].id, conn[c])
<1> USE ConnectorAssumption
<1> DEFINE s == conn[c]
<1>1. /\ TypeOK /\ s \in Sessions /\ pc[c] = "register" /\ req[c].op = "connect"
      /\ rows[c] # <<>> /\ rows[c][1].sql = Version /\ rows[c] \in Seq(Tokens)
  BY DEF Whole, Strong, TypeOK, HandleHeld, Shaped, ShapeOf, Register, InRegistry
<1>2. /\ \A i \in Ids : registry[i] # s
      /\ \A d \in Callers \ {c} : conn[d] # s
  BY <1>1 DEF Whole, OwnedAlone
<1>3. strong[s] = 1
  <2>1. DOMAIN registry = Ids /\ DOMAIN conn = Callers
    BY <1>1 DEF TypeOK
  <2>2. {i \in DOMAIN registry : registry[i] = s} = {} /\ {d \in DOMAIN conn : conn[d] = s} = {c}
    BY <1>2, <2>1
  <2>3. Count(registry, s) = 0 /\ Count(conn, s) = 1
    BY <2>2, FS_EmptySet, FS_Singleton DEF Count
  <2>4. strong[s] = Count(registry, s) + Count(conn, s)
    BY <1>1 DEF Whole, HandlesCounted
  <2>5. QED BY <2>3, <2>4
<1>4. queue[s] = <<>>
  <2>1. queue[s] \in Seq(Callers)
    BY <1>1 DEF TypeOK
  <2>2. ASSUME NEW i \in 1..Len(queue[s])
        PROVE  FALSE
    <3>1. queue[s][i] \in Callers /\ conn[queue[s][i]] = s /\ pc[queue[s][i]] \in {"ask", "read"}
      BY <1>1, <2>1, <2>2 DEF Whole, Strong, QueueHonest
    <3>2. QED BY <1>1, <1>2, <3>1
  <2>3. QED BY <2>1, <2>2, EmptySeq
<1>5. req[c] = [op |-> "connect", id |-> req[c].id]
  BY <1>1 DEF TypeOK
<1>6. 1 \in 1..Len(rows[c])
  BY <1>1
<1>7. QED BY <1>1, <1>3, <1>4, <1>5, <1>6 DEF ReadyFor

(* A session becomes visible only when its version query was answered, and *)
(* at that moment its connect is the only one to hold it (connect).        *)
THEOREM PublishedWhenProbed == Spec => PublishedAfterProbe
<1>1. ASSUME Whole, [Next]_vars, NEW i \in Ids, registry'[i] \notin {registry[i], None}
      PROVE  \E c \in Callers : /\ Register(c) /\ i = req[c].id /\ registry'[i] = conn[c]
  <2>1. TypeOK
    BY <1>1 DEF Whole, Strong
  <2>2. PICK c \in Callers : Register(c) \/ Remove(c)
    BY <1>1 DEF Next, Arrive, BadRequest, CallConnect, CallQuery, CallMetadata, CallClose, Begin,
       Talk, Ask, AskFails, ReadRow, ReadError, ReadLost, NextStatement, Complete, NoVersion, Fail,
       LockRegistry, DialFails, Dial, Local, Enqueue, Lookup, Release, Return, LinkLoss, vars
  <2>3. CASE Register(c)
    BY <1>1, <2>1, <2>3 DEF Register, TypeOK
  <2>4. CASE Remove(c)
    BY <1>1, <2>1, <2>4 DEF Remove, TypeOK
  <2>5. QED BY <2>2, <2>3, <2>4
<1>2. Whole /\ [Next]_vars =>
        [\A i \in Ids : registry'[i] \notin {registry[i], None} => ReadyFor(i, registry'[i])]_vars
  BY <1>1, RegisterProbed
<1>3. QED
  BY <1>2, AlwaysWhole, PTL DEF Spec, PublishedAfterProbe

-----------------------------------------------------------------------------
(* Connector implements SessionTable, step by step.                        *)

(* A count of zero is what it means to be named by nobody.                 *)
LEMMA CountedIsReferenced ==
  ASSUME NEW reg \in [Ids -> Sessions \cup {None}], NEW use \in [Callers -> Sessions \cup {None}],
         NEW lk, NEW st,
         \A s \in Sessions : /\ st[s] = Count(reg, s) + Count(use, s)
                             /\ lk[s] = "free" <=> st[s] = 0
  PROVE  {s \in Sessions : lk[s] # "free"} = Table!Referenced(reg, use)
<1> USE ConnectorAssumption
<1> SUFFICES ASSUME NEW s \in Sessions
             PROVE  lk[s] # "free" <=> \/ \E i \in Ids : reg[i] = s
                                       \/ \E c \in Callers : use[c] = s
  BY DEF Table!Referenced
<1>1. CountMoves(reg, s) /\ CountMoves(use, s) /\ DOMAIN reg = Ids /\ DOMAIN use = Callers
  BY CountMovesAlways
<1>2. Count(reg, s) \in Nat /\ Count(use, s) \in Nat
  BY <1>1 DEF CountMoves
<1>3. st[s] = Count(reg, s) + Count(use, s) /\ (lk[s] = "free" <=> st[s] = 0)
  OBVIOUS
<1>4. ASSUME (\E i \in Ids : reg[i] = s) \/ \E c \in Callers : use[c] = s
      PROVE  st[s] # 0
  <2>1. Count(reg, s) >= 1 \/ Count(use, s) >= 1
    BY <1>1, <1>4, Zenon DEF CountMoves
  <2>2. QED BY <1>2, <1>3, <2>1
<1>5. ASSUME \A i \in Ids : reg[i] # s, \A c \in Callers : use[c] # s
      PROVE  st[s] = 0
  <2>1. {i \in DOMAIN reg : reg[i] = s} = {} /\ {c \in DOMAIN use : use[c] = s} = {}
    BY <1>1, <1>5
  <2>2. Count(reg, s) = 0 /\ Count(use, s) = 0
    BY <2>1, FS_EmptySet DEF Count
  <2>3. QED BY <1>3, <2>2
<1>6. QED BY <1>3, <1>4, <1>5

(* A step of c to another phase moves its stage and its result only.       *)
LEMMA StageMoves ==
  ASSUME TypeOK, Shaped, NEW c \in Callers, NEW phase \in Phases, pc' = [pc EXCEPT ![c] = phase],
         \A d \in Callers \ {c} : outcome'[d] = outcome[d]
  PROVE  /\ Stage' = [Stage EXCEPT ![c] = StageOf(phase)]
         /\ Result' = [Result EXCEPT ![c] = IF phase = "reply" THEN outcome'[c] ELSE "pending"]
         /\ StageOf(pc[c]) = StageOf(phase) /\ phase # "reply" =>
              UNCHANGED <<Stage, Result>>
<1>1. pc'[c] = phase /\ \A d \in Callers \ {c} : pc'[d] = pc[d]
  BY DEF TypeOK
<1>2. Stage' = [Stage EXCEPT ![c] = StageOf(phase)]
  <2>1. Stage = [d \in Callers |-> StageOf(pc[d])] /\ Stage' = [d \in Callers |-> StageOf(pc'[d])]
    BY DEF Stage
  <2>2. \A d \in Callers : Stage'[d] = IF d = c THEN StageOf(phase) ELSE Stage[d]
    BY <1>1, <2>1
  <2>3. QED BY <2>1, <2>2
<1>3. Result' = [Result EXCEPT ![c] = IF phase = "reply" THEN outcome'[c] ELSE "pending"]
  BY <1>1 DEF Result
<1>4. StageOf(pc[c]) = StageOf(phase) /\ phase # "reply" => UNCHANGED <<Stage, Result>>
  <2>1. SUFFICES ASSUME StageOf(pc[c]) = StageOf(phase), phase # "reply"
                 PROVE  UNCHANGED <<Stage, Result>>
    OBVIOUS
  <2>2. pc[c] # "reply"
    BY <2>1 DEF StageOf, TypeOK, Phases
  <2>3. Stage' = Stage
    BY <1>2, <2>1 DEF Stage
  <2>4. Result' = Result
    BY <1>3, <2>1, <2>2 DEF Result
  <2>5. QED BY <2>3, <2>4
<1>5. QED BY <1>2, <1>3, <1>4

LEMMA StageIs ==
  ASSUME TypeOK, NEW c \in Callers
  PROVE  /\ Stage[c] = StageOf(pc[c])
         /\ Stage[c] = "idle" <=> pc[c] = "idle"
         /\ Stage[c] = "returned" <=> pc[c] = "reply"
         /\ Stage[c] = "running" <=> pc[c] \notin {"idle", "reply"}
BY DEF Stage, StageOf, TypeOK, Phases

LEMMA ArriveMaps ==
  ASSUME Whole, NEW c \in Callers, Arrive(c)
  PROVE  Table!Next
<1>1. TypeOK /\ Shaped
  BY DEF Whole, Strong
<1>2. CASE BadRequest(c)
  <2>1. /\ pc[c] = "idle" /\ pc' = [pc EXCEPT ![c] = "reply"]
        /\ outcome' = [outcome EXCEPT ![c] = "invalid"]
        /\ UNCHANGED <<registry, link, req, conn>>
    BY <1>2 DEF BadRequest, Goto, sessionVars
  <2>2. outcome'[c] = "invalid" /\ \A d \in Callers \ {c} : outcome'[d] = outcome[d]
    BY <1>1, <2>1 DEF TypeOK
  <2>3. Stage' = [Stage EXCEPT ![c] = "returned"] /\ Result' = [Result EXCEPT ![c] = "invalid"]
    BY <1>1, <2>1, <2>2, StageMoves DEF StageOf, Phases
  <2>4. Stage[c] = "idle"
    BY <1>1, <2>1, StageIs
  <2>5. Table!Refuse(c)
    BY <2>1, <2>3, <2>4 DEF Table!Refuse, Table!Answer, Live
  <2>6. QED BY <2>5 DEF Table!Next
<1>3. ASSUME NEW i \in Ids, NEW op \in {"connect", "query", "metadata", "close"}, NEW statements,
             NEW phase \in {"dial", "lookup", "remove"}, Begin(c, op, i, statements, phase)
      PROVE  Table!Next
  <2>1. /\ pc[c] = "idle" /\ pc' = [pc EXCEPT ![c] = phase] /\ phase \in Phases
        /\ req' = [req EXCEPT ![c] = [op |-> op, id |-> i]]
        /\ UNCHANGED <<registry, link, conn, outcome>>
    BY <1>3 DEF Begin, Goto, sessionVars, replyVars, Phases
  <2>2. Stage' = [Stage EXCEPT ![c] = StageOf(phase)] /\ Result' = [Result EXCEPT ![c] = "pending"]
    BY <1>1, <1>3, <2>1, StageMoves DEF Phases
  <2>3. StageOf(phase) = "running" /\ Stage[c] = "idle" /\ Result' = Result
    BY <1>1, <1>3, <2>1, <2>2, StageIs DEF StageOf, Result
  <2>4. Table!Invoke(c, [op |-> op, id |-> i])
    BY <2>1, <2>2, <2>3 DEF Table!Invoke, Live
  <2>5. [op |-> op, id |-> i] \in Table!Tasks
    BY DEF Table!Tasks
  <2>6. QED BY <2>4, <2>5 DEF Table!Next
<1>4. QED
  BY <1>2, <1>3 DEF Arrive, CallConnect, CallQuery, CallMetadata, CallClose

(* What a step that ends a call does to the table's stage and result.      *)
LEMMA AnswerMaps ==
  ASSUME TypeOK, Shaped, NEW c \in Callers, NEW r, pc' = [pc EXCEPT ![c] = "reply"],
         outcome'[c] = r, \A d \in Callers \ {c} : outcome'[d] = outcome[d], UNCHANGED req
  PROVE  Table!Answer(c, r)
BY StageMoves DEF Table!Answer, StageOf, Phases

LEMMA LiveMaps ==
  ASSUME Whole'
  PROVE  Live' = Table!Referenced(registry', conn')
<1>1. /\ registry' \in [Ids -> Sessions \cup {None}] /\ conn' \in [Callers -> Sessions \cup {None}]
      /\ \A s \in Sessions : /\ strong'[s] = Count(registry', s) + Count(conn', s)
                             /\ link'[s] = "free" <=> strong'[s] = 0
  BY DEF Whole, Strong, TypeOK, HandlesCounted
<1>2. QED BY <1>1, CountedIsReferenced DEF Live

LEMMA DialMaps ==
  ASSUME Whole, NEW c \in Callers, DialFails(c) \/ \E s \in Sessions : Dial(c, s)
  PROVE  Table!Next
<1>1. TypeOK /\ Shaped /\ HandleHeld
  BY DEF Whole, Strong
<1>2. pc[c] = "dial" /\ conn[c] = None /\ req[c].op = "connect"
  BY <1>1 DEF DialFails, Dial, HandleHeld, Shaped, ShapeOf
<1>3. Table!Running(c, {"connect"})
  BY <1>1, <1>2, StageIs DEF Table!Running
<1>4. CASE DialFails(c)
  <2>1. Table!Answer(c, "failed")
    BY <1>1, <1>4, AnswerMaps DEF DialFails, Goto, TypeOK
  <2>2. Table!OpenFails(c)
    BY <1>2, <1>3, <1>4, <2>1 DEF DialFails, Table!OpenFails, Live, sessionVars
  <2>3. QED BY <2>2 DEF Table!Next
<1>5. ASSUME NEW s \in Sessions, Dial(c, s)
      PROVE  Table!Next
  <2>1. /\ link[s] = "free" /\ link' = [link EXCEPT ![s] = "open"]
        /\ conn' = [conn EXCEPT ![c] = s] /\ pc' = [pc EXCEPT ![c] = "lock"]
        /\ UNCHANGED <<registry, req, outcome>>
    BY <1>5 DEF Dial, Goto, replyVars
  <2>2. s \notin Live /\ Live' = Live \cup {s}
    BY <1>1, <2>1 DEF Live, TypeOK
  <2>3. UNCHANGED <<Stage, Result>>
    BY <1>1, <1>2, <2>1, StageMoves DEF StageOf, Phases
  <2>4. Table!Open(c, s)
    BY <1>2, <1>3, <2>1, <2>2, <2>3 DEF Table!Open
  <2>5. QED BY <2>4 DEF Table!Next
<1>6. QED BY <1>4, <1>5

LEMMA LocalMaps ==
  ASSUME Whole, Whole', NEW c \in Callers, Local(c)
  PROVE  Table!Next \/ UNCHANGED Table!vars
<1>1. TypeOK /\ Shaped /\ HandleHeld /\ ShapeOf(c)
  BY DEF Whole, Strong, Shaped
<1>2. CASE Enqueue(c)
  <2>1. UNCHANGED <<Stage, Result>>
    BY <1>1, <1>2, StageMoves DEF Enqueue, Goto, StageOf, Phases, replyVars
  <2>2. QED BY <1>2, <2>1 DEF Enqueue, Table!vars, Live
<1>3. CASE Lookup(c)
  <2>1. /\ pc[c] = "lookup" /\ conn[c] = None /\ UNCHANGED <<registry, link, req>>
        /\ Table!Running(c, {"query", "metadata"})
    BY <1>1, <1>3, StageIs DEF Lookup, InRegistry, HandleHeld, ShapeOf, Table!Running
  <2>2. CASE registry[req[c].id] = None
    <3>1. Table!Answer(c, "notFound") /\ UNCHANGED conn
      BY <1>1, <1>3, <2>2, AnswerMaps DEF Lookup, Goto, TypeOK
    <3>2. Table!Miss(c)
      BY <2>1, <2>2, <3>1 DEF Table!Miss, Live
    <3>3. QED BY <3>2 DEF Table!Next
  <2>3. CASE registry[req[c].id] # None
    <3>1. /\ pc' = [pc EXCEPT ![c] = "lock"] /\ UNCHANGED outcome
          /\ conn' = [conn EXCEPT ![c] = registry[req[c].id]]
      BY <1>3, <2>3 DEF Lookup, Goto
    <3>2. UNCHANGED <<Stage, Result>>
      BY <1>1, <2>1, <3>1, StageMoves DEF StageOf, Phases
    <3>3. Table!Bind(c)
      BY <2>1, <2>3, <3>1, <3>2 DEF Table!Bind, Live
    <3>4. QED BY <3>3 DEF Table!Next
  <2>4. QED BY <2>2, <2>3
<1>4. CASE Register(c)
  <2>1. /\ pc[c] = "register" /\ conn[c] # None /\ UNCHANGED req
        /\ registry' = [registry EXCEPT ![req[c].id] = conn[c]]
        /\ conn' = [conn EXCEPT ![c] = None]
        /\ Table!Running(c, {"connect"})
    BY <1>1, <1>4, StageIs DEF Register, InRegistry, HandleHeld, ShapeOf, Table!Running
  <2>2. Table!Answer(c, "ok")
    BY <1>1, <1>4, AnswerMaps DEF Register, Goto, TypeOK
  <2>3. Table!Publish(c)
    BY <2>1, <2>2, LiveMaps DEF Table!Publish
  <2>4. QED BY <2>3 DEF Table!Next
<1>5. CASE Remove(c)
  <2>1. /\ pc[c] = "remove" /\ UNCHANGED <<req, conn>>
        /\ registry' = [registry EXCEPT ![req[c].id] = None]
        /\ Table!Running(c, {"close"})
    BY <1>1, <1>5, StageIs DEF Remove, InRegistry, ShapeOf, Table!Running
  <2>2. Table!Answer(c, IF registry[req[c].id] = None THEN "absent" ELSE "closed")
    <3>1. outcome'[c] = IF registry[req[c].id] = None THEN "absent" ELSE "closed"
      BY <1>1, <1>5 DEF Remove, TypeOK
    <3>2. pc' = [pc EXCEPT ![c] = "reply"] /\ \A d \in Callers \ {c} : outcome'[d] = outcome[d]
      BY <1>1, <1>5 DEF Remove, Goto, TypeOK
    <3>3. QED BY <1>1, <2>1, <3>1, <3>2, AnswerMaps
  <2>3. Live' = Table!Referenced(registry', conn)
    BY <2>1, LiveMaps
  <2>4. Table!Close(c)
    BY <2>1, <2>2, <2>3 DEF Table!Close
  <2>5. QED BY <2>4 DEF Table!Next
<1>6. CASE Release(c)
  <2>1. /\ pc[c] = "release" /\ conn[c] # None /\ UNCHANGED <<registry, req, outcome>>
        /\ conn' = [conn EXCEPT ![c] = None] /\ pc' = [pc EXCEPT ![c] = "reply"]
    BY <1>1, <1>6 DEF Release, HandleHeld, Goto, replyVars
  <2>2. /\ outcome[c] \in {"ok", "failed"}
        /\ \/ Table!Running(c, {"query", "metadata"})
           \/ Table!Running(c, {"connect"}) /\ outcome[c] = "failed"
    BY <1>1, <2>1, StageIs DEF ShapeOf, Table!Running
  <2>3. Table!Answer(c, outcome[c])
    BY <1>1, <2>1, AnswerMaps
  <2>4. Live' = Table!Referenced(registry, conn')
    BY <2>1, LiveMaps
  <2>5. Table!Finish(c, outcome[c])
    BY <2>1, <2>2, <2>3, <2>4 DEF Table!Finish
  <2>6. QED BY <2>2, <2>5 DEF Table!Next
<1>7. CASE Return(c)
  <2>1. /\ pc[c] = "reply" /\ pc' = [pc EXCEPT ![c] = "idle"]
        /\ req' = [req EXCEPT ![c] = NoRequest]
        /\ \A d \in Callers \ {c} : outcome'[d] = outcome[d]
        /\ UNCHANGED <<registry, link, conn>>
    BY <1>1, <1>7 DEF Return, Goto, sessionVars, TypeOK
  <2>2. Stage' = [Stage EXCEPT ![c] = "idle"] /\ Result' = [Result EXCEPT ![c] = "pending"]
    BY <1>1, <2>1, StageMoves DEF StageOf, Phases
  <2>3. Stage[c] = "returned"
    BY <1>1, <2>1, StageIs
  <2>4. Table!Respond(c)
    BY <2>1, <2>2, <2>3 DEF Table!Respond, Table!NoTask, NoRequest, Live
  <2>5. QED BY <2>4 DEF Table!Next
<1>8. QED BY <1>2, <1>3, <1>4, <1>5, <1>6, <1>7 DEF Local

(* Statements, answers and the lock of the registry are not in the table.  *)
LEMMA TalkMaps ==
  ASSUME Whole, NEW c \in Callers, Talk(c) \/ LockRegistry(c)
  PROVE  UNCHANGED Table!vars
<1>1. TypeOK /\ Shaped
  BY DEF Whole, Strong
<1>2. UNCHANGED <<registry, link, req, conn>>
  BY DEF Talk, Ask, AskFails, ReadRow, ReadError, ReadLost, NextStatement, Complete, NoVersion,
     Fail, LockRegistry, sessionVars
<1>3. CASE LockRegistry(c) \/ ReadRow(c)
  BY <1>2, <1>3 DEF LockRegistry, ReadRow, Stage, Result, Live, Table!vars, replyVars
<1>4. CASE Talk(c) /\ ~ReadRow(c)
  <2>1. PICK phase \in {"read", "ask", "release", "register"} : pc' = [pc EXCEPT ![c] = phase]
    BY <1>4 DEF Talk, Ask, AskFails, ReadError, ReadLost, NextStatement, Complete, NoVersion,
       Fail, Goto
  <2>2. pc[c] \in {"ask", "read"}
    BY <1>4 DEF Talk, Ask, AskFails, ReadError, ReadLost, NextStatement, Complete, NoVersion,
       Receive
  <2>3. \A d \in Callers \ {c} : outcome'[d] = outcome[d]
    BY <1>1, <1>4, TalkShape DEF Whole, Aside
  <2>4. phase \in Phases /\ StageOf(phase) = "running" /\ StageOf(pc[c]) = "running" /\ phase # "reply"
    BY <2>1, <2>2 DEF StageOf, Phases
  <2>5. UNCHANGED <<Stage, Result>>
    BY <1>1, <2>1, <2>3, <2>4, StageMoves
  <2>6. QED BY <1>2, <2>5 DEF Live, Table!vars
<1>5. QED BY <1>3, <1>4

LEMMA NextMaps == Whole /\ Whole' /\ [Next]_vars => [Table!Next]_(Table!vars)
<1> SUFFICES ASSUME Whole, Whole', [Next]_vars PROVE [Table!Next]_(Table!vars)
  OBVIOUS
<1>1. ASSUME NEW s \in Sessions, LinkLoss(s)
      PROVE  UNCHANGED Table!vars
  <2>1. Live' = Live
    BY <1>1 DEF LinkLoss, Live, Whole, Strong, TypeOK
  <2>2. QED BY <1>1, <2>1 DEF LinkLoss, Stage, Result, Table!vars, replyVars
<1>2. CASE UNCHANGED vars
  BY <1>2 DEF vars, sessionVars, replyVars, Stage, Result, Live, Table!vars
<1>3. QED
  BY <1>1, <1>2, ArriveMaps, DialMaps, LocalMaps, TalkMaps DEF Next

(* The calls of any number of hosts take effect one at a time on a plain   *)
(* table of sessions (the critical sections on CONNECTIONS and the handles *)
(* each call takes from it).                                               *)
THEOREM TableImplemented == Spec => RefinesTable
<1>1. Init => Table!Init
  <2> SUFFICES ASSUME Init PROVE Table!Init
    OBVIOUS
  <2>1. Live = {} /\ Stage = [c \in Callers |-> "idle"] /\ Result = [c \in Callers |-> "pending"]
    BY DEF Init, Live, Stage, StageOf, Result
  <2>2. QED BY <2>1 DEF Init, Table!Init, Table!NoTask, NoRequest
<1>2. QED
  BY <1>1, AlwaysWhole, NextMaps, PTL DEF Spec, RefinesTable, Table!Spec
=============================================================================
