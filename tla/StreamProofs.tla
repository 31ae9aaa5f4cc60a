---------------------------- MODULE StreamProofs ----------------------------
(***************************************************************************)
(* For any number of streams, any cap, batch size and answers, every sink  *)
(* of RowStream gets the beginning of its own answer, in order, under its  *)
(* header; Ok means all of it; and a cancel stops a stream.                *)
(***************************************************************************)
EXTENDS RowStream, SequenceTheorems, TLAPS

-----------------------------------------------------------------------------
(* What is read is the next row, and what is left then.                    *)
LEMMA NextOfRest ==
  ASSUME NEW S, NEW s \in Seq(S), NEW n \in Nat, SubSeq(s, n + 1, Len(s)) # <<>>
  PROVE  /\ n < Len(s)
         /\ Head(SubSeq(s, n + 1, Len(s))) = s[n + 1]
         /\ s[n + 1] \in S
         /\ Tail(SubSeq(s, n + 1, Len(s))) = SubSeq(s, n + 2, Len(s))
<1>1. Len(s) \in Nat
  BY LenProperties
<1>2. n < Len(s)
  <2> SUFFICES ASSUME ~(n < Len(s)) PROVE FALSE
    OBVIOUS
  <2>1. Len(s) < n + 1
    BY <1>1
  <2>2. QED BY <1>1, <2>1, SubSeqEmpty
<1>3. n + 1 \in 1..Len(s) /\ Len(s) \in n + 1..Len(s) /\ n + 1 + 1 = n + 2
  BY <1>1, <1>2
<1>4. QED BY <1>2, <1>3, HeadTailOfSubSeq, ElementOfSeq

(* The next row makes the beginning one longer.                            *)
LEMMA LongerBeginning ==
  ASSUME NEW S, NEW s \in Seq(S), NEW g \in Seq(S), NEW b \in Seq(S),
         NEW n \in Nat, n < Len(s), g \o b = SubSeq(s, 1, n)
  PROVE  g \o Append(b, s[n + 1]) = SubSeq(s, 1, n + 1)
<1> DEFINE longer == Append(b, s[n + 1])
           start  == SubSeq(s, 1, n + 1)
<1>1. Len(s) \in Nat /\ Len(g) \in Nat /\ Len(b) \in Nat
  BY LenProperties
<1>2. s[n + 1] \in S
  BY <1>1, ElementOfSeq
<1>3. /\ longer \in Seq(S) /\ Len(longer) = Len(b) + 1 /\ longer[Len(b) + 1] = s[n + 1]
      /\ \A i \in 1..Len(b) : longer[i] = b[i]
  BY <1>2, AppendProperties
<1>4. \A i \in 1..n + 1 : s[i] \in S
  BY <1>1, ElementOfSeq
<1>5. /\ SubSeq(s, 1, n) \in Seq(S) /\ Len(SubSeq(s, 1, n)) = n
      /\ \A i \in 1..n : SubSeq(s, 1, n)[i] = s[i]
  BY <1>4, SubSeqProperties
<1>6. start \in Seq(S) /\ Len(start) = n + 1 /\ \A i \in 1..n + 1 : start[i] = s[i]
  BY <1>4, SubSeqProperties
<1>7. Len(g) + Len(b) = n /\ \A i \in 1..n : (IF i <= Len(g) THEN g[i] ELSE b[i - Len(g)]) = s[i]
  <2>1. /\ Len(g \o b) = Len(g) + Len(b)
        /\ \A i \in 1..Len(g) + Len(b) : (g \o b)[i] = IF i <= Len(g) THEN g[i] ELSE b[i - Len(g)]
    BY ConcatProperties
  <2>2. Len(g) + Len(b) = n
    BY <1>5, <2>1
  <2>3. QED BY <1>5, <2>1, <2>2
<1> HIDE DEF longer, start
<1>8. /\ g \o longer \in Seq(S) /\ Len(g \o longer) = Len(g) + Len(longer)
      /\ \A i \in 1..Len(g) + Len(longer) :
           (g \o longer)[i] = IF i <= Len(g) THEN g[i] ELSE longer[i - Len(g)]
  BY <1>3, ConcatProperties
<1>9. ASSUME NEW i \in 1..n + 1 PROVE (g \o longer)[i] = start[i]
  <2>1. CASE i = n + 1
    BY <1>1, <1>3, <1>6, <1>7, <1>8, <2>1
  <2>2. CASE i # n + 1
    <3>1. i \in 1..n /\ i \in 1..Len(g) + Len(longer) /\ i \in Int
      BY <1>1, <1>3, <1>7, <2>2
    <3>2. i > Len(g) => i - Len(g) \in 1..Len(b)
      BY <1>1, <1>7, <3>1
    <3>3. (g \o longer)[i] = IF i <= Len(g) THEN g[i] ELSE b[i - Len(g)]
      BY <1>1, <1>3, <1>8, <3>1, <3>2
    <3>4. QED BY <1>6, <1>7, <3>1, <3>3
  <2>3. QED BY <2>1, <2>2
<1>10. Len(g \o longer) = Len(start) /\ Len(start) = n + 1
  BY <1>1, <1>3, <1>6, <1>7, <1>8
<1>11. g \o longer = start
  BY <1>6, <1>8, <1>9, <1>10, SeqEqual
<1>12. QED BY <1>11 DEF longer, start

-----------------------------------------------------------------------------
(* A step of t changes t's own variables, and the session only while no    *)
(* other task holds it.                                                    *)
Same(u) ==
  /\ answer'[u] = answer[u] /\ given'[u] = given[u] /\ headers'[u] = headers[u]
  /\ header'[u] = header[u] /\ batch'[u] = batch[u] /\ rowCount'[u] = rowCount[u]
  /\ truncated'[u] = truncated[u] /\ row'[u] = row[u]
  /\ pc'[u] = pc[u] /\ outcome'[u] = outcome[u]

Local(t) ==
  /\ \A u \in Tasks : u # t => Same(u)
  /\ \/ UNCHANGED <<holder, wire>>
     \/ holder \in {t, None} /\ holder' \in {t, None}

LEMMA StepInv ==
  ASSUME IInv, NEW t \in Tasks, Local(t), TypeOK', Turn(t)', Ordered(t)', Place(t)'
  PROVE  IInv'
<1> SUFFICES ASSUME NEW u \in Tasks, u # t PROVE Turn(u)' /\ Ordered(u)' /\ Place(u)'
  BY DEF IInv
<1>1. Turn(u) /\ Ordered(u) /\ Place(u) /\ Same(u) /\ u # None
  BY StreamAssumption DEF IInv, Local
<1>2. Ordered(u)' /\ Place(u)'
  BY <1>1 DEF Ordered, Place, Same
<1>3. CASE UNCHANGED <<holder, wire>>
  <2>1. Turn(u)'
    BY <1>1, <1>3 DEF Turn, Same
  <2>2. QED BY <1>2, <2>1
<1>4. CASE holder \in {t, None} /\ holder' \in {t, None}
  <2>1. pc[u] \notin Held /\ pc'[u] = pc[u] /\ holder' # u
    BY <1>1, <1>4 DEF Turn, Same
  <2>2. Turn(u)'
    BY <1>1, <2>1 DEF Turn, Same, Held
  <2>3. QED BY <1>2, <2>2
<1>5. QED BY <1>3, <1>4 DEF Local

LEMMA InitInv == Init => IInv
<1> SUFFICES ASSUME Init PROVE IInv
  OBVIOUS
<1>1. TypeOK
  BY DEF Init, TypeOK, Held
<1>2. ASSUME NEW t \in Tasks PROVE Turn(t) /\ Ordered(t) /\ Place(t)
  <2>1. Turn(t) /\ Place(t)
    BY StreamAssumption DEF Init, Turn, Place, Held
  <2>2. <<>> \o <<>> = SubSeq(<<>>, 1, 0)
    BY SubSeqEmpty, ConcatEmptySeq, EmptySeq
  <2>3. Ordered(t)
    BY <2>2, StreamAssumption DEF Init, Ordered
  <2>4. QED BY <2>1, <2>3
<1>3. QED BY <1>1, <1>2 DEF IInv

(* The end of a call that does not return Ok.                              *)
LEMMA EndInv ==
  ASSUME IInv, NEW t \in Tasks, pc[t] # "done", NEW r \in {"failed", "cancelled"}, Finish(t, r),
         UNCHANGED <<answer, told, sink, loop>>, wire' \in Seq(Row),
         holder = t \/ UNCHANGED wire
  PROVE  IInv'
<1> USE StreamAssumption DEF told, sink, loop, Finish, Goto
<1>1. Turn(t) /\ Ordered(t) /\ Place(t)
  BY DEF IInv
<1>2. TypeOK'
  BY DEF IInv, TypeOK
<1>3. pc'[t] = "done" /\ outcome'[t] = r /\ outcome[t] = "pending" /\ holder' # t
  BY <1>1 DEF IInv, TypeOK, Turn
<1>4. Local(t)
  BY DEF IInv, TypeOK, Local, Same
<1>5. Turn(t)'
  BY <1>3 DEF Turn, Held
<1>6. Ordered(t)' /\ Place(t)'
  BY <1>1, <1>3 DEF Ordered, Place
<1>7. QED BY <1>2, <1>4, <1>5, <1>6, StepInv

(* A step that changes neither the data of a stream nor the session.       *)
LEMMA TellInv ==
  ASSUME IInv, NEW t \in Tasks, Cancel(t) \/ StopListening(t)
  PROVE  IInv'
<1> USE DEF Cancel, StopListening, sink, loop
<1>1. TypeOK'
  BY DEF IInv, TypeOK
<1>2. Turn(t) /\ Ordered(t) /\ Place(t)
  BY DEF IInv
<1>3. Turn(t)' /\ Ordered(t)' /\ Place(t)'
  BY <1>2 DEF Turn, Ordered, Place
<1>4. Local(t)
  BY DEF Local, Same
<1>5. QED BY <1>1, <1>3, <1>4, StepInv

LEMMA AcquireInv ==
  ASSUME IInv, NEW t \in Tasks, Acquire(t)
  PROVE  IInv'
<1> USE DEF Acquire, Goto, told, sink, loop
<1>1. TypeOK' /\ pc' = [pc EXCEPT ![t] = "ask"] /\ pc'[t] = "ask"
  BY DEF IInv, TypeOK, Held
<1>2. Turn(t) /\ Ordered(t) /\ Place(t)
  BY DEF IInv
<1>3. Turn(t)'
  BY <1>1, <1>2 DEF Turn, Held
<1>4. Ordered(t)' /\ Place(t)'
  BY <1>1, <1>2 DEF Turn, Ordered, Place
<1>5. Local(t)
  BY DEF IInv, TypeOK, Local, Same
<1>6. QED BY <1>1, <1>3, <1>4, <1>5, StepInv

LEMMA AnswersAreRows ==
  ASSUME NEW t \in Tasks, NEW rows \in Answers(t)
  PROVE  rows \in Seq(Row)
<1>1. PICK m \in 0..MaxRows : \E sets \in [1..m -> 1..MaxSets] :
        rows = [i \in 1..m |-> [task |-> t, n |-> i, set |-> sets[i]]]
  BY DEF Answers
<1>a. PICK sets \in [1..m -> 1..MaxSets] :
        rows = [i \in 1..m |-> [task |-> t, n |-> i, set |-> sets[i]]]
  BY <1>1
<1>2. \A i \in 1..m : [task |-> t, n |-> i, set |-> sets[i]] \in Row
  BY <1>1, StreamAssumption DEF Row
<1>3. rows \in [1..m -> Row] /\ m \in Nat
  BY <1>a, <1>2
<1>4. QED BY <1>3, SeqDef

LEMMA AskInv ==
  ASSUME IInv, NEW t \in Tasks, Ask(t)
  PROVE  IInv'
<1> USE DEF Goto, told, sink, loop
<1>1. PICK rows \in Answers(t) : answer' = [answer EXCEPT ![t] = rows] /\ wire' = rows
  BY DEF Ask
<1>2. rows \in Seq(Row)
  BY AnswersAreRows
<1>3. /\ pc[t] = "ask" /\ pc' = [pc EXCEPT ![t] = "read"]
      /\ UNCHANGED <<holder, told, sink, loop, outcome>>
  BY DEF Ask
<1>4. TypeOK' /\ pc'[t] = "read" /\ answer'[t] = rows
  BY <1>1, <1>2, <1>3 DEF IInv, TypeOK, Held
<1>5. /\ Turn(t) /\ Place(t) /\ holder = t /\ outcome[t] = "pending" /\ row[t] = <<>>
      /\ ~header[t] /\ given[t] = <<>> /\ batch[t] = <<>> /\ rowCount[t] = 0 /\ ~truncated[t]
      /\ headers[t] = <<>>
  BY <1>3 DEF IInv, Turn, Place, Held
<1>6. wire' = SubSeq(rows, 0 + 0 + 1, Len(rows)) /\ Len(<<>>) = 0
  BY <1>1, <1>2, SubSeqFull, EmptySeq
<1>7. Turn(t)'
  BY <1>3, <1>4, <1>5, <1>6 DEF Turn, Held
<1>8. Ordered(t)'
  <2>1. <<>> \o <<>> = SubSeq(rows, 1, 0)
    BY SubSeqEmpty, ConcatEmptySeq, EmptySeq
  <2>2. Len(rows) \in Nat
    BY <1>2, LenProperties
  <2>3. QED BY <1>3, <1>4, <1>5, <2>1, <2>2, StreamAssumption DEF Ordered
<1>9. Place(t)'
  BY <1>3, <1>4, <1>5 DEF Place
<1>10. Local(t)
  BY <1>1, <1>3, <1>5 DEF IInv, TypeOK, Local, Same
<1>11. QED BY <1>4, <1>7, <1>8, <1>9, <1>10, StepInv

(* The row in hand, the next of the answer, joins the batch, or finds the  *)
(* cap reached.                                                            *)
LEMMA TakeNext ==
  ASSUME TypeOK, NEW t \in Tasks, Ordered(t), rowCount[t] < Len(answer[t]),
         Take(t, answer[t][rowCount[t] + 1])
  PROVE  /\ batch' \in [Tasks -> Seq(Row)] /\ rowCount' \in [Tasks -> Nat]
         /\ truncated' \in [Tasks -> BOOLEAN]
         /\ pc' \in [Tasks -> {"wait", "done"} \cup Held]
         /\ \A u \in Tasks : u # t => /\ batch'[u] = batch[u] /\ rowCount'[u] = rowCount[u]
                                      /\ truncated'[u] = truncated[u] /\ pc'[u] = pc[u]
         /\ given[t] \o batch'[t] = SubSeq(answer[t], 1, rowCount'[t])
         /\ rowCount'[t] <= Len(answer[t]) /\ rowCount'[t] <= Cap
         /\ \/ /\ pc'[t] = "flush" /\ truncated'[t]
               /\ rowCount'[t] = Cap /\ Len(answer[t]) > Cap
            \/ /\ pc'[t] \in {"read", "send"} /\ truncated'[t] = truncated[t]
               /\ rowCount'[t] = rowCount[t] + 1
<1> USE StreamAssumption DEF Take, Goto
<1> DEFINE s == answer[t]
           n == rowCount[t]
<1>1. s \in Seq(Row) /\ given[t] \in Seq(Row) /\ batch[t] \in Seq(Row) /\ n \in Nat
  BY DEF TypeOK
<1>2. Len(s) \in Nat /\ s[n + 1] \in Row
  BY <1>1, LenProperties, ElementOfSeq
<1>3. given[t] \o batch[t] = SubSeq(s, 1, n) /\ n <= Cap
  BY DEF Ordered
<1>4. CASE n >= Cap
  <2>1. pc' = [pc EXCEPT ![t] = "flush"] /\ truncated' = [truncated EXCEPT ![t] = TRUE]
        /\ UNCHANGED <<batch, rowCount>>
    BY <1>4
  <2>2. n = Cap /\ Len(s) > Cap
    BY <1>1, <1>2, <1>3, <1>4
  <2>3. QED BY <1>1, <1>2, <1>3, <2>1, <2>2 DEF TypeOK, Held
<1>5. CASE ~(n >= Cap)
  <2>1. PICK phase \in {"read", "send"} :
          /\ pc' = [pc EXCEPT ![t] = phase] /\ UNCHANGED truncated
          /\ batch' = [batch EXCEPT ![t] = Append(@, s[n + 1])]
          /\ rowCount' = [rowCount EXCEPT ![t] = @ + 1]
    BY <1>5
  <2>2. Append(batch[t], s[n + 1]) \in Seq(Row)
    BY <1>1, <1>2, AppendProperties
  <2>3. given[t] \o Append(batch[t], s[n + 1]) = SubSeq(s, 1, n + 1)
    <3> DEFINE g == given[t]
               b == batch[t]
    <3>1. n < Len(s) /\ g \in Seq(Row) /\ b \in Seq(Row) /\ g \o b = SubSeq(s, 1, n)
      BY <1>1, <1>3
    <3> HIDE DEF s, n, g, b
    <3>2. g \o Append(b, s[n + 1]) = SubSeq(s, 1, n + 1)
      BY ONLY <1>1, <3>1, LongerBeginning
    <3>3. QED BY <3>2 DEF g, b
  <2>4. batch'[t] = Append(batch[t], s[n + 1]) /\ rowCount'[t] = n + 1
    BY <2>1 DEF TypeOK
  <2>5. rowCount'[t] <= Len(s) /\ rowCount'[t] <= Cap
    BY <1>1, <1>2, <1>5, <2>4
  <2>6. /\ batch' \in [Tasks -> Seq(Row)] /\ rowCount' \in [Tasks -> Nat]
        /\ truncated' \in [Tasks -> BOOLEAN]
        /\ pc' \in [Tasks -> {"wait", "done"} \cup Held] /\ pc'[t] = phase
    BY <2>1, <2>2 DEF TypeOK, Held
  <2>7. \A u \in Tasks : u # t => /\ batch'[u] = batch[u] /\ rowCount'[u] = rowCount[u]
                                  /\ truncated'[u] = truncated[u] /\ pc'[u] = pc[u]
    BY <2>1 DEF TypeOK
  <2>8. truncated'[t] = truncated[t] /\ given[t] \o batch'[t] = SubSeq(s, 1, rowCount'[t])
    BY <2>1, <2>3, <2>4
  <2> HIDE DEF s, n
  <2>9. QED BY <2>4, <2>5, <2>6, <2>7, <2>8 DEF s, n
<1>6. QED BY <1>4, <1>5

LEMMA ReadRowInv ==
  ASSUME IInv, NEW t \in Tasks, ReadRow(t)
  PROVE  IInv'
<1> USE StreamAssumption DEF told, sink, loop
<1> DEFINE s == answer[t]
           n == rowCount[t]
<1>1. /\ TypeOK /\ Turn(t) /\ Ordered(t) /\ Place(t)
      /\ pc[t] = "read" /\ wire # <<>> /\ wire' = Tail(wire) /\ UNCHANGED <<answer, told, sink>>
  BY DEF IInv, ReadRow
<1>2. holder = t /\ row[t] = <<>> /\ outcome[t] = "pending" /\ ~truncated[t]
  BY <1>1 DEF Turn, Place, Held
<1>3. s \in Seq(Row) /\ n \in Nat /\ wire = SubSeq(s, n + 1, Len(s)) /\ wire \in Seq(Row)
  <2>1. wire = SubSeq(s, n + Len(row[t]) + 1, Len(s)) /\ Len(row[t]) = 0 /\ n \in Nat
    BY <1>1, <1>2, EmptySeq DEF Turn, TypeOK
  <2>2. n + Len(row[t]) + 1 = n + 1
    BY <2>1
  <2>3. QED BY <1>1, <2>1, <2>2 DEF TypeOK
<1>4. n < Len(s) /\ Head(wire) = s[n + 1] /\ s[n + 1] \in Row /\ Tail(wire) = SubSeq(s, n + 2, Len(s))
  BY <1>1, <1>3, NextOfRest
<1>5. wire' \in Seq(Row) /\ Len(s) \in Nat
  BY <1>1, <1>3, HeadTailProperties, LenProperties
<1>6. CASE cancelled[t]
  <2>1. Finish(t, "cancelled") /\ UNCHANGED loop
    BY <1>6 DEF ReadRow
  <2>2. QED BY <1>1, <1>2, <1>5, <2>1, EndInv
<1>7. CASE ~cancelled[t] /\ header[t]
  <2>1. Take(t, s[n + 1]) /\ UNCHANGED <<row, holder, header, outcome>>
    BY <1>4, <1>7 DEF ReadRow
  <2>2. /\ batch' \in [Tasks -> Seq(Row)] /\ rowCount' \in [Tasks -> Nat]
        /\ truncated' \in [Tasks -> BOOLEAN]
        /\ pc' \in [Tasks -> {"wait", "done"} \cup Held]
        /\ \A u \in Tasks : u # t => /\ batch'[u] = batch[u] /\ rowCount'[u] = rowCount[u]
                                     /\ truncated'[u] = truncated[u] /\ pc'[u] = pc[u]
        /\ given[t] \o batch'[t] = SubSeq(answer[t], 1, rowCount'[t])
        /\ rowCount'[t] <= Len(answer[t]) /\ rowCount'[t] <= Cap
        /\ \/ /\ pc'[t] = "flush" /\ truncated'[t]
              /\ rowCount'[t] = Cap /\ Len(answer[t]) > Cap
           \/ /\ pc'[t] \in {"read", "send"} /\ truncated'[t] = truncated[t]
              /\ rowCount'[t] = rowCount[t] + 1
    BY <1>1, <1>4, <2>1, TakeNext
  <2>3. TypeOK'
    BY <1>1, <1>5, <2>1, <2>2 DEF TypeOK
  <2>4. Turn(t)'
    <3>1. pc'[t] \in {"read", "send", "flush"} /\ holder' = t /\ row'[t] = <<>> /\ outcome'[t] = "pending"
      BY <1>2, <2>1, <2>2
    <3>2. pc'[t] \in {"read", "send"} => rowCount'[t] + Len(row'[t]) + 1 = n + 2
      BY <1>3, <2>2, <3>1, EmptySeq
    <3>3. QED BY <1>1, <1>4, <3>1, <3>2 DEF Turn, Held
  <2>5. Ordered(t)'
    BY <1>1, <2>2 DEF Ordered
  <2>6. Place(t)'
    BY <1>1, <1>2, <1>7, <2>1, <2>2 DEF Place
  <2>7. Local(t)
    BY <1>1, <1>2, <2>1, <2>2 DEF Local, Same
  <2>8. QED BY <2>3, <2>4, <2>5, <2>6, <2>7, StepInv
<1>8. CASE ~cancelled[t] /\ ~header[t]
  <2>1. /\ row' = [row EXCEPT ![t] = <<Head(wire)>>] /\ pc' = [pc EXCEPT ![t] = "columns"]
        /\ UNCHANGED <<batch, rowCount, truncated, holder, header, outcome>>
    BY <1>8 DEF ReadRow, Goto
  <2>2. n = 0 /\ Head(wire) = s[1] /\ s[1] \in Row
    BY <1>1, <1>4, <1>8 DEF Place
  <2>3. TypeOK' /\ row'[t] = <<s[1]>> /\ pc'[t] = "columns"
    <3>1. <<s[1]>> \in Seq(Row)
      BY <2>2
    <3>2. QED BY <1>1, <1>5, <2>1, <2>2, <3>1 DEF TypeOK, Held
  <2>4. s # <<>>
    BY <1>4, <1>5, <2>2, EmptySeq
  <2>5. Turn(t)'
    <3>1. Len(row'[t]) = 1 /\ rowCount'[t] + 1 + 1 = n + 2
      BY <1>3, <2>1, <2>3
    <3>2. QED BY <1>1, <1>2, <1>4, <2>1, <2>3, <3>1 DEF Turn, Held
  <2>6. Ordered(t)'
    BY <1>1, <2>1 DEF Ordered
  <2>7. Place(t)'
    BY <1>1, <1>2, <1>8, <2>1, <2>3, <2>4 DEF Place
  <2>8. Local(t)
    BY <1>1, <1>2, <2>1 DEF TypeOK, Local, Same
  <2>9. QED BY <2>3, <2>5, <2>6, <2>7, <2>8, StepInv
<1>9. QED BY <1>6, <1>7, <1>8

(* A header comes once, before or after all rows.                          *)
LEMMA OneHeader ==
  ASSUME TypeOK, NEW t \in Tasks, NEW set \in 0..MaxSets, GiveHeader(t, set), headers[t] = <<>>
  PROVE  /\ headers' \in [Tasks -> Seq(Header)] /\ \A u \in Tasks : u # t => headers'[u] = headers[u]
         /\ headers'[t] = <<[set |-> set, after |-> Len(given[t])]>> /\ Len(headers'[t]) = 1
<1>1. given[t] \in Seq(Row) /\ headers \in [Tasks -> Seq(Header)]
  BY DEF TypeOK
<1>2. Len(given[t]) \in Nat
  BY <1>1, LenProperties
<1> DEFINE first == [set |-> set, after |-> Len(given[t])]
<1>3. first \in Header
  BY <1>2 DEF Header
<1> HIDE DEF first
<1>4. headers' = [headers EXCEPT ![t] = Append(@, first)]
  BY DEF GiveHeader, first
<1>5. Append(<<>>, first) = <<first>> /\ <<first>> \in Seq(Header) /\ Len(<<first>>) = 1
  BY <1>3
<1>6. headers'[t] = <<first>> /\ headers' \in [Tasks -> Seq(Header)]
  BY <1>1, <1>4, <1>5
<1>7. QED BY <1>1, <1>4, <1>5, <1>6 DEF first

LEMMA SendColumnsInv ==
  ASSUME IInv, NEW t \in Tasks, SendColumns(t)
  PROVE  IInv'
<1> USE StreamAssumption DEF told
<1> DEFINE s == answer[t]
           n == rowCount[t]
<1>1. /\ TypeOK /\ Turn(t) /\ Ordered(t) /\ Place(t)
      /\ pc[t] = "columns" /\ UNCHANGED <<holder, wire, answer, told, outcome>>
  BY DEF IInv, SendColumns
<1>2. /\ holder = t /\ outcome[t] = "pending" /\ ~header[t] /\ ~truncated[t]
      /\ n = 0 /\ given[t] = <<>> /\ headers[t] = <<>>
      /\ s # <<>> /\ row[t] = <<s[1]>> /\ Len(row[t]) = 1
      /\ wire = SubSeq(s, n + Len(row[t]) + 1, Len(s))
  BY <1>1 DEF Turn, Place, Held
<1>3. s \in Seq(Row) /\ row[t] \in Seq(Row) /\ Len(s) \in Nat
  BY <1>1, LenProperties DEF TypeOK
<1>4. row[t][1] \in Row /\ row[t][1] = s[1] /\ n < Len(s) /\ n + 1 = 1
  <2>1. Len(s) >= 1
    BY <1>2, <1>3, EmptySeq
  <2>2. s[1] \in Row
    BY <1>3, <2>1, ElementOfSeq
  <2>3. QED BY <1>2, <1>3, <2>1, <2>2
<1>5. /\ GiveHeader(t, s[1].set) /\ Take(t, s[n + 1]) /\ UNCHANGED given
      /\ header' = [header EXCEPT ![t] = TRUE] /\ row' = [row EXCEPT ![t] = <<>>]
  BY <1>4 DEF SendColumns, GiveHeader
<1>6. s[1].set \in 0..MaxSets
  BY <1>4 DEF Row
<1>7. /\ headers' \in [Tasks -> Seq(Header)] /\ \A u \in Tasks : u # t => headers'[u] = headers[u]
      /\ headers'[t] = <<[set |-> s[1].set, after |-> 0]>>
  BY <1>1, <1>2, <1>5, <1>6, OneHeader, EmptySeq
<1>8. /\ batch' \in [Tasks -> Seq(Row)] /\ rowCount' \in [Tasks -> Nat]
      /\ truncated' \in [Tasks -> BOOLEAN]
      /\ pc' \in [Tasks -> {"wait", "done"} \cup Held]
      /\ \A u \in Tasks : u # t => /\ batch'[u] = batch[u] /\ rowCount'[u] = rowCount[u]
                                   /\ truncated'[u] = truncated[u] /\ pc'[u] = pc[u]
      /\ given[t] \o batch'[t] = SubSeq(answer[t], 1, rowCount'[t])
      /\ rowCount'[t] <= Len(answer[t]) /\ rowCount'[t] <= Cap
      /\ \/ /\ pc'[t] = "flush" /\ truncated'[t]
            /\ rowCount'[t] = Cap /\ Len(answer[t]) > Cap
         \/ /\ pc'[t] \in {"read", "send"} /\ truncated'[t] = truncated[t]
            /\ rowCount'[t] = rowCount[t] + 1
  BY <1>1, <1>4, <1>5, TakeNext
<1>9. TypeOK' /\ header'[t] /\ row'[t] = <<>>
  BY <1>1, <1>5, <1>7, <1>8, EmptySeq DEF TypeOK
<1>10. Turn(t)'
  <2>1. pc'[t] \in {"read", "send", "flush"} /\ holder' = t /\ outcome'[t] = "pending"
    BY <1>1, <1>2, <1>8
  <2>2. pc'[t] \in {"read", "send"} => rowCount'[t] + Len(row'[t]) + 1 = n + Len(row[t]) + 1
    BY <1>2, <1>8, <1>9, EmptySeq
  <2>3. QED BY <1>1, <1>2, <1>9, <2>1, <2>2 DEF Turn, Held
<1>11. Ordered(t)'
  BY <1>1, <1>5, <1>8 DEF Ordered
<1>12. Place(t)'
  <2>1. s # <<>> /\ outcome'[t] = "pending"
    BY <1>1, <1>2, <1>4, EmptySeq
  <2>2. QED BY <1>1, <1>2, <1>7, <1>8, <1>9, <2>1 DEF Place
<1>13. Local(t)
  BY <1>1, <1>2, <1>5, <1>7, <1>8 DEF TypeOK, Local, Same
<1>14. QED BY <1>9, <1>10, <1>11, <1>12, <1>13, StepInv

(* Handing over the batch changes neither the rows nor their number.       *)
LEMMA BatchGiven ==
  ASSUME TypeOK, NEW t \in Tasks, GiveBatch(t)
  PROVE  /\ given' \in [Tasks -> Seq(Row)] /\ batch' \in [Tasks -> Seq(Row)]
         /\ batch'[t] = <<>> /\ given'[t] = given[t] \o batch[t]
         /\ given'[t] \o batch'[t] = given[t] \o batch[t]
         /\ given[t] = <<>> /\ batch[t] = <<>> => given'[t] = <<>>
         /\ \A u \in Tasks : u # t => given'[u] = given[u] /\ batch'[u] = batch[u]
<1> DEFINE all == given[t] \o batch[t]
<1>1. given[t] \in Seq(Row) /\ batch[t] \in Seq(Row)
  BY DEF TypeOK
<1>2. all \in Seq(Row) /\ <<>> \in Seq(Row)
  BY <1>1, ConcatProperties
<1>3. all \o <<>> = all
  BY <1>2, ConcatEmptySeq
<1>4. given[t] = <<>> /\ batch[t] = <<>> => all = <<>>
  BY <1>2, ConcatEmptySeq
<1>5. given' = [given EXCEPT ![t] = all] /\ batch' = [batch EXCEPT ![t] = <<>>]
  BY DEF GiveBatch
<1> HIDE DEF all
<1>6. /\ given' \in [Tasks -> Seq(Row)] /\ batch' \in [Tasks -> Seq(Row)]
      /\ given'[t] = all /\ batch'[t] = <<>>
      /\ \A u \in Tasks : u # t => given'[u] = given[u] /\ batch'[u] = batch[u]
  BY <1>2, <1>5 DEF TypeOK
<1>7. QED BY <1>3, <1>4, <1>6 DEF all

LEMMA SendBatchInv ==
  ASSUME IInv, NEW t \in Tasks, SendBatch(t)
  PROVE  IInv'
<1> USE StreamAssumption DEF told
<1>1. /\ TypeOK /\ Turn(t) /\ Ordered(t) /\ Place(t) /\ pc[t] = "send" /\ GiveBatch(t)
      /\ pc' = [pc EXCEPT ![t] = "read"] /\ headers' = headers
      /\ UNCHANGED <<holder, wire, answer, told, header, rowCount, truncated, row, outcome>>
  BY DEF IInv, SendBatch, GiveBatch, Goto
<1>2. /\ given' \in [Tasks -> Seq(Row)] /\ batch' \in [Tasks -> Seq(Row)]
      /\ given'[t] \o batch'[t] = given[t] \o batch[t] /\ batch'[t] = <<>>
      /\ given[t] = <<>> /\ batch[t] = <<>> => given'[t] = <<>>
      /\ \A u \in Tasks : u # t => given'[u] = given[u] /\ batch'[u] = batch[u]
  BY <1>1, BatchGiven
<1>3. TypeOK' /\ pc'[t] = "read"
  BY <1>1, <1>2 DEF TypeOK, Held
<1>4. Turn(t)'
  BY <1>1, <1>3 DEF Turn, Held
<1>5. Ordered(t)'
  BY <1>1, <1>2 DEF Ordered
<1>6. Place(t)'
  BY <1>1, <1>2, <1>3 DEF Turn, Place
<1>7. Local(t)
  BY <1>1, <1>2 DEF TypeOK, Local, Same
<1>8. QED BY <1>3, <1>4, <1>5, <1>6, <1>7, StepInv

LEMMA EndOfAnswerInv ==
  ASSUME IInv, NEW t \in Tasks, EndOfAnswer(t)
  PROVE  IInv'
<1> USE StreamAssumption DEF told, sink, loop
<1> DEFINE s == answer[t]
           n == rowCount[t]
<1>1. /\ TypeOK /\ Turn(t) /\ Ordered(t) /\ Place(t) /\ pc[t] = "read" /\ wire = <<>>
      /\ pc' = [pc EXCEPT ![t] = "flush"]
      /\ UNCHANGED <<holder, wire, answer, told, sink, loop, outcome>>
  BY DEF IInv, EndOfAnswer, Goto
<1>2. /\ row[t] = <<>> /\ n <= Len(s) /\ n \in Nat /\ s \in Seq(Row)
      /\ <<>> = SubSeq(s, n + Len(row[t]) + 1, Len(s))
  BY <1>1 DEF Turn, Ordered, TypeOK
<1>3. Len(s) \in Nat /\ n + Len(row[t]) + 1 = n + 1
  BY <1>2, LenProperties, EmptySeq
<1>4. n = Len(s)
  <2> SUFFICES ASSUME n < Len(s) PROVE FALSE
    BY <1>2, <1>3
  <2>1. n + 1 \in 1..Len(s) /\ n + 1 <= Len(s)
    BY <1>2, <1>3
  <2>2. \A i \in n + 1..Len(s) : s[i] \in Row
    BY <1>2, <1>3, ElementOfSeq
  <2>3. Len(SubSeq(s, n + 1, Len(s))) = Len(s) - (n + 1) + 1
    BY <1>2, <1>3, <2>1, <2>2, SubSeqProperties
  <2>4. SubSeq(s, n + 1, Len(s)) = <<>>
    BY <1>2, <1>3
  <2>5. Len(SubSeq(s, n + 1, Len(s))) = 0
    BY <2>4, EmptySeq
  <2> HIDE DEF s, n
  <2>6. QED BY <1>2, <1>3, <2>1, <2>3, <2>5
<1>5. TypeOK' /\ pc'[t] = "flush"
  BY <1>1 DEF TypeOK, Held
<1>6. Turn(t)'
  BY <1>1, <1>5 DEF Turn, Held
<1>7. Ordered(t)' /\ Place(t)'
  BY <1>1, <1>4, <1>5 DEF Turn, Ordered, Place
<1>8. Local(t)
  BY <1>1 DEF TypeOK, Local, Same
<1>9. QED BY <1>5, <1>6, <1>7, <1>8, StepInv

LEMMA FlushInv ==
  ASSUME IInv, NEW t \in Tasks, Flush(t)
  PROVE  IInv'
<1> USE StreamAssumption DEF told
<1>1. /\ TypeOK /\ Turn(t) /\ Ordered(t) /\ Place(t) /\ pc[t] = "flush" /\ GiveBatch(t)
      /\ headers' = headers /\ UNCHANGED <<wire, answer, told, header, rowCount, truncated, row>>
  BY DEF IInv, Flush, GiveBatch
<1>2. /\ given' \in [Tasks -> Seq(Row)] /\ batch' \in [Tasks -> Seq(Row)]
      /\ given'[t] \o batch'[t] = given[t] \o batch[t] /\ batch'[t] = <<>>
      /\ given[t] = <<>> /\ batch[t] = <<>> => given'[t] = <<>>
      /\ \A u \in Tasks : u # t => given'[u] = given[u] /\ batch'[u] = batch[u]
  BY <1>1, BatchGiven
<1>3. holder = t /\ outcome[t] = "pending" /\ row[t] = <<>>
  BY <1>1 DEF Turn, Held
<1>4. Ordered(t)'
  BY <1>1, <1>2 DEF Ordered
<1>5. CASE header[t]
  <2>1. /\ pc' = [pc EXCEPT ![t] = "done"] /\ outcome' = [outcome EXCEPT ![t] = "ok"]
        /\ holder' = None
    BY <1>3, <1>5 DEF Flush, Finish, Goto
  <2>2. TypeOK' /\ pc'[t] = "done" /\ outcome'[t] = "ok"
    BY <1>1, <1>2, <2>1 DEF TypeOK, Held
  <2>3. Turn(t)'
    BY <2>1, <2>2 DEF Turn, Held
  <2>4. Len(headers[t]) = 1
    <3>1. PICK h : headers[t] = <<h>>
      BY <1>1, <1>5 DEF Place
    <3>2. QED BY <3>1
  <2>5. Place(t)'
    BY <1>1, <1>2, <1>5, <2>2, <2>4 DEF Place
  <2>6. Local(t)
    BY <1>1, <1>2, <1>3, <2>1 DEF TypeOK, Local, Same
  <2>7. QED BY <1>4, <2>2, <2>3, <2>5, <2>6, StepInv
<1>6. CASE ~header[t]
  <2>1. pc' = [pc EXCEPT ![t] = "late"] /\ UNCHANGED <<holder, outcome>>
    BY <1>6 DEF Flush, Goto
  <2>2. TypeOK' /\ pc'[t] = "late"
    BY <1>1, <1>2, <2>1 DEF TypeOK, Held
  <2>3. Turn(t)'
    BY <1>1, <2>1, <2>2 DEF Turn, Held
  <2>4. Place(t)'
    BY <1>1, <1>2, <1>3, <1>6, <2>1, <2>2 DEF Place
  <2>5. Local(t)
    BY <1>1, <1>2, <2>1 DEF TypeOK, Local, Same
  <2>6. QED BY <1>4, <2>2, <2>3, <2>4, <2>5, StepInv
<1>7. QED BY <1>5, <1>6

LEMMA LateHeaderInv ==
  ASSUME IInv, NEW t \in Tasks, LateHeader(t)
  PROVE  IInv'
<1> USE StreamAssumption DEF told, loop
<1>1. /\ TypeOK /\ Turn(t) /\ Ordered(t) /\ Place(t) /\ pc[t] = "late" /\ GiveHeader(t, 0)
      /\ Finish(t, "ok") /\ UNCHANGED <<wire, answer, told, loop, given>>
  BY DEF IInv, LateHeader, GiveHeader
<1>2. holder = t /\ outcome[t] = "pending" /\ row[t] = <<>> /\ ~header[t] /\ headers[t] = <<>>
  BY <1>1 DEF Turn, Place, Held
<1>3. /\ headers' \in [Tasks -> Seq(Header)] /\ Len(headers'[t]) = 1
      /\ \A u \in Tasks : u # t => headers'[u] = headers[u]
  <2>1. 0 \in 0..MaxSets
    BY StreamAssumption
  <2>2. QED BY <1>1, <1>2, <2>1, OneHeader
<1>4. /\ pc' = [pc EXCEPT ![t] = "done"] /\ outcome' = [outcome EXCEPT ![t] = "ok"]
      /\ holder' = None
  BY <1>1, <1>2 DEF Finish, Goto
<1>5. TypeOK' /\ pc'[t] = "done" /\ outcome'[t] = "ok"
  BY <1>1, <1>3, <1>4 DEF TypeOK, Held
<1>6. Turn(t)'
  BY <1>4, <1>5 DEF Turn, Held
<1>7. Ordered(t)' /\ Place(t)'
  BY <1>1, <1>2, <1>3, <1>5 DEF Ordered, Place
<1>8. Local(t)
  BY <1>1, <1>2, <1>3, <1>4 DEF TypeOK, Local, Same
<1>9. QED BY <1>5, <1>6, <1>7, <1>8, StepInv

LEMMA FailInv ==
  ASSUME IInv, NEW t \in Tasks, AnswerFails(t) \/ SinkClosed(t) \/ Dropped(t)
  PROVE  IInv'
<1>1. pc[t] # "done" /\ Finish(t, "failed") /\ UNCHANGED <<answer, told, sink, loop>>
  BY DEF AnswerFails, SinkClosed, Dropped
<1>2. wire' \in Seq(Row) /\ (holder = t \/ UNCHANGED wire)
  BY EmptySeq DEF IInv, TypeOK, Turn, Held, AnswerFails, SinkClosed, Dropped
<1>3. QED BY <1>1, <1>2, EndInv

LEMMA NextInv == IInv /\ [Next]_vars => IInv'
<1>1. ASSUME IInv, Next
      PROVE  IInv'
  BY <1>1, TellInv, AcquireInv, AskInv, ReadRowInv, SendColumnsInv, SendBatchInv, EndOfAnswerInv,
     FlushInv, LateHeaderInv, FailInv DEF Next, Task
<1>2. ASSUME IInv, UNCHANGED vars
      PROVE  IInv'
  BY <1>2 DEF vars, told, sink, loop, IInv, TypeOK, Turn, Ordered, Place
<1>3. QED BY <1>1, <1>2

-----------------------------------------------------------------------------

(* The session of a stream is its own while it reads, what it has not read *)
(* is the rest of its answer, and it takes rows only under its header      *)
(* (stream_query, mssql.rs).                                               *)
THEOREM StreamsAreSound == Spec => []IInv
<1>1. QED BY InitInv, NextInv, PTL DEF Spec

(* Whatever other streams leave on the session's wire, the rows a sink has *)
(* been given and those still in the batch are the beginning of the        *)
(* stream's own answer, and never more than the cap (stream_query,         *)
(* mssql.rs).                                                              *)
THEOREM SinksGetTheirRows == Spec => []OwnRowsInOrder
<1>1. IInv => OwnRowsInOrder
  BY DEF IInv, OwnRowsInOrder
<1>2. QED BY <1>1, StreamsAreSound, PTL

(* A stream that returns Ok has given its sink the whole answer, or the    *)
(* cap's worth of a longer one, and says truncated in that case only       *)
(* (stream_query, mssql.rs).                                               *)
THEOREM OkMeansAll == Spec => []OkIsComplete
<1>1. IInv => OkIsComplete
  <2> SUFFICES ASSUME IInv, NEW t \in Tasks, outcome[t] = "ok"
               PROVE  /\ given[t] = IF Len(answer[t]) > Cap THEN SubSeq(answer[t], 1, Cap)
                                                            ELSE answer[t]
                      /\ rowCount[t] = Len(given[t])
                      /\ truncated[t] <=> Len(answer[t]) > Cap
    BY DEF OkIsComplete
  <2> DEFINE s == answer[t]
             n == rowCount[t]
  <2>1. TypeOK /\ Ordered(t) /\ Place(t) /\ batch[t] = <<>>
    BY DEF IInv, Place
  <2>2. /\ s \in Seq(Row) /\ given[t] \in Seq(Row) /\ n \in Nat /\ n <= Len(s) /\ n <= Cap
        /\ given[t] \o <<>> = SubSeq(s, 1, n) /\ Cap \in Nat
    BY <2>1, StreamAssumption DEF TypeOK, Ordered
  <2>3. given[t] = SubSeq(s, 1, n)
    BY <2>2, ConcatEmptySeq
  <2>4. Len(s) \in Nat /\ Len(SubSeq(s, 1, n)) = n /\ SubSeq(s, 1, Len(s)) = s
    <3>1. Len(s) \in Nat
      BY <2>2, LenProperties
    <3>2. \A i \in 1..n : s[i] \in Row
      BY <2>2, <3>1, ElementOfSeq
    <3>3. QED BY <2>2, <3>1, <3>2, SubSeqProperties, SubSeqFull
  <2>5. /\ truncated[t] => n = Cap /\ Len(s) > Cap
        /\ truncated[t] \/ n = Len(s)
    BY <2>1 DEF Place
  <2>6. CASE truncated[t]
    BY <2>2, <2>3, <2>4, <2>5, <2>6
  <2>7. CASE ~truncated[t]
    BY <2>2, <2>3, <2>4, <2>5, <2>7
  <2>8. QED BY <2>6, <2>7
<1>2. QED BY <1>1, StreamsAreSound, PTL

(* A sink is given at most one header, exactly one in a stream that        *)
(* returns Ok, and before the first row: the columns of that row           *)
(* (stream_query, mssql.rs).                                               *)
THEOREM HeaderComesFirst == Spec => []HeaderBeforeRows
<1>1. IInv => HeaderBeforeRows
  <2> SUFFICES ASSUME IInv, NEW t \in Tasks
               PROVE  /\ given[t] # <<>> => headers[t] = <<[set |-> answer[t][1].set, after |-> 0]>>
                      /\ Len(headers[t]) <= 1
                      /\ outcome[t] = "ok" => Len(headers[t]) = 1
    BY DEF HeaderBeforeRows
  <2>1. Place(t)
    BY DEF IInv
  <2>2. CASE header[t]
    <3>1. PICK h : headers[t] = <<h>>
      BY <2>1, <2>2 DEF Place
    <3>2. QED BY <2>1, <2>2, <3>1 DEF Place
  <2>3. CASE ~header[t]
    <3>1. Len(<<>>) = 0
      OBVIOUS
    <3>2. given[t] = <<>> /\ Len(headers[t]) \in {0, 1} /\ (outcome[t] = "ok" => Len(headers[t]) = 1)
      BY <2>1, <2>3, <3>1 DEF Place
    <3>3. \A m \in {0, 1} : m <= 1
      OBVIOUS
    <3>4. Len(headers[t]) <= 1
      BY ONLY <3>2, <3>3
    <3>5. QED BY <3>2, <3>4
  <2>4. QED BY <2>2, <2>3
<1>2. QED BY <1>1, StreamsAreSound, PTL

(* Once its token is cancelled a stream takes no further row into its      *)
(* batch, save the one it read before and holds while the header goes out  *)
(* (ctx.token.is_cancelled() in stream_query, mssql.rs).                   *)
THEOREM CancelIsFinal == Spec => CancelStopsTaking
<1>1. IInv /\ [Next]_vars =>
        [\A t \in Tasks : cancelled[t] /\ rowCount'[t] # rowCount[t] => row[t] # <<>>]_vars
  <2> SUFFICES ASSUME IInv, Next, NEW u \in Tasks, cancelled[u], rowCount'[u] # rowCount[u]
               PROVE  row[u] # <<>>
    OBVIOUS
  <2>1. PICK t \in Tasks : Task(t) \/ Cancel(t) \/ StopListening(t) \/ Dropped(t)
    BY DEF Next
  <2>2. ReadRow(t) \/ SendColumns(t)
    BY <2>1 DEF Task, Acquire, Ask, AnswerFails, SendBatch, EndOfAnswer, Flush, LateHeader,
       SinkClosed, Cancel, StopListening, Dropped, told, sink, loop
  <2>3. u = t
    <3>1. UNCHANGED rowCount \/ rowCount' = [rowCount EXCEPT ![t] = @ + 1]
      BY <2>2 DEF ReadRow, SendColumns, Take, loop
    <3>2. QED BY <3>1 DEF IInv, TypeOK
  <2>4. ~ReadRow(t)
    BY <2>3 DEF ReadRow, loop
  <2>5. Len(row[t]) = 1
    BY <2>2, <2>4 DEF SendColumns, IInv, Turn
  <2>6. QED BY <2>3, <2>5, EmptySeq
<1>2. QED BY <1>1, StreamsAreSound, PTL DEF Spec, CancelStopsTaking
=============================================================================
