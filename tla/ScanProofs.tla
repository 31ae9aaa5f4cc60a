----------------------------- MODULE ScanProofs -----------------------------
(***************************************************************************)
(* For any number of objects, any definitions and any DDL beside the scan, *)
(* MetadataScan reports an object that nobody touches exactly, and one     *)
(* that changes in whole parts.                                            *)
(***************************************************************************)
EXTENDS MetadataScan, SequenceLemmas

-----------------------------------------------------------------------------
(* The rows of an answer, one after the other.                             *)

(* after[i] is the state after the first i rows, for i up to n.            *)
Folds(after, query, s, rows, n) ==
  after = [i \in 0..n |-> IF i = 0 THEN s ELSE AddRow(query, after[i - 1], rows[i])]

LEMMA FoldExists ==
  ASSUME NEW query, NEW s, NEW rows, NEW n \in Nat
  PROVE  \E after : Folds(after, query, s, rows, n)
<1> DEFINE S == {k \in Nat : \E after : Folds(after, query, s, rows, k)}
<1>1. 0 \in S
  <2> DEFINE f == [i \in 0..0 |-> s]
  <2>1. f = [i \in 0..0 |-> IF i = 0 THEN s ELSE AddRow(query, f[i - 1], rows[i])]
    OBVIOUS
  <2> HIDE DEF f
  <2>2. Folds(f, query, s, rows, 0)
    BY <2>1 DEF Folds
  <2>3. QED BY <2>2
<1>2. ASSUME NEW k \in Nat, k \in S PROVE k + 1 \in S
  <2>1. PICK f : f = [i \in 0..k |-> IF i = 0 THEN s ELSE AddRow(query, f[i - 1], rows[i])]
    BY <1>2 DEF Folds
  <2> DEFINE g == [i \in 0..(k + 1) |-> IF i = 0 THEN s ELSE AddRow(query, f[i - 1], rows[i])]
  <2>2. ASSUME NEW i \in 0..k PROVE g[i] = f[i]
    <3>1. i \in 0..(k + 1)
      OBVIOUS
    <3>2. g[i] = IF i = 0 THEN s ELSE AddRow(query, f[i - 1], rows[i])
      BY <3>1
    <3>3. f[i] = IF i = 0 THEN s ELSE AddRow(query, f[i - 1], rows[i])
      BY <2>1, Zenon
    <3>4. QED BY <3>2, <3>3
  <2>3. ASSUME NEW i \in 0..(k + 1), i # 0 PROVE g[i - 1] = f[i - 1]
    <3>1. i - 1 \in 0..k
      BY <2>3
    <3>2. QED BY <3>1, <2>2
  <2>4. g = [i \in 0..(k + 1) |-> IF i = 0 THEN s ELSE AddRow(query, g[i - 1], rows[i])]
    <3> DEFINE h == [i \in 0..(k + 1) |-> IF i = 0 THEN s ELSE AddRow(query, g[i - 1], rows[i])]
    <3>1. ASSUME NEW i \in 0..(k + 1) PROVE g[i] = h[i]
      <4>1. CASE i = 0
        BY <4>1
      <4>2. CASE i # 0
        <5>1. g[i - 1] = f[i - 1]
          BY <4>2, <2>3
        <5>2. g[i] = AddRow(query, f[i - 1], rows[i])
          BY <4>2
        <5>3. h[i] = AddRow(query, g[i - 1], rows[i])
          BY <4>2, Zenon
        <5> HIDE DEF g, h
        <5>4. QED BY <5>1, <5>2, <5>3
      <4>3. QED BY <4>1, <4>2
    <3>2. QED BY <3>1, Zenon
  <2> HIDE DEF g
  <2>5. Folds(g, query, s, rows, k + 1)
    BY <2>4 DEF Folds
  <2>6. QED BY <2>5
<1> HIDE DEF S
<1>3. Nat \subseteq S
  BY <1>1, <1>2, SetInduction
<1>4. QED BY <1>3 DEF S

(* The states between two rows, from s on.                                 *)
Trace(after, query, s, rows, n) ==
  /\ after[0] = s
  /\ \A i \in 1..n : after[i] = AddRow(query, after[i - 1], rows[i])

LEMMA FoldTrace ==
  ASSUME NEW query, NEW s, NEW rows, Len(rows) \in Nat
  PROVE  \E after : /\ Trace(after, query, s, rows, Len(rows))
                    /\ Fold(query, s, rows) = after[Len(rows)]
<1> DEFINE F == CHOOSE after : Folds(after, query, s, rows, Len(rows))
<1>1. Folds(F, query, s, rows, Len(rows))
  BY FoldExists
<1>2. Fold(query, s, rows) = F[Len(rows)]
  BY DEF Fold, Folds
<1> HIDE DEF F
<1>3. \A i \in 0..Len(rows) : F[i] = IF i = 0 THEN s ELSE AddRow(query, F[i - 1], rows[i])
  BY <1>1, Zenon DEF Folds
<1>4. 0 \in 0..Len(rows) /\ \A i \in 1..Len(rows) : i \in 0..Len(rows) /\ i # 0
  OBVIOUS
<1>5. Trace(F, query, s, rows, Len(rows))
  BY <1>3, <1>4, Zenon DEF Trace
<1>6. QED BY <1>2, <1>5, Zenon

(* Two that go the same way arrive at the same place.                      *)
LEMMA TracesMeet ==
  ASSUME NEW query, NEW n \in Nat, NEW s, NEW rows, NEW f, NEW g,
         Trace(f, query, s, rows, n), Trace(g, query, s, rows, n)
  PROVE  f[n] = g[n]
<1> DEFINE S == {i \in Nat : i <= n => f[i] = g[i]}
<1>1. 0 \in S
  BY DEF Trace
<1>2. ASSUME NEW i \in Nat, i \in S PROVE i + 1 \in S
  <2>1. SUFFICES ASSUME i + 1 <= n PROVE f[i + 1] = g[i + 1]
    OBVIOUS
  <2>2. f[i] = g[i] /\ i + 1 \in 1..n /\ (i + 1) - 1 = i
    BY <1>2, <2>1
  <2> HIDE DEF S
  <2>3. f[i + 1] = AddRow(query, f[(i + 1) - 1], rows[i + 1])
    BY <2>2, Zenon DEF Trace
  <2>4. g[i + 1] = AddRow(query, g[(i + 1) - 1], rows[i + 1])
    BY <2>2, Zenon DEF Trace
  <2>5. QED BY <2>2, <2>3, <2>4
<1> HIDE DEF S
<1>3. n \in S
  BY <1>1, <1>2, SetInduction
<1>4. QED BY <1>3 DEF S

LEMMA FoldEmpty ==
  ASSUME NEW query, NEW s
  PROVE  Fold(query, s, <<>>) = s
<1>1. Len(<<>>) = 0 /\ Len(<<>>) \in Nat
  OBVIOUS
<1>2. QED BY <1>1, FoldTrace DEF Trace

LEMMA FoldConcat ==
  ASSUME NEW query, NEW s, NEW T, NEW a \in Seq(T), NEW b \in Seq(T)
  PROVE  Fold(query, s, a \o b) = Fold(query, Fold(query, s, a), b)
<1>0. SUFFICES ASSUME NEW all, all = a \o b, NEW m, m = Len(a), NEW n, n = Len(b)
               PROVE  Fold(query, s, all) = Fold(query, Fold(query, s, a), b)
  OBVIOUS
<1>1. /\ m \in Nat /\ n \in Nat /\ Len(all) = m + n /\ m + n \in Nat
      /\ \A i \in 1..m : i \in 1..m + n /\ all[i] = a[i]
      /\ \A i \in 1..n : m + i \in 1..m + n /\ all[m + i] = b[i]
  <2>1. m \in Nat /\ n \in Nat
    BY <1>0, LenProperties
  <2>2. /\ Len(all) = m + n
        /\ \A i \in 1..m + n : all[i] = IF i <= m THEN a[i] ELSE b[i - m]
    BY <1>0, ConcatProperties
  <2>3. QED BY <2>1, <2>2
<1>2. PICK f : Trace(f, query, s, all, m + n) /\ Fold(query, s, all) = f[m + n]
  <2>1. Len(all) \in Nat /\ Len(all) = m + n
    BY <1>1
  <2>2. QED BY ONLY <2>1, FoldTrace
<1>3. PICK g : Trace(g, query, s, a, m) /\ Fold(query, s, a) = g[m]
  <2>1. Len(a) \in Nat /\ Len(a) = m
    BY <1>0, <1>1
  <2>2. QED BY ONLY <2>1, FoldTrace
<1>4. PICK h : Trace(h, query, g[m], b, n) /\ Fold(query, g[m], b) = h[n]
  <2>1. Len(b) \in Nat /\ Len(b) = n
    BY <1>0, <1>1
  <2>2. QED BY ONLY <2>1, FoldTrace
<1>5. f[m] = g[m]
  <2>1. Trace(f, query, s, a, m)
    BY <1>1, <1>2 DEF Trace
  <2>2. QED BY ONLY <1>1, <1>3, <2>1, TracesMeet
<1>6. f[m + n] = h[n]
  <2>1. PICK k : k = [i \in 0..n |-> f[m + i]]
    OBVIOUS
  <2>2. k[0] = g[m] /\ k[n] = f[m + n]
    BY <1>1, <1>5, <2>1
  <2>3. ASSUME NEW i \in 1..n PROVE k[i] = AddRow(query, k[i - 1], b[i])
    <3>1. /\ m + i \in 1..m + n /\ all[m + i] = b[i] /\ (m + i) - 1 = m + (i - 1)
          /\ k[i] = f[m + i] /\ k[i - 1] = f[m + (i - 1)]
      BY <1>1, <2>1
    <3>2. f[m + i] = AddRow(query, f[(m + i) - 1], all[m + i])
      BY <1>2, <3>1, Zenon DEF Trace
    <3>3. QED BY <3>1, <3>2
  <2>4. Trace(k, query, g[m], b, n)
    BY <2>2, <2>3 DEF Trace
  <2>5. k[n] = h[n]
    BY ONLY <1>1, <1>4, <2>4, TracesMeet
  <2>6. QED BY <2>2, <2>5
<1>7. QED BY <1>2, <1>3, <1>4, <1>6

(* The rows of a query come name by name: the states between two names.    *)
Stages(after, query, s, blocks, n) ==
  /\ after[0] = s
  /\ \A k \in 1..n : after[k] = Fold(query, after[k - 1], blocks[k])

LEMMA FoldStages ==
  ASSUME NEW query, NEW s, NEW T, NEW blocks \in Seq(Seq(T))
  PROVE  \E after : /\ Stages(after, query, s, blocks, Len(blocks))
                    /\ Fold(query, s, FlattenSeq(blocks)) = after[Len(blocks)]
<1> DEFINE n == Len(blocks)
<1>1. n \in Nat /\ \A k \in 1..n : blocks[k] \in Seq(T)
  BY LenProperties, ElementOfSeq
<1>2. CASE n = 0
  <2>1. blocks = <<>>
    BY <1>2, EmptySeq
  <2>2. FlattenSeq(blocks) = <<>>
    BY <2>1 DEF FlattenSeq
  <2> DEFINE f == [k \in {0} |-> s]
  <2>3. Stages(f, query, s, blocks, n) /\ Fold(query, s, FlattenSeq(blocks)) = f[n]
    BY <1>2, <2>2, FoldEmpty DEF Stages
  <2> HIDE DEF f
  <2>4. QED BY <2>3
<1>3. CASE n # 0
  <2>1. PICK f : Flattens(f, blocks, n) /\ FlattenSeq(blocks) = f[n]
    BY <1>1, <1>3, FlattenIsLast
  <2>2. /\ f[1] = blocks[1]
        /\ \A i \in 1..n : i # 1 => i - 1 \in 1..n /\ f[i] = f[i - 1] \o blocks[i]
    <3>1. n \in Nat /\ Flattens(f, blocks, n)
      BY <1>1, <2>1
    <3>2. /\ n > 0 => f[1] = blocks[1]
          /\ \A i \in 1..n : i # 1 => i - 1 \in 1..n /\ f[i] = f[i - 1] \o blocks[i]
      BY ONLY <3>1, FlattenSteps, Zenon
    <3>3. n > 0
      BY <1>1, <1>3
    <3>4. QED BY <3>2, <3>3, Zenon
  <2> DEFINE S == {i \in 1..n : f[i] \in Seq(T)}
             g == [k \in 0..n |-> IF k = 0 THEN s ELSE Fold(query, s, f[k])]
  <2> HIDE DEF n
  <2>3. 1..n \subseteq S
    <3>1. 1 \in S
      BY <1>1, <1>3, <2>2
    <3>2. ASSUME NEW i \in 1..n, i # 1, i - 1 \in S PROVE i \in S
      <4>1. f[i] = f[i - 1] \o blocks[i] /\ f[i - 1] \in Seq(T) /\ blocks[i] \in Seq(T)
        BY <1>1, <2>2, <3>2
      <4>2. f[i] \in Seq(T)
        BY <4>1, ConcatProperties
      <4>3. QED BY <4>2
    <3> HIDE DEF S
    <3>3. QED BY <1>1, <3>1, <3>2, Upwards
  <2>4. ASSUME NEW k \in 1..n PROVE g[k] = Fold(query, g[k - 1], blocks[k])
    <3>1. k \in 0..n /\ k # 0 /\ g[k] = Fold(query, s, f[k])
      BY <1>1
    <3>2. CASE k = 1
      <4>1. g[k - 1] = s /\ f[k] = blocks[k]
        BY <1>1, <2>2, <3>2
      <4> HIDE DEF g
      <4>2. QED BY <3>1, <4>1
    <3>3. CASE k # 1
      <4>1. k - 1 \in 0..n /\ k - 1 # 0 /\ f[k] = f[k - 1] \o blocks[k] /\ k - 1 \in 1..n
        <5>1. n \in Nat
          BY <1>1
        <5>2. k - 1 \in 0..n /\ k - 1 # 0 /\ k - 1 \in 1..n
          BY <3>3, <5>1
        <5>3. QED BY <2>2, <3>3, <5>2, Zenon
      <4>2. g[k - 1] = Fold(query, s, f[k - 1])
        BY <4>1
      <4>3. f[k - 1] \in Seq(T) /\ blocks[k] \in Seq(T)
        BY <1>1, <2>3, <4>1
      <4> HIDE DEF g
      <4>4. Fold(query, s, f[k - 1] \o blocks[k]) = Fold(query, Fold(query, s, f[k - 1]), blocks[k])
        BY <4>3, FoldConcat
      <4>5. QED BY <3>1, <4>1, <4>2, <4>4
    <3>4. QED BY <3>2, <3>3
  <2>5. g[0] = s /\ g[n] = Fold(query, s, FlattenSeq(blocks))
    BY <1>1, <1>3, <2>1
  <2> HIDE DEF g
  <2>6. QED BY <2>4, <2>5 DEF n, Stages
<1>4. QED BY <1>2, <1>3

-----------------------------------------------------------------------------
(* Sequences and records.                                                  *)

(* The first k of v.                                                       *)
First(v, k) == [i \in 1..k |-> v[i]]

LEMMA SequenceIs ==
  ASSUME NEW v, IsSequence(v)
  PROVE  /\ Len(v) \in Nat /\ DOMAIN v = 1..Len(v) /\ First(v, Len(v)) = v
         /\ v \in Seq({v[i] : i \in 1..Len(v)})
<1>1. Len(v) \in Nat /\ v = [i \in 1..Len(v) |-> v[i]]
  BY DEF IsSequence
<1> DEFINE n == Len(v)
<1> HIDE DEF n
<1>2. n \in Nat /\ v = [i \in 1..n |-> v[i]]
  BY <1>1 DEF n
<1>3. DOMAIN v = 1..n /\ First(v, n) = v
  BY <1>2, Zenon DEF First
<1>4. v \in Seq({v[i] : i \in 1..n})
  BY <1>2
<1>5. QED BY <1>2, <1>3, <1>4 DEF n

LEMMA FirstIs ==
  ASSUME NEW v, NEW k \in Nat
  PROVE  /\ IsSequence(First(v, k)) /\ Len(First(v, k)) = k
         /\ \A i \in 1..k : First(v, k)[i] = v[i]
         /\ First(v, 0) = <<>>
         /\ Append(First(v, k), v[k + 1]) = First(v, k + 1)
<1> DEFINE T == {v[i] : i \in 1..(k + 1)}
<1>1. /\ First(v, k) \in Seq(T) /\ Len(First(v, k)) = k
      /\ \A i \in 1..k : First(v, k)[i] = v[i]
  BY DEF First
<1>2. /\ First(v, k + 1) \in Seq(T) /\ Len(First(v, k + 1)) = k + 1
      /\ \A i \in 1..(k + 1) : First(v, k + 1)[i] = v[i]
  BY DEF First
<1>3. v[k + 1] \in T
  OBVIOUS
<1> HIDE DEF T
<1>4. /\ Append(First(v, k), v[k + 1]) \in Seq(T)
      /\ Len(Append(First(v, k), v[k + 1])) = k + 1
      /\ \A i \in 1..k : Append(First(v, k), v[k + 1])[i] = First(v, k)[i]
      /\ Append(First(v, k), v[k + 1])[k + 1] = v[k + 1]
  BY <1>1, <1>3, AppendProperties
<1>5. Append(First(v, k), v[k + 1]) = First(v, k + 1)
  BY <1>1, <1>2, <1>4, SeqEqual
<1>6. First(v, 0) = <<>>
  BY DEF First
<1>7. First(v, k) = [i \in 1..k |-> First(v, k)[i]]
  BY DEF First
<1>8. QED BY <1>1, <1>5, <1>6, <1>7 DEF IsSequence

Fields(o) ==
  o = [kind |-> o.kind, columns |-> o.columns, indexes |-> o.indexes,
       primaryKey |-> o.primaryKey, foreignKeys |-> o.foreignKeys]

(* o with this part.                                                       *)
Put(o, part, v) == [o EXCEPT ![part] = v]

LEMMA PutIs ==
  ASSUME NEW o, Fields(o), NEW part \in Parts, NEW v
  PROVE  /\ Fields(Put(o, part, v)) /\ Put(o, part, v)[part] = v
         /\ Put(o, part, v).kind = o.kind
         /\ \A p \in Parts \ {part} : Put(o, part, v)[p] = o[p]
         /\ \A w : Put(Put(o, part, v), part, w) = Put(o, part, w)
         /\ o[part] = v => Put(o, part, v) = o
<1>1. DOMAIN o = {"kind", "columns", "indexes", "primaryKey", "foreignKeys"}
  BY DEF Fields
<1>2. o = [f \in DOMAIN o |-> o[f]]
  BY DEF Fields
<1>3. DOMAIN Put(o, part, v) = DOMAIN o
      /\ \A f \in DOMAIN o : Put(o, part, v)[f] = IF f = part THEN v ELSE o[f]
  BY DEF Put
<1>4. /\ Put(o, part, v)[part] = v /\ Put(o, part, v).kind = o.kind
      /\ \A p \in Parts \ {part} : Put(o, part, v)[p] = o[p]
  BY <1>1, <1>3 DEF Parts
<1>5. Fields(Put(o, part, v))
  <2>1. Put(o, part, v) = [f \in DOMAIN o |-> Put(o, part, v)[f]]
    BY DEF Put
  <2>2. QED BY <1>1, <2>1 DEF Fields
<1>6. ASSUME NEW w PROVE Put(Put(o, part, v), part, w) = Put(o, part, w)
  BY <1>1, <1>2 DEF Put
<1>7. o[part] = v => Put(o, part, v) = o
  BY <1>1, <1>2 DEF Put
<1>8. QED BY <1>4, <1>5, <1>6, <1>7

LEMMA NewIs ==
  ASSUME NEW kind
  PROVE  Fields(NewObject(kind)) /\ NewObject(kind).kind = kind
         /\ \A part \in Parts : NewObject(kind)[part] = <<>>
BY DEF NewObject, Fields, Parts

-----------------------------------------------------------------------------
(* What the rows of one name do.                                           *)

StateForm(s) == s = [catalog |-> s.catalog, current |-> s.current]

(* Only what n stands for differs between c and d; n is there if present,  *)
(* and then stands for o.                                                  *)
Becomes(c, d, n, present, o) ==
  /\ DOMAIN d \ {n} = DOMAIN c \ {n}
  /\ \A m \in DOMAIN c \ {n} : d[m] = c[m]
  /\ n \in DOMAIN d <=> present
  /\ present => d[n] = o

LEMMA BecomesTwice ==
  ASSUME NEW b, NEW c, NEW d, NEW n, NEW p, NEW o, NEW q, NEW u,
         Becomes(b, c, n, p, o), Becomes(c, d, n, q, u)
  PROVE  Becomes(b, d, n, q, u)
BY DEF Becomes

LEMMA AddObjectIs ==
  ASSUME NEW c, NEW n, NEW kind
  PROVE  Becomes(c, AddObject(c, n, kind), n, TRUE, NewObject(kind))
BY DEF AddObject, Becomes

Attaches == {"columns", "indexes", "primaryKeys"}

(* The part that a query reads; the driver's columns register a table.     *)
PartOf(query) == IF query = "primaryKeys" THEN "primaryKey" ELSE query
Registers(query) == query = "columns" /\ reader = "driver"
Base(c, n) == IF n \in DOMAIN c THEN c[n] ELSE NewObject("table")

LEMMA AttachIs ==
  ASSUME NEW c, NEW row, NEW part
  PROVE  Becomes(c, Attach(c, row, part), row.name, row.name \in DOMAIN c,
                 Put(c[row.name], part, Append(c[row.name][part], row.value)))
<1>1. CASE row.name \in DOMAIN c
  <2>1. Attach(c, row, part) =
          [c EXCEPT ![row.name] = Put(c[row.name], part, Append(c[row.name][part], row.value))]
    BY <1>1 DEF Attach, ObjectMut, Put
  <2>2. QED BY <1>1, <2>1 DEF Becomes
<1>2. CASE row.name \notin DOMAIN c
  BY <1>2 DEF Attach, ObjectMut, Becomes
<1>3. QED BY <1>1, <1>2

LEMMA AddColumnDriverIs ==
  ASSUME NEW c, NEW row
  PROVE  Becomes(c, AddColumnDriver(c, row), row.name, TRUE,
                 Put(Base(c, row.name), "columns",
                     Append(Base(c, row.name).columns, row.value)))
<1> DEFINE known == IF row.name \in DOMAIN c THEN c ELSE AddObject(c, row.name, "table")
<1>1. Becomes(c, known, row.name, TRUE, Base(c, row.name))
  <2>1. CASE row.name \in DOMAIN c
    BY <2>1 DEF Becomes, Base
  <2>2. CASE row.name \notin DOMAIN c
    BY <2>2, AddObjectIs DEF Base
  <2>3. QED BY <2>1, <2>2
<1>2. AddColumnDriver(c, row) =
        ObjectMut(known, row.name, LAMBDA o : [o EXCEPT !.columns = Append(@, row.value)])
  BY DEF AddColumnDriver
<1> HIDE DEF known
<1>3. row.name \in DOMAIN known /\ known[row.name] = Base(c, row.name)
  BY <1>1 DEF Becomes
<1>4. AddColumnDriver(c, row) =
        [known EXCEPT ![row.name] = Put(known[row.name], "columns",
                                        Append(known[row.name].columns, row.value))]
  BY <1>2, <1>3 DEF ObjectMut, Put
<1>5. Becomes(known, AddColumnDriver(c, row), row.name, TRUE,
              Put(Base(c, row.name), "columns", Append(Base(c, row.name).columns, row.value)))
  BY <1>3, <1>4 DEF Becomes
<1>6. QED BY <1>1, <1>5 DEF Becomes

(* One row of a query that attaches a part.                                *)
LEMMA RowAttached ==
  ASSUME NEW query \in Attaches, NEW s, StateForm(s), NEW row
  PROVE  LET c == s.catalog
             t == AddRow(query, s, row)
             o == Base(c, row.name)
             part == PartOf(query)
         IN /\ StateForm(t) /\ t.current = s.current
            /\ Becomes(c, t.catalog, row.name, row.name \in DOMAIN c \/ Registers(query),
                       Put(o, part, Append(o[part], row.value)))
<1> DEFINE c == s.catalog
           t == AddRow(query, s, row)
           o == Base(c, row.name)
<1>1. CASE Registers(query)
  <2>1. t = [s EXCEPT !.catalog = AddColumnDriver(c, row)]
    BY <1>1 DEF AddRow, Registers
  <2>2. StateForm(t) /\ t.current = s.current /\ t.catalog = AddColumnDriver(c, row)
    <3> HIDE DEF t, c
    <3>1. QED BY <2>1 DEF StateForm
  <2>3. PartOf(query) = "columns"
    BY <1>1 DEF Registers, PartOf
  <2> HIDE DEF t
  <2>4. QED BY <1>1, <2>2, <2>3, AddColumnDriverIs DEF t
<1>2. CASE ~Registers(query)
  <2>1. t = [s EXCEPT !.catalog = Attach(c, row, PartOf(query))]
    BY <1>2 DEF AddRow, Registers, PartOf, Attaches
  <2>2. StateForm(t) /\ t.current = s.current /\ t.catalog = Attach(c, row, PartOf(query))
    <3> HIDE DEF t, c
    <3>1. QED BY <2>1 DEF StateForm
  <2>3. Becomes(c, t.catalog, row.name, row.name \in DOMAIN c,
                Put(c[row.name], PartOf(query), Append(c[row.name][PartOf(query)], row.value)))
    <3> HIDE DEF t, c
    <3>1. QED BY <2>2, AttachIs
  <2>4. row.name \in DOMAIN c => o = c[row.name]
    BY DEF Base
  <2>5. Becomes(c, t.catalog, row.name, row.name \in DOMAIN c \/ Registers(query),
                Put(o, PartOf(query), Append(o[PartOf(query)], row.value)))
    <3> HIDE DEF t, c, o
    <3>1. QED BY <1>2, <2>3, <2>4 DEF Becomes
  <2>6. QED BY <2>2, <2>5
<1>3. QED BY <1>1, <1>2

(* The rows of one name, which all attach to the same part.                *)
LEMMA BlockAttached ==
  ASSUME NEW query \in Attaches, NEW s, StateForm(s), NEW n, NEW v, Len(v) \in Nat,
         Fields(Base(s.catalog, n)), Base(s.catalog, n)[PartOf(query)] = <<>>
  PROVE  LET c == s.catalog
             rows == [i \in 1..Len(v) |-> [name |-> n, value |-> v[i]]]
             t == Fold(query, s, rows)
         IN /\ StateForm(t) /\ t.current = s.current
            /\ Becomes(c, t.catalog, n,
                       n \in DOMAIN c \/ (Registers(query) /\ v # <<>>),
                       Put(Base(c, n), PartOf(query), First(v, Len(v))))
<1>0. SUFFICES ASSUME NEW len \in Nat, len = Len(v),
                      NEW rows, rows = [i \in 1..len |-> [name |-> n, value |-> v[i]]]
               PROVE  LET c == s.catalog
                          t == Fold(query, s, rows)
                      IN /\ StateForm(t) /\ t.current = s.current
                         /\ Becomes(c, t.catalog, n,
                                    n \in DOMAIN c \/ (Registers(query) /\ v # <<>>),
                                    Put(Base(c, n), PartOf(query), First(v, len)))
  OBVIOUS
<1>1. Len(rows) = len /\ \A i \in 1..len : rows[i].name = n /\ rows[i].value = v[i]
  BY <1>0
<1>2. PICK after : Trace(after, query, s, rows, len) /\ Fold(query, s, rows) = after[len]
  BY ONLY <1>1, len \in Nat, FoldTrace
<1> DEFINE c == s.catalog
           part == PartOf(query)
           o == Base(c, n)
           there(i) == n \in DOMAIN c \/ (Registers(query) /\ i > 0)
           Done(i) == /\ StateForm(after[i]) /\ after[i].current = s.current
                      /\ Becomes(c, after[i].catalog, n, there(i), Put(o, part, First(v, i)))
           S == {i \in Nat : i <= len => Done(i)}
<1>3. part \in Parts
  BY DEF PartOf, Attaches, Parts
<1> HIDE DEF part
<1>8. Fields(o) /\ o[part] = <<>>
  BY DEF part
<1>7. Put(o, part, First(v, 0)) = o
  <2>1. First(v, 0) = <<>>
    BY FirstIs
  <2> HIDE DEF o
  <2>2. QED BY <1>3, <1>8, <2>1, PutIs
<1>4. Done(0)
  <2>1. after[0] = s
    BY <1>2 DEF Trace
  <2>3. n \in DOMAIN c => o = c[n]
    BY DEF Base
  <2>4. there(0) <=> n \in DOMAIN c
    OBVIOUS
  <2> HIDE DEF o, c, there
  <2>5. Becomes(c, c, n, there(0), Put(o, part, First(v, 0)))
    BY <1>7, <2>3, <2>4 DEF Becomes
  <2>6. QED BY <2>1, <2>5 DEF c
<1>5. ASSUME NEW i \in Nat, i + 1 <= len, Done(i) PROVE Done(i + 1)
  <2>1. /\ i + 1 \in 1..len /\ (i + 1) - 1 = i
        /\ rows[i + 1].name = n /\ rows[i + 1].value = v[i + 1]
    <3>1. i + 1 \in 1..len /\ (i + 1) - 1 = i
      BY <1>5
    <3>2. QED BY <1>1, <3>1
  <2>2. after[i + 1] = AddRow(query, after[i], rows[i + 1])
    <3>1. after[i + 1] = AddRow(query, after[(i + 1) - 1], rows[i + 1])
      BY <1>2, <2>1, Zenon DEF Trace
    <3>2. QED BY <2>1, <3>1
  <2> DEFINE b == after[i].catalog
             u == Base(b, n)
  <2>3. /\ StateForm(after[i + 1]) /\ after[i + 1].current = s.current
        /\ Becomes(b, after[i + 1].catalog, n, n \in DOMAIN b \/ Registers(query),
                   Put(u, part, Append(u[part], v[i + 1])))
    <3>1. PICK row : row = rows[i + 1]
      OBVIOUS
    <3>2. StateForm(after[i]) /\ after[i].current = s.current
      BY <1>5
    <3>3. LET o2 == Base(b, row.name)
              t == AddRow(query, after[i], row)
          IN /\ StateForm(t) /\ t.current = after[i].current
             /\ Becomes(b, t.catalog, row.name, row.name \in DOMAIN b \/ Registers(query),
                        Put(o2, part, Append(o2[part], row.value)))
      BY <3>2, RowAttached, Zenon DEF part
    <3>4. QED BY <2>1, <2>2, <3>1, <3>2, <3>3
  <2>4. CASE n \in DOMAIN c \/ Registers(query)
    <3>1. u = Put(o, part, First(v, i))
      <4>1. CASE there(i)
        <5>1. n \in DOMAIN b /\ b[n] = Put(o, part, First(v, i))
          BY <1>5, <4>1 DEF Becomes
        <5>2. QED BY <5>1 DEF Base
      <4>2. CASE ~there(i)
        <5>1. i = 0 /\ n \notin DOMAIN c
          BY <2>4, <4>2
        <5>2. n \notin DOMAIN b
          BY <1>5, <4>2 DEF Becomes
        <5>3. u = o
          BY <5>1, <5>2 DEF Base
        <5>4. QED BY <1>7, <5>1, <5>3
      <4>3. QED BY <4>1, <4>2
    <3> HIDE DEF u, o, there, b
    <3>2. /\ Put(o, part, First(v, i))[part] = First(v, i)
          /\ \A w : Put(Put(o, part, First(v, i)), part, w) = Put(o, part, w)
      BY <1>3, <1>8, PutIs
    <3>3. Append(u[part], v[i + 1]) = First(v, i + 1)
      BY <3>1, <3>2, FirstIs
    <3>4. Put(u, part, Append(u[part], v[i + 1])) = Put(o, part, First(v, i + 1))
      BY <3>1, <3>2, <3>3
    <3>5. (n \in DOMAIN b \/ Registers(query)) <=> there(i + 1)
      BY <1>5, <2>4 DEF there, Becomes, b, c
    <3>6. Becomes(b, after[i + 1].catalog, n, there(i + 1), Put(o, part, First(v, i + 1)))
      BY <2>3, <3>4, <3>5 DEF Becomes
    <3>7. Becomes(c, after[i + 1].catalog, n, there(i + 1), Put(o, part, First(v, i + 1)))
      BY <1>5, <3>6, BecomesTwice DEF b
    <3>8. QED BY <2>3, <3>7
  <2>5. CASE ~(n \in DOMAIN c \/ Registers(query))
    <3>1. ~there(i) /\ ~there(i + 1)
      BY <2>5
    <3> HIDE DEF there, u, o
    <3>2. QED BY <1>5, <2>3, <2>5, <3>1 DEF Becomes
  <2>6. QED BY <2>4, <2>5
<1> HIDE DEF Done
<1>6. Done(len)
  <2>1. ASSUME NEW i \in Nat, i \in S PROVE i + 1 \in S
    <3>1. i + 1 <= len => Done(i + 1)
      <4>1. SUFFICES ASSUME i + 1 <= len PROVE Done(i + 1)
        OBVIOUS
      <4>2. i <= len
        BY <4>1
      <4>3. Done(i)
        BY <2>1, <4>2
      <4>4. QED BY <1>5, <4>1, <4>3
    <3>2. QED BY <3>1
  <2>2. 0 \in S
    BY <1>4
  <2> HIDE DEF S
  <2>3. len \in S
    BY <2>1, <2>2, SetInduction
  <2>4. QED BY <2>3 DEF S
<1>9. there(len) <=> n \in DOMAIN c \/ (Registers(query) /\ v # <<>>)
  BY <1>0
<1>10. QED BY <1>2, <1>6, <1>9 DEF Done, Becomes, part

(* An answer of one row.                                                   *)
LEMMA FoldOne ==
  ASSUME NEW query, NEW s, NEW row
  PROVE  Fold(query, s, <<row>>) = AddRow(query, s, row)
<1>1. SUFFICES ASSUME NEW rows, rows = <<row>>
               PROVE  Fold(query, s, rows) = AddRow(query, s, row)
  OBVIOUS
<1>2. Len(rows) = 1 /\ rows[1] = row /\ 1 \in Nat /\ 1 \in 1..1 /\ 1 - 1 = 0
  BY <1>1
<1>3. PICK after : Trace(after, query, s, rows, 1) /\ Fold(query, s, rows) = after[1]
  BY ONLY <1>2, FoldTrace
<1>4. after[1] = AddRow(query, after[1 - 1], rows[1]) /\ after[0] = s
  BY <1>2, <1>3, Zenon DEF Trace
<1>5. QED BY <1>2, <1>3, <1>4

Lists == {"objects", "routines"}

LEMMA BlockListed ==
  ASSUME NEW query \in Lists, NEW s, StateForm(s), NEW n, NEW kind
  PROVE  LET t == Fold(query, s, <<[name |-> n, kind |-> kind]>>)
         IN /\ StateForm(t) /\ t.current = s.current
            /\ Becomes(s.catalog, t.catalog, n, TRUE, NewObject(kind))
<1> DEFINE row == [name |-> n, kind |-> kind]
           t == AddRow(query, s, row)
<1>1. t = [s EXCEPT !.catalog = AddObject(s.catalog, n, kind)]
  BY DEF AddRow, Lists
<1>2. StateForm(t) /\ t.current = s.current /\ t.catalog = AddObject(s.catalog, n, kind)
  <2> HIDE DEF t
  <2>1. QED BY <1>1 DEF StateForm
<1>3. Fold(query, s, <<row>>) = t
  BY FoldOne
<1> HIDE DEF t
<1>4. QED BY <1>2, <1>3, AddObjectIs

-----------------------------------------------------------------------------
(* Foreign keys.                                                           *)

LEMMA AppendLast ==
  ASSUME NEW g, IsSequence(g), NEW x, NEW y
  PROVE  /\ Len(Append(g, x)) = Len(g) + 1 /\ Append(g, x)[Len(g) + 1] = x
         /\ [Append(g, x) EXCEPT ![Len(g) + 1] = y] = Append(g, y)
<1> DEFINE T == {g[i] : i \in 1..Len(g)} \cup {x, y}
<1>1. Len(g) \in Nat /\ g = [i \in 1..Len(g) |-> g[i]]
  BY DEF IsSequence
<1>2. g \in Seq(T)
  <2>1. g \in Seq({g[i] : i \in 1..Len(g)})
    BY SequenceIs
  <2>2. QED BY <2>1, SeqMonotonic
<1>3. x \in T /\ y \in T
  OBVIOUS
<1> HIDE DEF T
<1>4. /\ Append(g, x) \in Seq(T) /\ Len(Append(g, x)) = Len(g) + 1
      /\ Append(g, x)[Len(g) + 1] = x
      /\ \A i \in 1..Len(g) : Append(g, x)[i] = g[i]
  BY <1>2, <1>3, AppendProperties
<1>5. /\ Append(g, y) \in Seq(T) /\ Len(Append(g, y)) = Len(g) + 1
      /\ Append(g, y)[Len(g) + 1] = y
      /\ \A i \in 1..Len(g) : Append(g, y)[i] = g[i]
  BY <1>2, <1>3, AppendProperties
<1>6. PICK p, m, h : p = Append(g, x) /\ m = Len(g) + 1 /\ h = [p EXCEPT ![m] = y]
  OBVIOUS
<1>7. p \in Seq(T) /\ m \in 1..Len(p) /\ Len(p) = m
  BY <1>1, <1>4, <1>6
<1>8. h \in Seq(T) /\ Len(h) = m /\ \A j \in 1..m : h[j] = IF j = m THEN y ELSE p[j]
  <2>1. [p EXCEPT ![m] = y] \in Seq(T) /\ Len([p EXCEPT ![m] = y]) = Len(p)
        /\ \A j \in 1..Len(p) : [p EXCEPT ![m] = y][j] = IF j = m THEN y ELSE p[j]
    BY ONLY <1>3, <1>7, ExceptSeq
  <2>2. QED BY <1>6, <1>7, <2>1
<1>9. \A j \in 1..(Len(g) + 1) : h[j] = Append(g, y)[j]
  BY <1>1, <1>4, <1>5, <1>6, <1>8
<1>10. h = Append(g, y)
  BY <1>5, <1>6, <1>8, <1>9, SeqEqual
<1>11. QED BY <1>4, <1>6, <1>10

ForeignKey(columns, table, references) ==
  [columns |-> columns, table |-> table, references |-> references]

(* A row that opens a foreign key.                                         *)
LEMMA RowOpens ==
  ASSUME NEW s, StateForm(s), NEW row, NEW n, row.name = n, n \in DOMAIN s.catalog,
         s.current # KeyOf(row),
         NEW fks, fks = s.catalog[n].foreignKeys, IsSequence(fks),
         Fields(s.catalog[n])
  PROVE  LET t == AddRow("foreignKeys", s, row)
             fk == ForeignKey(<<row.column>>, row.table, <<row.reference>>)
         IN /\ StateForm(t) /\ t.current = KeyOf(row)
            /\ Becomes(s.catalog, t.catalog, n, TRUE,
                       Put(s.catalog[n], "foreignKeys", Append(fks, fk)))
<1> DEFINE t == AddRow("foreignKeys", s, row)
           blank == ForeignKey(<<>>, row.table, <<>>)
           fk == ForeignKey(<<row.column>>, row.table, <<row.reference>>)
           open == Append(fks, blank)
           last == [open[Len(open)] EXCEPT !.columns = Append(@, row.column),
                                           !.references = Append(@, row.reference)]
<1>1. t = [catalog |-> [s.catalog EXCEPT ![n].foreignKeys = [open EXCEPT ![Len(open)] = last]],
           current |-> KeyOf(row)]
  BY DEF AddRow, AddForeignRow, ForeignKey
<1>2. Len(open) = Len(fks) + 1 /\ open[Len(fks) + 1] = blank
      /\ [open EXCEPT ![Len(fks) + 1] = fk] = Append(fks, fk)
  <2> HIDE DEF blank, fk
  <2>1. QED BY AppendLast
<1>3. last = fk
  <2>1. last = [blank EXCEPT !.columns = Append(@, row.column),
                             !.references = Append(@, row.reference)]
    <3> HIDE DEF open, blank
    <3>1. QED BY <1>2
  <2>2. Append(<<>>, row.column) = <<row.column>>
        /\ Append(<<>>, row.reference) = <<row.reference>>
    OBVIOUS
  <2> HIDE DEF open, last
  <2>3. QED BY <2>1, <2>2 DEF ForeignKey
<1> HIDE DEF open, last, fk
<1>4. [open EXCEPT ![Len(open)] = last] = Append(fks, fk)
  BY <1>2, <1>3
<1> HIDE DEF t
<1>5. t.catalog = [s.catalog EXCEPT ![n] = Put(s.catalog[n], "foreignKeys", Append(fks, fk))]
  BY <1>1, <1>4 DEF Put
<1>6. StateForm(t) /\ t.current = KeyOf(row)
  BY <1>1 DEF StateForm
<1>7. Becomes(s.catalog, t.catalog, n, TRUE, Put(s.catalog[n], "foreignKeys", Append(fks, fk)))
  BY <1>5 DEF Becomes
<1>8. QED BY <1>6, <1>7 DEF t, fk

(* A row of the foreign key under construction.                            *)
LEMMA RowContinues ==
  ASSUME NEW s, StateForm(s), NEW row, NEW n, row.name = n, n \in DOMAIN s.catalog,
         s.current = KeyOf(row),
         NEW o, Fields(o), NEW g, IsSequence(g),
         NEW columns, NEW table, NEW references,
         s.catalog[n] = Put(o, "foreignKeys", Append(g, ForeignKey(columns, table, references)))
  PROVE  LET t == AddRow("foreignKeys", s, row)
             fk == ForeignKey(Append(columns, row.column), table, Append(references, row.reference))
         IN /\ StateForm(t) /\ t.current = KeyOf(row)
            /\ Becomes(s.catalog, t.catalog, n, TRUE, Put(o, "foreignKeys", Append(g, fk)))
<1> DEFINE t == AddRow("foreignKeys", s, row)
           old == ForeignKey(columns, table, references)
           fk == ForeignKey(Append(columns, row.column), table, Append(references, row.reference))
           open == s.catalog[n].foreignKeys
           last == [open[Len(open)] EXCEPT !.columns = Append(@, row.column),
                                           !.references = Append(@, row.reference)]
<1>1. t = [catalog |-> [s.catalog EXCEPT ![n].foreignKeys = [open EXCEPT ![Len(open)] = last]],
           current |-> KeyOf(row)]
  BY DEF AddRow, AddForeignRow
<1>2. "foreignKeys" \in Parts
  BY DEF Parts
<1>3. open = Append(g, old) /\ \A w : Put(s.catalog[n], "foreignKeys", w) = Put(o, "foreignKeys", w)
  <2> HIDE DEF old
  <2>1. PICK v : v = Append(g, old)
    OBVIOUS
  <2>2. Put(o, "foreignKeys", v)["foreignKeys"] = v
        /\ \A w : Put(Put(o, "foreignKeys", v), "foreignKeys", w) = Put(o, "foreignKeys", w)
    BY <1>2, PutIs
  <2>3. s.catalog[n] = Put(o, "foreignKeys", v)
    BY <2>1 DEF old
  <2>4. QED BY <2>1, <2>2, <2>3
<1>4. Len(open) = Len(g) + 1 /\ open[Len(g) + 1] = old
      /\ [open EXCEPT ![Len(g) + 1] = fk] = Append(g, fk)
  <2> HIDE DEF open, old, fk
  <2>1. QED BY <1>3, AppendLast
<1>5. last = fk
  <2>1. last = [old EXCEPT !.columns = Append(@, row.column),
                           !.references = Append(@, row.reference)]
    <3> HIDE DEF open, old
    <3>1. QED BY <1>4
  <2> HIDE DEF last
  <2>2. QED BY <2>1 DEF ForeignKey
<1> HIDE DEF open, last, fk, t
<1>6. [open EXCEPT ![Len(open)] = last] = Append(g, fk)
  BY <1>4, <1>5
<1>7. t.catalog = [s.catalog EXCEPT ![n] = Put(s.catalog[n], "foreignKeys", Append(g, fk))]
  BY <1>1, <1>6 DEF Put
<1>8. StateForm(t) /\ t.current = KeyOf(row)
  BY <1>1 DEF StateForm
<1>9. Becomes(s.catalog, t.catalog, n, TRUE, Put(o, "foreignKeys", Append(g, fk)))
  BY <1>3, <1>7 DEF Becomes
<1>10. QED BY <1>8, <1>9 DEF t, fk

KeyRowsOf(n, fk) ==
  [k \in DOMAIN fk.columns |->
    [name |-> n, constraint |-> fk.constraint, column |-> fk.columns[k],
     table |-> fk.table, reference |-> fk.references[k]]]

(* The rows of one foreign key of n, if n is listed.                       *)
LEMMA KeyAttached ==
  ASSUME NEW s, StateForm(s), NEW n, n \in DOMAIN s.catalog,
         NEW o, o = s.catalog[n], Fields(o), IsSequence(o.foreignKeys),
         NEW fk, Len(fk.columns) \in Nat \ {0}, DOMAIN fk.columns = 1..Len(fk.columns),
         s.current # <<n, fk.constraint>>,
         NEW rows, rows = KeyRowsOf(n, fk)
  PROVE  LET t == Fold("foreignKeys", s, rows)
             len == Len(fk.columns)
             whole == ForeignKey(First(fk.columns, len), fk.table, First(fk.references, len))
         IN /\ StateForm(t) /\ t.current = <<n, fk.constraint>>
            /\ Becomes(s.catalog, t.catalog, n, TRUE,
                       Put(o, "foreignKeys", Append(o.foreignKeys, whole)))
<1> DEFINE part(k) == ForeignKey(First(fk.columns, k), fk.table, First(fk.references, k))
<1>0. SUFFICES ASSUME NEW len \in Nat, len = Len(fk.columns)
               PROVE  LET t == Fold("foreignKeys", s, rows)
                      IN /\ StateForm(t) /\ t.current = <<n, fk.constraint>>
                         /\ Becomes(s.catalog, t.catalog, n, TRUE,
                                    Put(o, "foreignKeys", Append(o.foreignKeys, part(len))))
  BY DEF part
<1>1. Len(rows) = len /\ len > 0
      /\ \A k \in 1..len : /\ rows[k].name = n /\ KeyOf(rows[k]) = <<n, fk.constraint>>
                           /\ rows[k].column = fk.columns[k] /\ rows[k].table = fk.table
                           /\ rows[k].reference = fk.references[k]
  BY <1>0 DEF KeyOf, KeyRowsOf
<1>2. PICK after : Trace(after, "foreignKeys", s, rows, len)
                   /\ Fold("foreignKeys", s, rows) = after[len]
  BY ONLY <1>1, len \in Nat, FoldTrace
<1> DEFINE Done(k) == /\ StateForm(after[k]) /\ after[k].current = <<n, fk.constraint>>
                      /\ Becomes(s.catalog, after[k].catalog, n, TRUE,
                                 Put(o, "foreignKeys", Append(o.foreignKeys, part(k))))
           S == {k \in 1..len : Done(k)}
<1>3. Done(1)
  <2>1. 1 \in 1..len /\ 1 - 1 = 0
    BY <1>1
  <2>2. after[1] = AddRow("foreignKeys", s, rows[1])
    <3>1. after[1] = AddRow("foreignKeys", after[1 - 1], rows[1]) /\ after[0] = s
      BY <1>2, <2>1, Zenon DEF Trace
    <3>2. QED BY <2>1, <3>1
  <2>3. PICK row : row = rows[1]
    OBVIOUS
  <2>4. row.name = n /\ s.current # KeyOf(row) /\ KeyOf(row) = <<n, fk.constraint>>
    BY <1>1, <2>1, <2>3
  <2>5. /\ StateForm(AddRow("foreignKeys", s, row)) /\ AddRow("foreignKeys", s, row).current = KeyOf(row)
        /\ Becomes(s.catalog, AddRow("foreignKeys", s, row).catalog, n, TRUE,
                   Put(s.catalog[n], "foreignKeys", Append(o.foreignKeys,
                     ForeignKey(<<row.column>>, row.table, <<row.reference>>))))
    BY <2>4, RowOpens
  <2>6. First(fk.columns, 1) = <<row.column>> /\ First(fk.references, 1) = <<row.reference>>
    BY <1>1, <2>1, <2>3 DEF First
  <2>7. part(1) = ForeignKey(<<row.column>>, row.table, <<row.reference>>)
    BY <1>1, <2>1, <2>3, <2>6
  <2> HIDE DEF part
  <2>8. QED BY <2>2, <2>3, <2>4, <2>5, <2>7
<1>4. ASSUME NEW k \in 1..len, k # 1, Done(k - 1) PROVE Done(k)
  <2>1. k - 1 \in Nat /\ (k - 1) + 1 = k
    BY <1>4
  <2>2. after[k] = AddRow("foreignKeys", after[k - 1], rows[k])
    BY <1>2, Zenon DEF Trace
  <2>3. PICK row, b : row = rows[k] /\ b = after[k - 1]
    OBVIOUS
  <2>4. row.name = n /\ b.current = KeyOf(row) /\ KeyOf(row) = <<n, fk.constraint>>
        /\ StateForm(b) /\ n \in DOMAIN b.catalog
        /\ b.catalog[n] = Put(o, "foreignKeys", Append(o.foreignKeys, part(k - 1)))
    <3> HIDE DEF part
    <3>1. QED BY <1>1, <1>4, <2>3 DEF Becomes
  <2>5. /\ StateForm(AddRow("foreignKeys", b, row)) /\ AddRow("foreignKeys", b, row).current = KeyOf(row)
        /\ Becomes(b.catalog, AddRow("foreignKeys", b, row).catalog, n, TRUE,
                   Put(o, "foreignKeys", Append(o.foreignKeys,
                     ForeignKey(Append(First(fk.columns, k - 1), row.column), fk.table,
                                Append(First(fk.references, k - 1), row.reference)))))
    <3>1. PICK g, cols, refs, table : /\ g = o.foreignKeys /\ cols = First(fk.columns, k - 1)
                                      /\ refs = First(fk.references, k - 1) /\ table = fk.table
      OBVIOUS
    <3>2. /\ Fields(o) /\ IsSequence(g) /\ StateForm(b) /\ row.name = n /\ n \in DOMAIN b.catalog
          /\ b.current = KeyOf(row)
          /\ b.catalog[n] = Put(o, "foreignKeys", Append(g, ForeignKey(cols, table, refs)))
      BY <2>4, <3>1
    <3>3. /\ StateForm(AddRow("foreignKeys", b, row)) /\ AddRow("foreignKeys", b, row).current = KeyOf(row)
          /\ Becomes(b.catalog, AddRow("foreignKeys", b, row).catalog, n, TRUE,
                     Put(o, "foreignKeys", Append(g,
                       ForeignKey(Append(cols, row.column), table, Append(refs, row.reference)))))
      BY ONLY <3>2, RowContinues
    <3>4. QED BY <3>1, <3>3
  <2>6. Append(First(fk.columns, k - 1), row.column) = First(fk.columns, k)
        /\ Append(First(fk.references, k - 1), row.reference) = First(fk.references, k)
    <3>1. /\ Append(First(fk.columns, k - 1), fk.columns[(k - 1) + 1]) = First(fk.columns, (k - 1) + 1)
          /\ Append(First(fk.references, k - 1), fk.references[(k - 1) + 1]) = First(fk.references, (k - 1) + 1)
      BY <2>1, FirstIs
    <3>2. QED BY <1>1, <2>1, <2>3, <3>1
  <2>7. Becomes(s.catalog, b.catalog, n, TRUE, Put(o, "foreignKeys", Append(o.foreignKeys, part(k - 1))))
    BY <1>4, <2>3
  <2>8. Becomes(b.catalog, after[k].catalog, n, TRUE, Put(o, "foreignKeys", Append(o.foreignKeys, part(k))))
    BY <2>2, <2>3, <2>5, <2>6
  <2> HIDE DEF part
  <2>9. Becomes(s.catalog, after[k].catalog, n, TRUE, Put(o, "foreignKeys", Append(o.foreignKeys, part(k))))
    BY <2>7, <2>8 DEF Becomes
  <2>10. QED BY <2>2, <2>3, <2>4, <2>5, <2>9
<1>5. Done(len)
  <2> HIDE DEF Done
  <2>1. len > 0 => 1 \in S
    BY <1>1, <1>3
  <2>2. \A k \in 1..len : k # 1 /\ k - 1 \in S => k \in S
    BY <1>4
  <2> HIDE DEF S
  <2>3. 1..len \subseteq S
    BY <2>1, <2>2, Upwards
  <2>4. len \in 1..len
    BY <1>1
  <2>5. QED BY <2>3, <2>4 DEF S
<1>6. QED BY <1>2, <1>5

LEMMA SequencesOfSequences ==
  ASSUME NEW blocks, IsSequence(blocks), \A i \in 1..Len(blocks) : IsSequence(blocks[i])
  PROVE  \E T : blocks \in Seq(Seq(T))
<1> DEFINE T == UNION {{blocks[i][k] : k \in 1..Len(blocks[i])} : i \in 1..Len(blocks)}
<1>1. ASSUME NEW i \in 1..Len(blocks) PROVE blocks[i] \in Seq(T)
  <2>1. blocks[i] \in Seq({blocks[i][k] : k \in 1..Len(blocks[i])})
    BY SequenceIs
  <2>2. {blocks[i][k] : k \in 1..Len(blocks[i])} \subseteq T
    OBVIOUS
  <2> HIDE DEF T
  <2>3. QED BY <2>1, <2>2, SeqMonotonic
<1> HIDE DEF T
<1>2. blocks \in Seq({blocks[i] : i \in 1..Len(blocks)})
  BY SequenceIs
<1>3. {blocks[i] : i \in 1..Len(blocks)} \subseteq Seq(T)
  BY <1>1
<1>4. blocks \in Seq(Seq(T))
  BY <1>2, <1>3, SeqMonotonic
<1>5. QED BY <1>4

(* Rows that change nothing.                                               *)
LEMMA FoldPasses ==
  ASSUME NEW query, NEW s, NEW rows, Len(rows) \in Nat,
         \A k \in 1..Len(rows) : AddRow(query, s, rows[k]) = s
  PROVE  Fold(query, s, rows) = s
<1>1. PICK len, after : /\ len = Len(rows) /\ Trace(after, query, s, rows, len)
                        /\ Fold(query, s, rows) = after[len]
  BY FoldTrace
<1> DEFINE S == {k \in Nat : k <= len => after[k] = s}
<1>2. 0 \in S
  BY <1>1 DEF Trace
<1>3. ASSUME NEW k \in Nat, k \in S PROVE k + 1 \in S
  <2>1. SUFFICES ASSUME k + 1 <= len PROVE after[k + 1] = s
    OBVIOUS
  <2>2. k + 1 \in 1..len /\ (k + 1) - 1 = k /\ after[k] = s
    BY <1>1, <1>3, <2>1
  <2>3. after[k + 1] = AddRow(query, after[(k + 1) - 1], rows[k + 1])
    BY <1>1, <2>2, Zenon DEF Trace
  <2>4. QED BY <1>1, <2>2, <2>3
<1> HIDE DEF S
<1>4. len \in S
  BY <1>1, <1>2, <1>3, SetInduction
<1>5. QED BY <1>1, <1>4 DEF S

KeyRowsOfAll(n, d) ==
  FlattenSeq([i \in DOMAIN d.foreignKeys |-> KeyRowsOf(n, d.foreignKeys[i])])

KeysOf(d) ==
  [i \in DOMAIN d.foreignKeys |->
    ForeignKey(d.foreignKeys[i].columns, d.foreignKeys[i].table, d.foreignKeys[i].references)]

LEMMA KeyFacts ==
  ASSUME NEW d, ShapeForm(d), NEW n
  PROVE  LET blocks == [i \in DOMAIN d.foreignKeys |-> KeyRowsOf(n, d.foreignKeys[i])]
             fks == d.foreignKeys
         IN /\ IsSequence(fks) /\ DOMAIN fks = 1..Len(fks) /\ Len(fks) \in Nat
            /\ Len(blocks) = Len(fks) /\ IsSequence(blocks)
            /\ \A i \in 1..Len(fks) :
                 /\ blocks[i] = KeyRowsOf(n, fks[i]) /\ IsSequence(blocks[i])
                 /\ Len(fks[i].columns) \in Nat \ {0} /\ IsSequence(fks[i].columns)
                 /\ DOMAIN fks[i].columns = 1..Len(fks[i].columns)
                 /\ First(fks[i].columns, Len(fks[i].columns)) = fks[i].columns
                 /\ First(fks[i].references, Len(fks[i].columns)) = fks[i].references
                 /\ \A k \in 1..(i - 1) : fks[k].constraint # fks[i].constraint
<1> DEFINE fks == d.foreignKeys
           blocks == [i \in DOMAIN fks |-> KeyRowsOf(n, fks[i])]
<1>1. IsSequence(fks) /\ \A i \in 1..Len(fks) :
        /\ IsSequence(fks[i].columns) /\ IsSequence(fks[i].references)
        /\ Len(fks[i].columns) = Len(fks[i].references) /\ fks[i].columns # <<>>
        /\ \A k \in 1..(i - 1) : fks[k].constraint # fks[i].constraint
  BY DEF ShapeForm
<1> HIDE DEF fks
<1>2. DOMAIN fks = 1..Len(fks) /\ Len(fks) \in Nat
  BY <1>1, SequenceIs
<1>3. Len(blocks) = Len(fks) /\ IsSequence(blocks)
  BY <1>2 DEF IsSequence
<1>4. ASSUME NEW i \in 1..Len(fks)
      PROVE  /\ blocks[i] = KeyRowsOf(n, fks[i]) /\ IsSequence(blocks[i])
             /\ Len(fks[i].columns) \in Nat \ {0}
             /\ DOMAIN fks[i].columns = 1..Len(fks[i].columns)
             /\ First(fks[i].columns, Len(fks[i].columns)) = fks[i].columns
             /\ First(fks[i].references, Len(fks[i].columns)) = fks[i].references
  <2>1. PICK columns, references : columns = fks[i].columns /\ references = fks[i].references
    OBVIOUS
  <2>2. IsSequence(columns) /\ IsSequence(references) /\ Len(columns) = Len(references)
        /\ columns # <<>>
    BY <1>1, <2>1
  <2>3. /\ DOMAIN columns = 1..Len(columns) /\ Len(columns) \in Nat
        /\ First(columns, Len(columns)) = columns
        /\ First(references, Len(references)) = references
    BY <2>2, SequenceIs
  <2>4. Len(columns) # 0
    BY <2>2, <2>3 DEF First
  <2>5. blocks[i] = KeyRowsOf(n, fks[i])
    BY <1>2
  <2>6. IsSequence(KeyRowsOf(n, fks[i]))
    <3>1. PICK len \in Nat : len = Len(columns)
      BY <2>3
    <3>2. PICK rows : rows = KeyRowsOf(n, fks[i])
      OBVIOUS
    <3>3. Len(rows) = len /\ rows = [k \in 1..len |-> rows[k]]
      BY <2>1, <2>3, <3>1, <3>2 DEF KeyRowsOf
    <3>4. QED BY <3>2, <3>3 DEF IsSequence
  <2> HIDE DEF blocks
  <2>7. QED BY <2>1, <2>2, <2>3, <2>4, <2>5, <2>6
<1>5. QED BY <1>1, <1>2, <1>3, <1>4 DEF fks

(* All foreign keys of n, if n is not listed,                              *)
LEMMA KeysPassed ==
  ASSUME NEW d, ShapeForm(d), NEW s, NEW n, n \notin DOMAIN s.catalog
  PROVE  Fold("foreignKeys", s, KeyRowsOfAll(n, d)) = s
<1> DEFINE fks == d.foreignKeys
           blocks == [i \in DOMAIN fks |-> KeyRowsOf(n, fks[i])]
<1>1. /\ Len(fks) \in Nat /\ Len(blocks) = Len(fks) /\ IsSequence(blocks)
      /\ \A i \in 1..Len(fks) : blocks[i] = KeyRowsOf(n, fks[i]) /\ IsSequence(blocks[i])
  BY KeyFacts
<1> HIDE DEF blocks, fks
<1>2. PICK T : blocks \in Seq(Seq(T))
  BY <1>1, SequencesOfSequences
<1>3. PICK len, after : /\ len = Len(fks) /\ Stages(after, "foreignKeys", s, blocks, len)
                        /\ Fold("foreignKeys", s, FlattenSeq(blocks)) = after[len]
  BY <1>1, <1>2, FoldStages
<1>4. ASSUME NEW i \in 1..len PROVE Fold("foreignKeys", s, blocks[i]) = s
  <2>1. PICK rows : rows = blocks[i]
    OBVIOUS
  <2>2. Len(rows) \in Nat /\ DOMAIN rows = 1..Len(rows) /\ rows = KeyRowsOf(n, fks[i])
    BY <1>1, <1>3, <2>1, SequenceIs
  <2>3. \A k \in 1..Len(rows) : rows[k].name = n
    BY <2>2 DEF KeyRowsOf
  <2>4. \A k \in 1..Len(rows) : AddRow("foreignKeys", s, rows[k]) = s
    BY <2>3 DEF AddRow, AddForeignRow
  <2>5. Fold("foreignKeys", s, rows) = s
    BY <2>2, <2>4, FoldPasses
  <2>6. QED BY <2>1, <2>5
<1> DEFINE S == {i \in Nat : i <= len => after[i] = s}
<1>5. 0 \in S
  BY <1>3 DEF Stages
<1>6. ASSUME NEW i \in Nat, i \in S PROVE i + 1 \in S
  <2>1. SUFFICES ASSUME i + 1 <= len PROVE after[i + 1] = s
    OBVIOUS
  <2>2. i + 1 \in 1..len /\ (i + 1) - 1 = i /\ after[i] = s
    BY <1>1, <1>3, <1>6, <2>1
  <2>3. after[i + 1] = Fold("foreignKeys", after[(i + 1) - 1], blocks[i + 1])
    BY <1>3, <2>2, Zenon DEF Stages
  <2>4. QED BY <1>4, <2>2, <2>3
<1> HIDE DEF S
<1>7. len \in S
  BY <1>1, <1>3, <1>5, <1>6, SetInduction
<1>8. QED BY <1>3, <1>7 DEF S, KeyRowsOfAll, blocks, fks

(* and if it is.                                                           *)
LEMMA KeysAttached ==
  ASSUME NEW d, ShapeForm(d), NEW s, StateForm(s), NEW n, n \in DOMAIN s.catalog,
         NEW o, o = s.catalog[n], Fields(o), o.foreignKeys = <<>>,
         \A x : s.current # <<n, x>>
  PROVE  LET t == Fold("foreignKeys", s, KeyRowsOfAll(n, d))
         IN /\ StateForm(t) /\ (t.current = s.current \/ \E x : t.current = <<n, x>>)
            /\ Becomes(s.catalog, t.catalog, n, TRUE, Put(o, "foreignKeys", KeysOf(d)))
<1> DEFINE fks == d.foreignKeys
           blocks == [i \in DOMAIN fks |-> KeyRowsOf(n, fks[i])]
           keys == KeysOf(d)
<1>1. /\ Len(fks) \in Nat /\ DOMAIN fks = 1..Len(fks)
      /\ Len(blocks) = Len(fks) /\ IsSequence(blocks)
      /\ \A i \in 1..Len(fks) :
           /\ blocks[i] = KeyRowsOf(n, fks[i]) /\ IsSequence(blocks[i])
           /\ Len(fks[i].columns) \in Nat \ {0}
           /\ DOMAIN fks[i].columns = 1..Len(fks[i].columns)
           /\ First(fks[i].columns, Len(fks[i].columns)) = fks[i].columns
           /\ First(fks[i].references, Len(fks[i].columns)) = fks[i].references
           /\ \A k \in 1..(i - 1) : fks[k].constraint # fks[i].constraint
  BY KeyFacts
<1>2. keys = [i \in 1..Len(fks) |-> ForeignKey(fks[i].columns, fks[i].table, fks[i].references)]
  BY <1>1 DEF KeysOf
<1> HIDE DEF blocks, fks, keys
<1>3. PICK T : blocks \in Seq(Seq(T))
  BY <1>1, SequencesOfSequences
<1>4. PICK len, after : /\ len = Len(fks) /\ Stages(after, "foreignKeys", s, blocks, len)
                        /\ Fold("foreignKeys", s, FlattenSeq(blocks)) = after[len]
  <2>1. Len(blocks) = Len(fks)
    BY <1>1
  <2>2. QED BY ONLY <1>3, <2>1, FoldStages
<1> DEFINE Done(i) ==
             /\ StateForm(after[i])
             /\ after[i].current = s.current
                  \/ \E k \in 1..i : after[i].current = <<n, fks[k].constraint>>
             /\ Becomes(s.catalog, after[i].catalog, n, TRUE, Put(o, "foreignKeys", First(keys, i)))
           S == {i \in Nat : i <= len => Done(i)}
<1>5. "foreignKeys" \in Parts
  BY DEF Parts
<1>6. Done(0)
  <2>1. First(keys, 0) = <<>>
    BY FirstIs
  <2>2. Put(o, "foreignKeys", First(keys, 0)) = o
    BY <1>5, <2>1, PutIs
  <2>3. Becomes(s.catalog, s.catalog, n, TRUE, Put(o, "foreignKeys", First(keys, 0)))
    BY <2>2 DEF Becomes
  <2>4. QED BY <1>4, <2>3 DEF Stages
<1>7. ASSUME NEW i \in Nat, i + 1 <= len, Done(i) PROVE Done(i + 1)
  <2>1. i + 1 \in 1..len /\ (i + 1) - 1 = i
    BY <1>1, <1>4, <1>7
  <2>2. PICK b, fk, rows : b = after[i] /\ fk = fks[i + 1] /\ rows = blocks[i + 1]
    OBVIOUS
  <2>3. after[i + 1] = Fold("foreignKeys", b, rows)
    <3>1. after[i + 1] = Fold("foreignKeys", after[(i + 1) - 1], blocks[i + 1])
      BY <1>4, <2>1, Zenon DEF Stages
    <3>2. QED BY <2>1, <2>2, <3>1
  <2>4. PICK u : u = Put(o, "foreignKeys", First(keys, i))
    OBVIOUS
  <2>5. /\ StateForm(b) /\ n \in DOMAIN b.catalog /\ u = b.catalog[n]
        /\ Becomes(s.catalog, b.catalog, n, TRUE, u)
    BY <1>7, <2>2, <2>4 DEF Becomes
  <2>6. /\ Fields(u) /\ u.foreignKeys = First(keys, i) /\ IsSequence(u.foreignKeys)
        /\ \A w : Put(u, "foreignKeys", w) = Put(o, "foreignKeys", w)
    <3>1. PICK v : v = First(keys, i)
      OBVIOUS
    <3>2. Fields(u) /\ u["foreignKeys"] = v /\ \A w : Put(u, "foreignKeys", w) = Put(o, "foreignKeys", w)
      BY <1>5, <2>4, <3>1, PutIs
    <3>3. QED BY <3>1, <3>2, FirstIs
  <2>7. b.current # <<n, fk.constraint>>
    <3>1. ASSUME NEW k \in 1..i PROVE fks[k].constraint # fk.constraint
      <4>1. i + 1 \in 1..Len(fks) /\ k \in 1..((i + 1) - 1)
        BY <1>4, <2>1
      <4>2. QED BY <1>1, <2>2, <4>1
    <3>2. QED BY <1>7, <2>2, <3>1
  <2>8. /\ Len(fk.columns) \in Nat \ {0} /\ DOMAIN fk.columns = 1..Len(fk.columns)
        /\ rows = KeyRowsOf(n, fk)
        /\ First(fk.columns, Len(fk.columns)) = fk.columns
        /\ First(fk.references, Len(fk.columns)) = fk.references
    BY <1>1, <1>4, <2>1, <2>2
  <2>9. PICK t, whole : t = Fold("foreignKeys", b, rows)
                        /\ whole = ForeignKey(fk.columns, fk.table, fk.references)
    OBVIOUS
  <2>10. /\ StateForm(t) /\ t.current = <<n, fk.constraint>>
         /\ Becomes(b.catalog, t.catalog, n, TRUE,
                    Put(u, "foreignKeys", Append(u.foreignKeys, whole)))
    <3>0. /\ StateForm(b) /\ n \in DOMAIN b.catalog /\ u = b.catalog[n]
          /\ Fields(u) /\ IsSequence(u.foreignKeys) /\ b.current # <<n, fk.constraint>>
          /\ Len(fk.columns) \in Nat \ {0} /\ DOMAIN fk.columns = 1..Len(fk.columns)
          /\ rows = KeyRowsOf(n, fk)
      BY <2>5, <2>6, <2>7, <2>8
    <3>1. LET t2 == Fold("foreignKeys", b, rows)
              n2 == Len(fk.columns)
              whole2 == ForeignKey(First(fk.columns, n2), fk.table, First(fk.references, n2))
          IN /\ StateForm(t2) /\ t2.current = <<n, fk.constraint>>
             /\ Becomes(b.catalog, t2.catalog, n, TRUE,
                        Put(u, "foreignKeys", Append(u.foreignKeys, whole2)))
      BY ONLY <3>0, KeyAttached
    <3>2. QED BY <2>8, <2>9, <3>1
  <2>11. Append(u.foreignKeys, whole) = First(keys, i + 1)
    <3>1. keys[i + 1] = whole
      BY <1>2, <1>4, <2>1, <2>2, <2>9
    <3>2. Append(First(keys, i), keys[i + 1]) = First(keys, i + 1)
      BY FirstIs
    <3>3. QED BY <2>6, <3>1, <3>2
  <2>12. Becomes(b.catalog, t.catalog, n, TRUE, Put(o, "foreignKeys", First(keys, i + 1)))
    BY <2>6, <2>10, <2>11
  <2>13. Becomes(s.catalog, t.catalog, n, TRUE, Put(o, "foreignKeys", First(keys, i + 1)))
    BY <2>5, <2>12 DEF Becomes
  <2>14. i + 1 \in 1..(i + 1) /\ t.current = <<n, fks[i + 1].constraint>>
    BY <2>2, <2>10
  <2>15. QED BY <2>3, <2>9, <2>10, <2>13, <2>14
<1> HIDE DEF Done
<1>8. Done(len)
  <2>1. ASSUME NEW i \in Nat, i \in S PROVE i + 1 \in S
    <3>1. i + 1 <= len => Done(i + 1)
      <4>1. SUFFICES ASSUME i + 1 <= len PROVE Done(i + 1)
        OBVIOUS
      <4>2. Done(i)
        BY <1>1, <1>4, <2>1, <4>1
      <4>3. QED BY <1>7, <4>1, <4>2
    <3>2. QED BY <3>1
  <2>2. 0 \in S
    BY <1>6
  <2> HIDE DEF S
  <2>3. len \in S
    BY <1>1, <1>4, <2>1, <2>2, SetInduction
  <2>4. QED BY <2>3, <1>1, <1>4 DEF S
<1>9. First(keys, len) = keys
  BY <1>2, <1>4 DEF First
<1>10. Fold("foreignKeys", s, KeyRowsOfAll(n, d)) = after[len]
  BY <1>4 DEF KeyRowsOfAll, blocks, fks
<1>11. QED BY <1>8, <1>9, <1>10 DEF Done, keys

-----------------------------------------------------------------------------
(* What a whole answer does, name by name.                                 *)

Same(c, d, n) ==
  /\ n \in DOMAIN d <=> n \in DOMAIN c
  /\ n \in DOMAIN c => d[n] = c[n]

(* The rows of names from k on begin foreign keys of their own.            *)
Ready(s, k) == StateForm(s) /\ \A m \in Names : m >= k => \A x : s.current # <<m, x>>

(* The block of a name turns what c has under it into object[k], or into   *)
(* nothing.                                                                *)
BlockTurns(query, c, k, block, present, object) ==
  \A s : Ready(s, k) /\ Same(c, s.catalog, k) =>
    /\ Ready(Fold(query, s, block), k + 1)
    /\ Becomes(s.catalog, Fold(query, s, block).catalog, k, present, object)

Turns(query, c, blocks, present, object) ==
  /\ DOMAIN c \subseteq Names
  /\ IsSequence(blocks) /\ Len(blocks) = N
  /\ \A k \in Names : /\ IsSequence(blocks[k])
                      /\ BlockTurns(query, c, k, blocks[k], present[k], object[k])

Turned(d, present, object) ==
  /\ DOMAIN d \subseteq Names
  /\ \A n \in Names : /\ n \in DOMAIN d <=> present[n]
                      /\ present[n] => d[n] = object[n]

LEMMA Lift ==
  ASSUME NEW query, NEW c, NEW present, NEW object, NEW blocks,
         Turns(query, c, blocks, present, object)
  PROVE  Turned(Fold(query, [catalog |-> c, current |-> <<>>], FlattenSeq(blocks)).catalog,
                present, object)
<1>0. /\ DOMAIN c \subseteq Names /\ IsSequence(blocks) /\ Len(blocks) = N
      /\ \A k \in Names : IsSequence(blocks[k])
      /\ \A k \in Names : BlockTurns(query, c, k, blocks[k], present[k], object[k])
  BY Zenon DEF Turns
<1>1. N \in Nat /\ Names = 1..N
  BY ScanAssumption DEF Names
<1>2. PICK T : blocks \in Seq(Seq(T))
  BY <1>0, <1>1, SequencesOfSequences
<1>3. PICK s : s = [catalog |-> c, current |-> <<>>]
  OBVIOUS
<1>4. PICK after : Stages(after, query, s, blocks, N)
                   /\ Fold(query, s, FlattenSeq(blocks)) = after[N]
  <2>1. Len(blocks) = N
    BY <1>0
  <2>2. QED BY ONLY <1>2, <2>1, FoldStages
<1> DEFINE Done(k) ==
             LET d == after[k].catalog IN
             /\ Ready(after[k], k + 1) /\ DOMAIN d \subseteq Names
             /\ \A n \in 1..k : /\ n \in DOMAIN d <=> present[n]
                                /\ present[n] => d[n] = object[n]
             /\ \A n \in (k + 1)..N : Same(c, d, n)
           S == {k \in Nat : k <= N => Done(k)}
<1>5. Done(0)
  <2>1. after[0] = s
    BY <1>4 DEF Stages
  <2>2. Ready(s, 1)
    BY <1>3 DEF Ready, StateForm
  <2>3. \A n \in 1..N : Same(c, s.catalog, n)
    BY <1>3 DEF Same
  <2>4. s.catalog = c
    BY <1>3
  <2>5. QED BY <1>0, <2>1, <2>2, <2>3, <2>4
<1>6. ASSUME NEW i \in Nat, i + 1 <= N, Done(i) PROVE Done(i + 1)
  <2>1. PICK k, b, u : k = i + 1 /\ b = after[i] /\ u = after[k]
    OBVIOUS
  <2>2. k \in 1..N /\ k - 1 = i /\ k \in Names
    BY <1>1, <1>6, <2>1
  <2>3. u = Fold(query, b, blocks[k])
    <3>1. after[k] = Fold(query, after[k - 1], blocks[k])
      BY <1>4, <2>2, Zenon DEF Stages
    <3>2. QED BY <2>1, <2>2, <3>1
  <2>4. /\ Ready(b, k) /\ DOMAIN b.catalog \subseteq Names
        /\ \A n \in 1..i : /\ n \in DOMAIN b.catalog <=> present[n]
                           /\ present[n] => b.catalog[n] = object[n]
        /\ \A n \in k..N : Same(c, b.catalog, n)
    BY <1>6, <2>1
  <2>5. Ready(u, k + 1) /\ Becomes(b.catalog, u.catalog, k, present[k], object[k])
    <3>1. Same(c, b.catalog, k)
      BY <2>2, <2>4
    <3>2. QED BY <1>0, <2>2, <2>3, <2>4, <3>1 DEF BlockTurns
  <2>6. DOMAIN u.catalog \subseteq Names
    BY <2>2, <2>4, <2>5 DEF Becomes
  <2>7. ASSUME NEW n \in 1..k
        PROVE  /\ n \in DOMAIN u.catalog <=> present[n]
               /\ present[n] => u.catalog[n] = object[n]
    <3>1. CASE n = k
      BY <2>5, <3>1 DEF Becomes
    <3>2. CASE n # k
      <4>1. n \in 1..i
        BY <2>2, <3>2
      <4>2. n \in DOMAIN u.catalog <=> n \in DOMAIN b.catalog
        BY <2>5, <3>2 DEF Becomes
      <4>3. n \in DOMAIN b.catalog => u.catalog[n] = b.catalog[n]
        BY <2>5, <3>2 DEF Becomes
      <4>4. /\ n \in DOMAIN b.catalog <=> present[n]
            /\ present[n] => b.catalog[n] = object[n]
        BY <2>4, <4>1, Zenon
      <4>5. QED BY <4>2, <4>3, <4>4, Zenon
    <3>3. QED BY <3>1, <3>2
  <2>8. ASSUME NEW n \in (k + 1)..N PROVE Same(c, u.catalog, n)
    <3>1. n # k /\ n \in k..N
      BY <2>2
    <3>2. Same(c, b.catalog, n)
      BY <2>4, <3>1
    <3>3. QED BY <2>5, <3>1, <3>2 DEF Becomes, Same
  <2>9. QED BY <2>1, <2>5, <2>6, <2>7, <2>8
<1> HIDE DEF Done
<1>7. Done(N)
  <2>1. ASSUME NEW i \in Nat, i \in S PROVE i + 1 \in S
    <3>1. i + 1 <= N => Done(i + 1)
      <4>1. SUFFICES ASSUME i + 1 <= N PROVE Done(i + 1)
        OBVIOUS
      <4>2. Done(i)
        BY <1>1, <2>1, <4>1
      <4>3. QED BY <1>6, <4>1, <4>2
    <3>2. QED BY <3>1
  <2>2. 0 \in S
    BY <1>5
  <2> HIDE DEF S
  <2>3. N \in S
    BY <1>1, <2>1, <2>2, SetInduction
  <2>4. QED BY <1>1, <2>3 DEF S
<1>8. Turned(after[N].catalog, present, object)
  BY <1>1, <1>7, Zenon DEF Done, Turned
<1>9. QED BY <1>3, <1>4, <1>8

-----------------------------------------------------------------------------
(* The answers of the six queries.                                         *)

AllQueries == {"objects", "columns", "indexes", "primaryKeys", "foreignKeys", "routines"}

(* The objects that a query asks for, and what it reads of one.            *)
Fits(query, d) ==
  CASE query \in {"objects", "columns"} -> IsRelation(d)
    [] query \in {"indexes", "primaryKeys", "foreignKeys"} -> IsTable(d)
    [] query = "routines" -> IsRoutine(d)

IndexesOf(d) == [i \in DOMAIN d.indexes |-> [d.indexes[i] EXCEPT !.columns = Listed(@)]]

Values(query, d) ==
  CASE query = "columns" -> d.columns
    [] query = "indexes" -> IndexesOf(d)
    [] query = "primaryKeys" -> d.primaryKey
    [] query = "foreignKeys" -> KeysOf(d)

ValueRows(n, v) == [i \in 1..Len(v) |-> [name |-> n, value |-> v[i]]]

Block(query, n) ==
  IF ~Fits(query, db[n]) THEN <<>>
  ELSE IF query \in Lists THEN <<[name |-> n, kind |-> db[n].kind]>>
  ELSE IF query = "foreignKeys" THEN KeyRowsOfAll(n, db[n])
  ELSE ValueRows(n, Values(query, db[n]))

LEMMA Shaped ==
  ASSUME db \in [Names -> Shapes \cup {Absent}], NEW n \in Names, NEW query \in AllQueries,
         Fits(query, db[n])
  PROVE  ShapeForm(db[n])
<1>1. db[n] # Absent
  BY DEF Fits, AllQueries, IsRelation, IsTable, IsRoutine
<1>2. db[n] \in Shapes
  BY <1>1
<1>3. QED BY <1>2, ScanAssumption

LEMMA ValuesForm ==
  ASSUME NEW query \in AllQueries \ Lists, NEW d, ShapeForm(d)
  PROVE  IsSequence(Values(query, d))
<1>1. /\ IsSequence(d.columns) /\ IsSequence(d.indexes)
      /\ IsSequence(d.primaryKey) /\ IsSequence(d.foreignKeys)
  BY DEF ShapeForm
<1>2. IsSequence(IndexesOf(d))
  <2>1. PICK v, w, len : v = d.indexes /\ w = IndexesOf(d) /\ len = Len(v) /\ len \in Nat
    BY <1>1 DEF IsSequence
  <2>2. DOMAIN v = 1..len
    BY <1>1, <2>1, SequenceIs
  <2>3. Len(w) = len /\ w = [i \in 1..len |-> w[i]]
    BY <2>1, <2>2 DEF IndexesOf
  <2>4. QED BY <2>1, <2>3 DEF IsSequence
<1>3. IsSequence(KeysOf(d))
  <2>1. PICK v, w, len : v = d.foreignKeys /\ w = KeysOf(d) /\ len = Len(v) /\ len \in Nat
    BY <1>1 DEF IsSequence
  <2>2. DOMAIN v = 1..len
    BY <1>1, <2>1, SequenceIs
  <2>3. Len(w) = len /\ w = [i \in 1..len |-> w[i]]
    BY <2>1, <2>2 DEF KeysOf
  <2>4. QED BY <2>1, <2>3 DEF IsSequence
<1>4. QED BY <1>1, <1>2, <1>3 DEF Values, AllQueries, Lists

LEMMA BlockForm ==
  ASSUME db \in [Names -> Shapes \cup {Absent}], NEW n \in Names, NEW query \in AllQueries
  PROVE  IsSequence(Block(query, n))
<1>1. CASE ~Fits(query, db[n])
  BY <1>1 DEF Block, IsSequence
<1>2. CASE Fits(query, db[n]) /\ query \in Lists
  BY <1>2 DEF Block, IsSequence
<1>3. CASE Fits(query, db[n]) /\ query = "foreignKeys"
  <2>1. PICK blocks : /\ blocks = [i \in DOMAIN db[n].foreignKeys |-> KeyRowsOf(n, db[n].foreignKeys[i])]
                      /\ KeyRowsOfAll(n, db[n]) = FlattenSeq(blocks)
    BY DEF KeyRowsOfAll
  <2>2. IsSequence(blocks) /\ \A i \in 1..Len(blocks) : IsSequence(blocks[i])
    BY <1>3, <2>1, Shaped, KeyFacts
  <2>3. PICK T : blocks \in Seq(Seq(T))
    BY <2>2, SequencesOfSequences
  <2>4. PICK rows : rows = FlattenSeq(blocks)
    OBVIOUS
  <2>5. rows \in Seq(T)
    BY <2>3, <2>4, FlattenElements
  <2>6. Len(rows) \in Nat /\ rows = [i \in 1..Len(rows) |-> rows[i]]
    BY <2>5
  <2>7. QED BY <1>3, <2>1, <2>4, <2>6 DEF Block, IsSequence, Lists
<1>4. CASE Fits(query, db[n]) /\ query \notin Lists /\ query # "foreignKeys"
  <2>1. PICK v, rows, len : /\ v = Values(query, db[n]) /\ rows = ValueRows(n, v)
                             /\ len = Len(v) /\ len \in Nat
    BY <1>4, Shaped, ValuesForm DEF IsSequence
  <2>2. Len(rows) = len /\ rows = [i \in 1..len |-> rows[i]]
    BY <2>1 DEF ValueRows
  <2>3. IsSequence(rows)
    BY <2>1, <2>2 DEF IsSequence
  <2>4. QED BY <1>4, <2>1, <2>3 DEF Block
<1>5. QED BY <1>1, <1>2, <1>3, <1>4

LEMMA RowsByName ==
  ASSUME db \in [Names -> Shapes \cup {Absent}], NEW query \in AllQueries
  PROVE  Rows(query) = FlattenSeq([n \in Names |-> Block(query, n)])
<1>1. CASE query = "objects"
  BY <1>1 DEF Rows, ObjectRows, RowsOf, Block, Fits, Lists
<1>2. CASE query = "routines"
  BY <1>2 DEF Rows, RoutineRows, RowsOf, Block, Fits, Lists
<1>3. CASE query = "columns"
  <2>1. ASSUME NEW n \in Names, IsRelation(db[n])
        PROVE  DOMAIN db[n].columns = 1..Len(db[n].columns)
    BY <1>3, <2>1, Shaped, SequenceIs DEF Fits, ShapeForm
  <2>2. ASSUME NEW n \in Names
        PROVE  Block(query, n) = IF IsRelation(db[n])
                 THEN [i \in DOMAIN db[n].columns |-> [name |-> n, value |-> db[n].columns[i]]]
                 ELSE <<>>
    BY <1>3, <2>1 DEF Block, Fits, Lists, Values, ValueRows
  <2>3. QED BY <1>3, <2>2 DEF Rows, ColumnRows, RowsOf
<1>4. CASE query = "indexes"
  <2>1. ASSUME NEW n \in Names, IsTable(db[n])
        PROVE  DOMAIN IndexesOf(db[n]) = 1..Len(IndexesOf(db[n]))
    BY <1>4, <2>1, Shaped, ValuesForm, SequenceIs DEF Fits, Values, Lists
  <2>2. ASSUME NEW n \in Names
        PROVE  Block(query, n) = IF IsTable(db[n])
                 THEN [i \in DOMAIN db[n].indexes |->
                        [name |-> n, value |-> [db[n].indexes[i] EXCEPT !.columns = Listed(@)]]]
                 ELSE <<>>
    <3>1. CASE IsTable(db[n])
      <4>1. Block(query, n) = [i \in 1..Len(IndexesOf(db[n])) |->
                                [name |-> n, value |-> IndexesOf(db[n])[i]]]
        BY <1>4, <3>1 DEF Block, Fits, Lists, Values, ValueRows
      <4>2. DOMAIN IndexesOf(db[n]) = DOMAIN db[n].indexes
            /\ \A i \in DOMAIN db[n].indexes :
                 IndexesOf(db[n])[i] = [db[n].indexes[i] EXCEPT !.columns = Listed(@)]
        BY DEF IndexesOf
      <4>3. 1..Len(IndexesOf(db[n])) = DOMAIN db[n].indexes
        BY <2>1, <3>1, <4>2
      <4>4. QED BY <3>1, <4>1, <4>2, <4>3
    <3>2. CASE ~IsTable(db[n])
      BY <1>4, <3>2 DEF Block, Fits
    <3>3. QED BY <3>1, <3>2
  <2>3. QED BY <1>4, <2>2 DEF Rows, IndexRows, RowsOf
<1>5. CASE query = "primaryKeys"
  <2>1. ASSUME NEW n \in Names, IsTable(db[n])
        PROVE  DOMAIN db[n].primaryKey = 1..Len(db[n].primaryKey)
    BY <1>5, <2>1, Shaped, SequenceIs DEF Fits, ShapeForm
  <2>2. ASSUME NEW n \in Names
        PROVE  Block(query, n) = IF IsTable(db[n])
                 THEN [i \in DOMAIN db[n].primaryKey |-> [name |-> n, value |-> db[n].primaryKey[i]]]
                 ELSE <<>>
    BY <1>5, <2>1 DEF Block, Fits, Lists, Values, ValueRows
  <2>3. QED BY <1>5, <2>2 DEF Rows, KeyRows, RowsOf
<1>6. CASE query = "foreignKeys"
  <2>1. ASSUME NEW n \in Names
        PROVE  Block(query, n) = IF IsTable(db[n]) THEN KeyRowsOfAll(n, db[n]) ELSE <<>>
    BY <1>6 DEF Block, Fits, Lists
  <2>2. QED BY <1>6, <2>1 DEF Rows, ForeignRows, RowsOf, KeyRowsOfAll, KeyRowsOf
<1>7. QED BY <1>1, <1>2, <1>3, <1>4, <1>5, <1>6 DEF AllQueries

(* What an answer to the query makes of a name.                            *)
Present(query, c, n) ==
  \/ n \in DOMAIN c
  \/ /\ Fits(query, db[n])
     /\ query \in Lists \/ (Registers(query) /\ Values(query, db[n]) # <<>>)

Object(query, c, n) ==
  IF ~Fits(query, db[n]) THEN c[n]
  ELSE IF query \in Lists THEN NewObject(db[n].kind)
  ELSE Put(Base(c, n), PartOf(query), Values(query, db[n]))

LEMMA BlockIs ==
  ASSUME db \in [Names -> Shapes \cup {Absent}], NEW query \in AllQueries, NEW c,
         \A n \in DOMAIN c : /\ Fields(c[n])
                             /\ query \notin Lists => c[n][PartOf(query)] = <<>>,
         NEW n \in Names
  PROVE  BlockTurns(query, c, n, Block(query, n), Present(query, c, n), Object(query, c, n))
<1>0. SUFFICES ASSUME NEW s, Ready(s, n), Same(c, s.catalog, n)
               PROVE  LET t == Fold(query, s, Block(query, n))
                      IN /\ Ready(t, n + 1)
                         /\ Becomes(s.catalog, t.catalog, n, Present(query, c, n), Object(query, c, n))
  BY DEF BlockTurns
<1>1. PICK t, rows, b : /\ rows = Block(query, n) /\ t = Fold(query, s, rows) /\ b = s.catalog
  OBVIOUS
<1>2. StateForm(s) /\ n \in Nat /\ N \in Nat /\ Names = 1..N
  BY <1>0, ScanAssumption DEF Ready, Names
<1>3. /\ n \in DOMAIN b <=> n \in DOMAIN c
      /\ n \in DOMAIN c => b[n] = c[n]
      /\ Base(b, n) = Base(c, n)
  BY <1>0, <1>1 DEF Same, Base
<1>4. ASSUME StateForm(t), t.current = s.current \/ \E x : t.current = <<n, x>>
      PROVE  Ready(t, n + 1)
  <2>1. ASSUME NEW m \in Names, m >= n + 1, NEW x PROVE t.current # <<m, x>>
    <3>1. m # n /\ m >= n
      BY <1>2, <2>1
    <3>2. s.current # <<m, x>>
      BY <1>0, <3>1 DEF Ready
    <3>3. QED BY <1>4, <3>1, <3>2
  <2>2. QED BY <1>4, <2>1 DEF Ready
<1>5. CASE ~Fits(query, db[n])
  <2>1. t = s
    BY <1>1, <1>5, FoldEmpty DEF Block
  <2>2. Becomes(b, t.catalog, n, Present(query, c, n), Object(query, c, n))
    BY <1>1, <1>3, <1>5, <2>1 DEF Becomes, Present, Object
  <2>3. QED BY <1>1, <1>2, <1>4, <2>1, <2>2
<1>6. CASE Fits(query, db[n]) /\ query \in Lists
  <2>1. rows = <<[name |-> n, kind |-> db[n].kind]>>
    BY <1>1, <1>6 DEF Block
  <2>2. /\ StateForm(t) /\ t.current = s.current
        /\ Becomes(b, t.catalog, n, TRUE, NewObject(db[n].kind))
    <3>1. PICK kind : kind = db[n].kind
      OBVIOUS
    <3>2. query \in Lists /\ StateForm(s)
      BY <1>2, <1>6
    <3>3. LET t2 == Fold(query, s, <<[name |-> n, kind |-> kind]>>)
          IN /\ StateForm(t2) /\ t2.current = s.current
             /\ Becomes(s.catalog, t2.catalog, n, TRUE, NewObject(kind))
      BY ONLY <3>2, BlockListed
    <3>4. QED BY <1>1, <2>1, <3>1, <3>3
  <2>3. Present(query, c, n) /\ Object(query, c, n) = NewObject(db[n].kind)
    BY <1>6 DEF Present, Object
  <2>4. Becomes(b, t.catalog, n, Present(query, c, n), Object(query, c, n))
    BY <2>2, <2>3 DEF Becomes
  <2>5. QED BY <1>1, <1>4, <2>2, <2>4
<1>7. CASE Fits(query, db[n]) /\ query = "foreignKeys"
  <2>1. rows = KeyRowsOfAll(n, db[n]) /\ ShapeForm(db[n])
    BY <1>1, <1>7, Shaped DEF Block, Lists
  <2>2. CASE n \notin DOMAIN c
    <3>1. t = s
      BY <1>1, <1>3, <1>7, <2>1, <2>2, KeysPassed
    <3>2. ~Present(query, c, n)
      BY <1>7, <2>2 DEF Present, Lists, Registers
    <3>3. Becomes(b, t.catalog, n, Present(query, c, n), Object(query, c, n))
      BY <1>1, <1>3, <2>2, <3>1, <3>2 DEF Becomes
    <3>4. QED BY <1>1, <1>2, <1>4, <3>1, <3>3
  <2>3. CASE n \in DOMAIN c
    <3>1. PICK o : o = c[n]
      OBVIOUS
    <3>2. Fields(o) /\ o.foreignKeys = <<>> /\ o = b[n] /\ Base(c, n) = o
      BY <1>3, <1>7, <2>3, <3>1 DEF Lists, PartOf, Base
    <3>3. \A x : s.current # <<n, x>>
      BY <1>0, <1>2 DEF Ready
    <3>4. /\ StateForm(t) /\ (t.current = s.current \/ \E x : t.current = <<n, x>>)
          /\ Becomes(b, t.catalog, n, TRUE, Put(o, "foreignKeys", KeysOf(db[n])))
      <4>0. PICK d : d = db[n]
        OBVIOUS
      <4>1. ShapeForm(d) /\ StateForm(s) /\ n \in DOMAIN s.catalog /\ o = s.catalog[n]
            /\ Fields(o) /\ o.foreignKeys = <<>> /\ \A x : s.current # <<n, x>>
        BY <1>1, <1>2, <1>3, <2>1, <2>3, <3>2, <3>3, <4>0
      <4>2. LET t2 == Fold("foreignKeys", s, KeyRowsOfAll(n, d))
            IN /\ StateForm(t2) /\ (t2.current = s.current \/ \E x : t2.current = <<n, x>>)
               /\ Becomes(s.catalog, t2.catalog, n, TRUE, Put(o, "foreignKeys", KeysOf(d)))
        BY ONLY <4>1, KeysAttached
      <4>3. QED BY <1>1, <1>7, <2>1, <4>0, <4>2
    <3>5. Present(query, c, n) /\ Object(query, c, n) = Put(o, "foreignKeys", KeysOf(db[n]))
      BY <1>7, <2>3, <3>2 DEF Present, Object, Lists, PartOf, Values
    <3>6. Becomes(b, t.catalog, n, Present(query, c, n), Object(query, c, n))
      BY <3>4, <3>5 DEF Becomes
    <3>7. QED BY <1>1, <1>4, <3>4, <3>6
  <2>4. QED BY <2>2, <2>3
<1>8. CASE Fits(query, db[n]) /\ query \notin Lists /\ query # "foreignKeys"
  <2>1. PICK v : v = Values(query, db[n])
    OBVIOUS
  <2>2. rows = [i \in 1..Len(v) |-> [name |-> n, value |-> v[i]]] /\ query \in Attaches
    BY <1>1, <1>8, <2>1 DEF Block, ValueRows, AllQueries, Lists, Attaches
  <2>3. Len(v) \in Nat /\ First(v, Len(v)) = v
    BY <1>8, <2>1, Shaped, ValuesForm, SequenceIs
  <2>4. Fields(Base(b, n)) /\ Base(b, n)[PartOf(query)] = <<>>
    <3>1. PartOf(query) \in Parts
      BY <2>2 DEF Attaches, PartOf, Parts
    <3>2. QED BY <1>3, <1>8, <3>1, NewIs DEF Base
  <2>5. /\ StateForm(t) /\ t.current = s.current
        /\ Becomes(b, t.catalog, n, n \in DOMAIN b \/ (Registers(query) /\ v # <<>>),
                   Put(Base(b, n), PartOf(query), v))
    <3>1. query \in Attaches /\ StateForm(s) /\ Len(v) \in Nat
          /\ Fields(Base(s.catalog, n)) /\ Base(s.catalog, n)[PartOf(query)] = <<>>
      BY <1>1, <1>2, <2>2, <2>3, <2>4
    <3>2. LET t2 == Fold(query, s, [i \in 1..Len(v) |-> [name |-> n, value |-> v[i]]])
          IN /\ StateForm(t2) /\ t2.current = s.current
             /\ Becomes(s.catalog, t2.catalog, n,
                        n \in DOMAIN s.catalog \/ (Registers(query) /\ v # <<>>),
                        Put(Base(s.catalog, n), PartOf(query), First(v, Len(v))))
      BY ONLY <3>1, BlockAttached
    <3>3. QED BY <1>1, <2>2, <2>3, <3>2
  <2>6. Present(query, c, n) <=> n \in DOMAIN b \/ (Registers(query) /\ v # <<>>)
    BY <1>3, <1>8, <2>1 DEF Present
  <2>7. Object(query, c, n) = Put(Base(b, n), PartOf(query), v)
    BY <1>3, <1>8, <2>1 DEF Object
  <2>8. Becomes(b, t.catalog, n, Present(query, c, n), Object(query, c, n))
    BY <2>5, <2>6, <2>7 DEF Becomes
  <2>9. QED BY <1>1, <1>4, <2>5, <2>8
<1>9. QED BY <1>5, <1>6, <1>7, <1>8

(* The answer to one query, name by name.                                  *)
LEMMA QueryEffect ==
  ASSUME db \in [Names -> Shapes \cup {Absent}], NEW query \in AllQueries, NEW c,
         DOMAIN c \subseteq Names,
         \A n \in DOMAIN c : /\ Fields(c[n])
                             /\ query \notin Lists => c[n][PartOf(query)] = <<>>
  PROVE  LET d == Answered(query, c)
         IN /\ DOMAIN d \subseteq Names
            /\ \A n \in Names : /\ n \in DOMAIN d <=> Present(query, c, n)
                                /\ n \in DOMAIN d => d[n] = Object(query, c, n)
<1>1. N \in Nat /\ Names = 1..N
  BY ScanAssumption DEF Names
<1>2. PICK blocks, present, object :
        /\ blocks = [n \in Names |-> Block(query, n)]
        /\ present = [n \in Names |-> Present(query, c, n)]
        /\ object = [n \in Names |-> Object(query, c, n)]
  OBVIOUS
<1>3. IsSequence(blocks) /\ Len(blocks) = N
  BY <1>1, <1>2 DEF IsSequence
<1>4. \A k \in Names : /\ blocks[k] = Block(query, k)
                       /\ present[k] = Present(query, c, k) /\ object[k] = Object(query, c, k)
  BY <1>2
<1>5. \A k \in Names : IsSequence(blocks[k])
  BY <1>4, BlockForm
<1>6. \A k \in Names : BlockTurns(query, c, k, blocks[k], present[k], object[k])
  <2>1. TAKE k \in Names
  <2>2. BlockTurns(query, c, k, Block(query, k), Present(query, c, k), Object(query, c, k))
    BY BlockIs
  <2>3. QED BY <1>4, <2>2
<1>7. Answered(query, c) = Fold(query, [catalog |-> c, current |-> <<>>], FlattenSeq(blocks)).catalog
  BY <1>2, RowsByName DEF Answered
<1>8. Turned(Answered(query, c), present, object)
  <2>1. Turns(query, c, blocks, present, object)
    BY <1>3, <1>5, <1>6, Zenon DEF Turns
  <2>2. Turned(Fold(query, [catalog |-> c, current |-> <<>>], FlattenSeq(blocks)).catalog,
               present, object)
    BY <2>1, Lift
  <2>3. QED BY <1>7, <2>2
<1>9. QED BY <1>4, <1>8 DEF Turned

-----------------------------------------------------------------------------
(* The columns of an index, joined and taken apart.                        *)

LEMMA FlattenSingles ==
  ASSUME NEW seqs, IsSequence(seqs), NEW h, IsSequence(h), Len(h) = Len(seqs),
         \A i \in 1..Len(seqs) : seqs[i] = <<h[i]>>
  PROVE  FlattenSeq(seqs) = h
<1> DEFINE T == {h[i] : i \in 1..Len(h)}
<1>1. Len(h) \in Nat /\ First(h, Len(h)) = h /\ Len(seqs) = Len(h)
  BY SequenceIs
<1>2. \A i \in 1..Len(h) : h[i] \in T
  OBVIOUS
<1> HIDE DEF T
<1>3. seqs \in Seq(Seq(T))
  <2>1. ASSUME NEW i \in 1..Len(seqs) PROVE seqs[i] \in Seq(T)
    <3>1. PICK x : x = h[i]
      OBVIOUS
    <3>2. seqs[i] = <<x>> /\ x \in T
      BY <1>1, <1>2, <3>1
    <3>3. QED BY <3>2
  <2>2. seqs \in Seq({seqs[i] : i \in 1..Len(seqs)})
    BY SequenceIs
  <2>3. {seqs[i] : i \in 1..Len(seqs)} \subseteq Seq(T)
    BY <2>1
  <2>4. QED BY <2>2, <2>3, SeqMonotonic
<1>4. CASE Len(seqs) = 0
  <2>1. seqs = <<>> /\ h = <<>>
    BY <1>1, <1>3, <1>4 DEF First
  <2>2. QED BY <2>1 DEF FlattenSeq
<1>5. CASE Len(seqs) > 0
  <2>1. PICK G : G = {<<k, First(h, k)>> : k \in Nat}
    OBVIOUS
  <2>2. <<1, seqs[1]>> \in G
    <3>1. First(h, 1) = <<h[1]>>
      BY DEF First
    <3>2. seqs[1] = <<h[1]>>
      BY <1>1, <1>5
    <3>3. QED BY <2>1, <3>1, <3>2
  <2>3. ASSUME NEW k \in 1..Len(seqs), NEW r \in Seq(T), k # 1, <<k - 1, r>> \in G
        PROVE  <<k, r \o seqs[k]>> \in G
    <3>1. k \in Nat /\ k - 1 \in Nat /\ (k - 1) + 1 = k /\ k \in 1..Len(h)
      BY <1>1, <2>3
    <3>2. r = First(h, k - 1)
      BY <2>1, <2>3
    <3>3. r \o <<h[k]>> = Append(r, h[k])
      BY <1>2, <3>1
    <3>4. Append(First(h, k - 1), h[(k - 1) + 1]) = First(h, (k - 1) + 1)
      BY <3>1, FirstIs
    <3>5. r \o seqs[k] = First(h, k)
      BY <3>1, <3>2, <3>3, <3>4
    <3>6. QED BY <2>1, <3>1, <3>5
  <2>4. <<Len(seqs), FlattenSeq(seqs)>> \in G
    <3>1. \A k \in 1..Len(seqs) : \A r \in Seq(T) :
            k # 1 /\ <<k - 1, r>> \in G => <<k, r \o seqs[k]>> \in G
      BY <2>3
    <3>2. QED BY ONLY <1>3, <1>5, <2>2, <3>1, FlattenInduction
  <2>5. FlattenSeq(seqs) = First(h, Len(h))
    BY <1>1, <2>1, <2>4
  <2>6. QED BY <1>1, <2>5
<1>6. QED BY <1>1, <1>4, <1>5

LEMMA ListedIs ==
  ASSUME NEW columns, IsSequence(columns),
         \A k \in 1..Len(columns) :
           IsSequence(columns[k]) /\ Len(columns[k]) = 1 /\ columns[k] # <<"">>
  PROVE  Listed(columns) = columns
<1>1. PICK len, parts : len = Len(columns) /\ parts = [k \in 1..len |-> columns[k][1]]
  OBVIOUS
<1>2. len \in Nat
  BY <1>1 DEF IsSequence
<1>3. IsSequence(parts) /\ Len(parts) = len /\ DOMAIN parts = 1..len
  <2>1. parts = [k \in 1..len |-> columns[k][1]]
    BY <1>1
  <2>2. DOMAIN parts = 1..len /\ Len(parts) = len
    BY ONLY <1>2, <2>1
  <2>3. parts = [k \in 1..len |-> parts[k]]
    BY ONLY <1>2, <2>1
  <2>4. QED BY <1>2, <2>2, <2>3 DEF IsSequence
<1>4. ASSUME NEW k \in 1..len PROVE columns[k] = <<parts[k]>> /\ parts[k] # ""
  <2>1. PICK name : name = columns[k]
    OBVIOUS
  <2>2. name = [i \in 1..1 |-> name[i]] /\ name # <<"">>
    BY <1>1, <2>1 DEF IsSequence
  <2>3. name = First(name, 1)
    BY <2>2 DEF First
  <2>4. First(name, 1) = <<name[1]>>
    BY ONLY TRUE DEF First
  <2>5. parts[k] = name[1]
    BY <1>1, <2>1
  <2>6. QED BY <2>1, <2>2, <2>3, <2>4, <2>5
<1>5. FlattenSeq(columns) = parts
  BY <1>1, <1>3, <1>4, FlattenSingles
<1>6. PICK each : each = [i \in DOMAIN parts |-> IF parts[i] = "" THEN <<>> ELSE <<<<parts[i]>>>>]
  OBVIOUS
<1>7. IsSequence(each) /\ Len(each) = len /\ \A k \in 1..len : each[k] = <<columns[k]>>
  <2>1. Len(each) = len /\ each = [k \in 1..len |-> each[k]]
    <3>1. each = [i \in 1..len |-> IF parts[i] = "" THEN <<>> ELSE <<<<parts[i]>>>>]
      BY <1>3, <1>6
    <3>2. each = [k \in 1..len |-> each[k]]
      BY ONLY <3>1
    <3>3. Len(each) = len
      <4>1. each = First(each, len)
        BY <3>2, Zenon DEF First
      <4>2. QED BY <1>2, <4>1, FirstIs
    <3>4. QED BY <3>2, <3>3
  <2>2. \A k \in 1..len : each[k] = <<columns[k]>>
    BY <1>3, <1>4, <1>6
  <2>3. QED BY <1>2, <2>1, <2>2 DEF IsSequence
<1>8. FlattenSeq(each) = columns
  BY <1>1, <1>7, FlattenSingles
<1>9. Listed(columns) = FlattenSeq(each)
  BY <1>5, <1>6 DEF Listed
<1>10. QED BY <1>8, <1>9

(* What a query reads of a definition agrees with it.                      *)
LEMMA ValuesAgree ==
  ASSUME NEW query \in AllQueries \ Lists, NEW d, ShapeForm(d),
         reader = "driver" => query = "columns"
  PROVE  Agrees(PartOf(query), Values(query, d), d)
<1>1. CASE query = "columns"
  BY <1>1 DEF Agrees, PartOf, Values, Faithful, NewObject
<1>2. CASE query = "primaryKeys"
  BY <1>2 DEF Agrees, PartOf, Values, Faithful
<1>3. CASE query = "foreignKeys"
  BY <1>3 DEF Agrees, PartOf, Values, Faithful, KeysOf, ForeignKey
<1>4. CASE query = "indexes"
  <2>1. PICK seen, indexes : seen = IndexesOf(d) /\ indexes = d.indexes
    OBVIOUS
  <2>2. Len(indexes) \in Nat /\ DOMAIN indexes = 1..Len(indexes)
    BY <2>1, SequenceIs DEF ShapeForm
  <2>3. seen = [i \in DOMAIN indexes |-> [indexes[i] EXCEPT !.columns = Listed(@)]]
    BY <2>1 DEF IndexesOf
  <2>4. Len(seen) = Len(indexes) /\ DOMAIN seen = DOMAIN indexes
    BY <2>2, <2>3
  <2>5. ASSUME NEW i \in DOMAIN seen
        PROVE  /\ seen[i].name = indexes[i].name
               /\ (\A k \in DOMAIN indexes[i].columns : Len(indexes[i].columns[k]) = 1)
                    => seen[i].columns = indexes[i].columns
    <3>1. PICK index : index = indexes[i]
      OBVIOUS
    <3>2. /\ index = [name |-> index.name, columns |-> index.columns]
          /\ IsSequence(index.columns)
          /\ \A k \in 1..Len(index.columns) :
               IsSequence(index.columns[k]) /\ index.columns[k] # <<"">>
      BY <2>1, <2>2, <2>4, <3>1 DEF ShapeForm
    <3>3. seen[i] = [index EXCEPT !.columns = Listed(@)]
      BY <2>3, <2>4, <3>1
    <3>4. seen[i].name = index.name /\ seen[i].columns = Listed(index.columns)
      BY <3>2, <3>3
    <3>5. ASSUME \A k \in DOMAIN index.columns : Len(index.columns[k]) = 1
          PROVE  Listed(index.columns) = index.columns
      <4>1. DOMAIN index.columns = 1..Len(index.columns)
        BY <3>2, SequenceIs
      <4>2. QED BY <3>2, <3>5, <4>1, ListedIs
    <3>6. QED BY <3>1, <3>4, <3>5
  <2>6. Faithful(d).indexes = indexes
    BY <1>4, <2>1 DEF Faithful
  <2>7. Agrees("indexes", seen, d)
    BY <2>4, <2>5, <2>6 DEF Agrees
  <2>8. QED BY <1>4, <2>1, <2>7 DEF PartOf, Values
<1>5. QED BY <1>1, <1>2, <1>3, <1>4 DEF AllQueries, Lists

-----------------------------------------------------------------------------
(* The invariant, name by name, after k queries.                           *)

AskedAt(k, d) == (IsRelation(d) /\ k >= 1) \/ (IsRoutine(d) /\ k >= 6)

Traced(o, seen, k) ==
  /\ ObjectForm(o) /\ (o.kind \in RoutineKinds => k >= 6)
  /\ \E d \in seen : AskedAt(k, d) /\ (o.kind = d.kind \/ (reader = "driver" /\ seen # {d}))
  /\ \A part \in Parts :
       \/ o[part] = <<>>
       \/ k >= ReadBy(part) /\ \E d \in seen : AskedAt(k, d) /\ Agrees(part, o[part], d)

Exactly(o, d, k) ==
  /\ o.kind = d.kind
  /\ \A part \in Parts : k >= ReadBy(part) => Agrees(part, o[part], d)

LEMMA Unfolded ==
  /\ Attributed <=> \A n \in DOMAIN catalog : Traced(catalog[n], past[n], asked)
  /\ Exact <=> \A n \in Names : past[n] = {db[n]} =>
                 /\ n \in DOMAIN catalog <=> ended # "failed" /\ AskedAt(asked, db[n])
                 /\ n \in DOMAIN catalog => Exactly(catalog[n], db[n], asked)
<1>1. \A d : AskedFor(d) <=> AskedAt(asked, d)
  BY DEF AskedFor, AskedAt
<1>2. Attributed <=> \A n \in DOMAIN catalog : Traced(catalog[n], past[n], asked)
  BY <1>1 DEF Attributed, Traced
<1>3. QED BY <1>1, <1>2 DEF Exact, Exactly

LEMMA ReadByIs ==
  /\ ReadBy("columns") = 2 /\ ReadBy("indexes") = 3
  /\ ReadBy("primaryKey") = 4 /\ ReadBy("foreignKeys") = 5
  /\ \A part \in Parts : ReadBy(part) \in 2..5
  /\ \A p, q \in Parts : ReadBy(p) = ReadBy(q) => p = q
<1>1. /\ ReadBy("columns") = 2 /\ ReadBy("indexes") = 3
      /\ ReadBy("primaryKey") = 4 /\ ReadBy("foreignKeys") = 5
  BY DEF ReadBy
<1>2. \A part \in Parts : part \in {"columns", "indexes", "primaryKey", "foreignKeys"}
  BY DEF Parts
<1>3. QED BY <1>1, <1>2

LEMMA QueryNumber ==
  ASSUME TypeOK, Progress, ended = "no", NEW q, q = Queries(reader)[asked + 1]
  PROVE  /\ asked \in 0..5 /\ q \in AllQueries /\ asked + 1 <= Len(Queries(reader))
         /\ q \in Lists => (q = "objects" /\ asked = 0) \/ (q = "routines" /\ asked = 5)
         /\ q \notin Lists => /\ PartOf(q) \in Parts /\ ReadBy(PartOf(q)) = asked + 1
                              /\ asked \in 1..4 /\ (reader = "driver" => q = "columns")
         /\ reader = "driver" => asked \in 0..1
<1>1. asked \in 0..6 /\ reader \in {"driver", "adapter"} /\ asked < Len(Queries(reader))
  BY DEF TypeOK, Progress
<1>2. CASE reader = "driver"
  <2>1. PICK list : list = <<"objects", "columns">>
    OBVIOUS
  <2>2. Len(list) = 2 /\ list[1] = "objects" /\ list[2] = "columns"
    BY <2>1
  <2>3. Queries(reader) = list
    BY <1>2, <2>1 DEF Queries
  <2>4. asked < 2 /\ asked \in 0..6
    BY <1>1, <2>2, <2>3
  <2>5. asked = 0 \/ asked = 1
    BY ONLY <2>4
  <2>6. QED
    BY <1>2, <2>2, <2>3, <2>5, ReadByIs DEF AllQueries, Lists, PartOf, Parts
<1>3. CASE reader # "driver"
  <2>1. PICK list :
          list = <<"objects", "columns", "indexes", "primaryKeys", "foreignKeys", "routines">>
    OBVIOUS
  <2>2. /\ Len(list) = 6 /\ list[1] = "objects" /\ list[2] = "columns" /\ list[3] = "indexes"
        /\ list[4] = "primaryKeys" /\ list[5] = "foreignKeys" /\ list[6] = "routines"
    BY <2>1
  <2>3. Queries(reader) = list
    BY <1>3, <2>1 DEF Queries
  <2>4. asked < 6 /\ asked \in 0..6
    BY <1>1, <2>2, <2>3
  <2>5. asked = 0 \/ asked = 1 \/ asked = 2 \/ asked = 3 \/ asked = 4 \/ asked = 5
    BY ONLY <2>4
  <2>6. asked \in 0..5 /\ asked + 1 <= Len(Queries(reader))
    <3>1. Len(Queries(reader)) = 6
      BY <2>2, <2>3
    <3>2. asked \in 0..5 /\ asked + 1 <= 6
      BY ONLY <2>5
    <3>3. QED BY <3>1, <3>2
  <2>7. q = list[asked + 1]
    BY <2>3
  <2>8. CASE asked = 0
    BY <1>3, <2>2, <2>6, <2>7, <2>8 DEF AllQueries, Lists
  <2>9. CASE asked = 1
    BY <1>3, <2>2, <2>6, <2>7, <2>9, ReadByIs DEF AllQueries, Lists, PartOf, Parts
  <2>10. CASE asked = 2
    BY <1>3, <2>2, <2>6, <2>7, <2>10, ReadByIs DEF AllQueries, Lists, PartOf, Parts
  <2>11. CASE asked = 3
    BY <1>3, <2>2, <2>6, <2>7, <2>11, ReadByIs DEF AllQueries, Lists, PartOf, Parts
  <2>12. CASE asked = 4
    BY <1>3, <2>2, <2>6, <2>7, <2>12, ReadByIs DEF AllQueries, Lists, PartOf, Parts
  <2>13. CASE asked = 5
    BY <1>3, <2>2, <2>6, <2>7, <2>13 DEF AllQueries, Lists
  <2>14. QED BY <2>5, <2>8, <2>9, <2>10, <2>11, <2>12, <2>13
<1>4. QED BY <1>2, <1>3

(* Before its query, a part is empty in every object, and the catalog      *)
(* before the first.                                                       *)
LEMMA BeforeQuery ==
  ASSUME IInv, ended = "no", NEW q, q = Queries(reader)[asked + 1]
  PROVE  /\ DOMAIN catalog \subseteq Names
         /\ \A n \in DOMAIN catalog : /\ Fields(catalog[n])
                                      /\ q \notin Lists => catalog[n][PartOf(q)] = <<>>
         /\ asked = 0 => DOMAIN catalog = {}
<1>1. TypeOK /\ Progress /\ asked \in Nat
  BY DEF IInv, TypeOK
<1>2. \A n \in DOMAIN catalog : Traced(catalog[n], past[n], asked)
  BY Unfolded DEF IInv
<1>3. ASSUME NEW n \in DOMAIN catalog, q \notin Lists PROVE catalog[n][PartOf(q)] = <<>>
  <2>1. PartOf(q) \in Parts /\ ReadBy(PartOf(q)) = asked + 1
    BY <1>1, <1>3, QueryNumber
  <2>2. ~(asked >= ReadBy(PartOf(q)))
    BY <1>1, <2>1
  <2>3. QED BY <1>2, <1>3, <2>1, <2>2 DEF Traced
<1>4. ASSUME NEW n \in DOMAIN catalog PROVE Fields(catalog[n])
  BY <1>2, <1>4 DEF Traced, ObjectForm, Fields
<1>5. asked = 0 => DOMAIN catalog = {}
  <2>1. ASSUME asked = 0, NEW n \in DOMAIN catalog PROVE FALSE
    <3>1. PICK d \in past[n] : AskedAt(asked, d)
      BY <1>2, <2>1 DEF Traced
    <3>2. QED BY <2>1, <3>1 DEF AskedAt
  <2>2. QED BY <2>1
<1>6. QED BY <1>1, <1>3, <1>4, <1>5 DEF TypeOK

LEMMA TracedMore ==
  ASSUME NEW o, NEW seen, NEW k \in Nat, Traced(o, seen, k),
         NEW more, seen \subseteq more, NEW m \in Nat, k <= m
  PROVE  Traced(o, more, m)
<1>1. \A d : AskedAt(k, d) => AskedAt(m, d)
  BY DEF AskedAt
<1>2. \A part \in Parts : ReadBy(part) \in Nat
  BY ReadByIs
<1>3. \A part \in Parts :
        \/ o[part] = <<>>
        \/ m >= ReadBy(part) /\ \E d \in more : AskedAt(m, d) /\ Agrees(part, o[part], d)
  <2>1. ASSUME NEW part \in Parts, o[part] # <<>>
        PROVE  m >= ReadBy(part) /\ \E d \in more : AskedAt(m, d) /\ Agrees(part, o[part], d)
    <3>1. k >= ReadBy(part) /\ \E d \in seen : AskedAt(k, d) /\ Agrees(part, o[part], d)
      BY <2>1 DEF Traced
    <3>2. m >= ReadBy(part)
      BY <1>2, <3>1
    <3>3. QED BY <1>1, <3>1, <3>2
  <2>2. QED BY <2>1
<1>4. ObjectForm(o) /\ (o.kind \in RoutineKinds => m >= 6)
  BY DEF Traced
<1>5. \E d \in more : AskedAt(m, d) /\ (o.kind = d.kind \/ (reader = "driver" /\ more # {d}))
  <2>1. PICK d \in seen : AskedAt(k, d) /\ (o.kind = d.kind \/ (reader = "driver" /\ seen # {d}))
    BY DEF Traced
  <2>2. QED BY <1>1, <2>1
<1>6. QED BY <1>3, <1>4, <1>5 DEF Traced

LEMMA NewIsTraced ==
  ASSUME NEW seen, NEW d \in seen, NEW k, AskedAt(k, d), ShapeForm(d), NEW kind,
         kind \in RelationKinds \cup RoutineKinds, kind \in RoutineKinds => k >= 6,
         kind = d.kind \/ (reader = "driver" /\ seen # {d})
  PROVE  Traced(NewObject(kind), seen, k)
<1>1. ObjectForm(NewObject(kind))
  BY DEF ObjectForm, NewObject, IsSequence
<1>2. QED BY <1>1, NewIs DEF Traced

LEMMA PutIsTraced ==
  ASSUME NEW seen, NEW k, NEW o, Traced(o, seen, k), o.kind \notin RoutineKinds,
         NEW query \in AllQueries \ Lists, NEW d \in seen, ShapeForm(d), AskedAt(k, d),
         k >= ReadBy(PartOf(query)), reader = "driver" => query = "columns"
  PROVE  Traced(Put(o, PartOf(query), Values(query, d)), seen, k)
<1>1. PICK part, v, u : part = PartOf(query) /\ v = Values(query, d) /\ u = Put(o, part, v)
  OBVIOUS
<1>2. part \in Parts /\ ObjectForm(o) /\ Fields(o)
  BY <1>1 DEF AllQueries, Lists, PartOf, Parts, Traced, ObjectForm, Fields
<1>3. /\ Fields(u) /\ u[part] = v /\ u.kind = o.kind
      /\ \A p \in Parts \ {part} : u[p] = o[p]
  BY <1>1, <1>2, PutIs
<1>4. Agrees(part, v, d)
  BY <1>1, ValuesAgree
<1>5. ObjectForm(u)
  <2>1. IsSequence(u.indexes) /\ \A i \in DOMAIN u.indexes :
          u.indexes[i] = [name |-> u.indexes[i].name, columns |-> u.indexes[i].columns]
    <3>1. CASE part # "indexes"
      <4>1. "indexes" \in Parts \ {part}
        BY <3>1 DEF Parts
      <4>2. u.indexes = o.indexes
        BY <1>3, <4>1
      <4>3. QED BY <1>2, <4>2 DEF ObjectForm
    <3>2. CASE part = "indexes"
      <4>1. query = "indexes"
        BY <1>1, <3>2 DEF PartOf
      <4>2. u.indexes = IndexesOf(d)
        BY <1>1, <1>3, <3>2, <4>1 DEF Values
      <4>3. IsSequence(IndexesOf(d))
        BY <4>1, ValuesForm DEF Values
      <4>4. PICK indexes, of : indexes = d.indexes /\ of = IndexesOf(d)
        OBVIOUS
      <4>5. \A i \in DOMAIN indexes :
              indexes[i] = [name |-> indexes[i].name, columns |-> indexes[i].columns]
        <5>1. IsSequence(indexes) /\ \A i \in 1..Len(indexes) :
                indexes[i] = [name |-> indexes[i].name, columns |-> indexes[i].columns]
          BY <4>4 DEF ShapeForm
        <5>2. QED BY <5>1, SequenceIs
      <4>6. DOMAIN of = DOMAIN indexes
            /\ \A i \in DOMAIN indexes : of[i] = [indexes[i] EXCEPT !.columns = Listed(@)]
        BY <4>4 DEF IndexesOf
      <4>7. ASSUME NEW i \in DOMAIN of
            PROVE  of[i] = [name |-> of[i].name, columns |-> of[i].columns]
        <5>1. PICK index, image : index = indexes[i] /\ image = of[i]
          OBVIOUS
        <5>2. index = [name |-> index.name, columns |-> index.columns]
              /\ image = [index EXCEPT !.columns = Listed(@)]
          BY <4>5, <4>6, <4>7, <5>1
        <5>3. image = [name |-> image.name, columns |-> image.columns]
          BY <5>2
        <5>4. QED BY <5>1, <5>3
      <4>8. QED BY <4>2, <4>3, <4>4, <4>7
    <3>3. QED BY <3>1, <3>2
  <2>2. QED BY <1>2, <1>3, <2>1 DEF ObjectForm, Fields
<1>6. \A p \in Parts :
        \/ u[p] = <<>>
        \/ k >= ReadBy(p) /\ \E x \in seen : AskedAt(k, x) /\ Agrees(p, u[p], x)
  <2>1. ASSUME NEW p \in Parts
        PROVE  \/ u[p] = <<>>
               \/ k >= ReadBy(p) /\ \E x \in seen : AskedAt(k, x) /\ Agrees(p, u[p], x)
    <3>1. CASE p = part
      BY <1>1, <1>3, <1>4, <3>1
    <3>2. CASE p # part
      <4>1. u[p] = o[p]
        BY <1>3, <3>2
      <4>2. \/ o[p] = <<>>
            \/ k >= ReadBy(p) /\ \E x \in seen : AskedAt(k, x) /\ Agrees(p, o[p], x)
        BY DEF Traced
      <4>3. QED BY <4>1, <4>2
    <3>3. QED BY <3>1, <3>2
  <2>2. QED BY <2>1
<1>7. Traced(u, seen, k)
  BY <1>3, <1>5, <1>6 DEF Traced
<1>8. QED BY <1>1, <1>7

(* What a query leaves under a name is traced to what the name stood for,  *)
LEMMA QueryTraces ==
  ASSUME IInv, ended = "no", NEW q, q = Queries(reader)[asked + 1],
         NEW n \in Names, Present(q, catalog, n)
  PROVE  Traced(Object(q, catalog, n), past[n], asked + 1)
<1>1. /\ TypeOK /\ Progress /\ asked \in Nat /\ asked + 1 \in Nat /\ asked <= asked + 1
      /\ db \in [Names -> Shapes \cup {Absent}] /\ db[n] \in past[n]
  BY DEF IInv, TypeOK, Progress
<1>2. /\ asked \in 0..5 /\ q \in AllQueries
      /\ q \in Lists => (q = "objects" /\ asked = 0) \/ (q = "routines" /\ asked = 5)
      /\ q \notin Lists => /\ PartOf(q) \in Parts /\ ReadBy(PartOf(q)) = asked + 1
                           /\ asked \in 1..4 /\ (reader = "driver" => q = "columns")
      /\ reader = "driver" => asked \in 0..1
  BY <1>1, QueryNumber
<1>3. n \in DOMAIN catalog => Traced(catalog[n], past[n], asked)
  BY Unfolded DEF IInv
<1>4. n \in DOMAIN catalog => Traced(catalog[n], past[n], asked + 1)
  BY <1>1, <1>3, TracedMore
<1>5. PICK d : d = db[n]
  OBVIOUS
<1>6. CASE ~Fits(q, d)
  BY <1>4, <1>5, <1>6 DEF Present, Object
<1>7. CASE Fits(q, d) /\ q \in Lists
  <2>0. /\ q = "objects" => IsRelation(d)
        /\ q = "routines" => IsRoutine(d)
    BY <1>7 DEF Fits
  <2>1. AskedAt(asked + 1, d)
    <3>1. CASE q = "objects"
      <4>1. asked + 1 >= 1
        BY <1>1
      <4>2. QED BY <2>0, <3>1, <4>1 DEF AskedAt
    <3>2. CASE q = "routines"
      <4>1. asked + 1 >= 6
        BY <1>2, <1>7, <3>2
      <4>2. QED BY <2>0, <3>2, <4>1 DEF AskedAt
    <3>3. QED BY <1>2, <1>7, <3>1, <3>2
  <2>2. d.kind \in RelationKinds \cup RoutineKinds /\ (d.kind \in RoutineKinds => asked + 1 >= 6)
    <3>1. CASE q = "objects"
      BY <2>0, <3>1 DEF IsRelation, RelationKinds, RoutineKinds
    <3>2. CASE q = "routines"
      <4>1. asked + 1 >= 6
        BY <1>2, <1>7, <3>2
      <4>2. QED BY <2>0, <3>2, <4>1 DEF IsRoutine
    <3>3. QED BY <1>2, <1>7, <3>1, <3>2
  <2>3. ShapeForm(d) /\ d \in past[n]
    BY <1>1, <1>2, <1>5, <1>7, Shaped
  <2>4. Traced(NewObject(d.kind), past[n], asked + 1)
    BY <2>1, <2>2, <2>3, NewIsTraced
  <2>5. QED BY <1>5, <1>7, <2>4 DEF Object
<1>8. CASE Fits(q, d) /\ q \notin Lists
  <2>1. ShapeForm(d) /\ d \in past[n]
    BY <1>1, <1>2, <1>5, <1>8, Shaped
  <2>2. IsRelation(d)
    BY <1>2, <1>8 DEF Fits, AllQueries, Lists, IsRelation, IsTable, RelationKinds
  <2>3. AskedAt(asked + 1, d) /\ AskedAt(asked, d)
    BY <1>2, <1>8, <2>2 DEF AskedAt
  <2>4. Traced(Base(catalog, n), past[n], asked + 1)
    <3>1. CASE n \in DOMAIN catalog
      BY <1>4, <3>1 DEF Base
    <3>2. CASE n \notin DOMAIN catalog
      <4>1. reader = "driver"
        BY <1>8, <3>2 DEF Present, Registers
      <4>2. past[n] # {d}
        <5>1. past[n] = {db[n]} => (n \in DOMAIN catalog <=> ended # "failed" /\ AskedAt(asked, db[n]))
          BY Unfolded DEF IInv
        <5>2. QED BY <1>5, <2>3, <3>2, <5>1
      <4>3. "table" \in RelationKinds /\ "table" \notin RoutineKinds
        BY DEF RelationKinds, RoutineKinds
      <4>4. Traced(NewObject("table"), past[n], asked + 1)
        BY <2>1, <2>3, <4>1, <4>2, <4>3, NewIsTraced
      <4>5. QED BY <3>2, <4>4 DEF Base
    <3>3. QED BY <3>1, <3>2
  <2>5. Base(catalog, n).kind \notin RoutineKinds
    <3>1. CASE n \in DOMAIN catalog
      BY <1>2, <1>3, <1>8, <3>1 DEF Traced, Base
    <3>2. CASE n \notin DOMAIN catalog
      BY <3>2 DEF Base, NewObject, RoutineKinds
    <3>3. QED BY <3>1, <3>2
  <2>6. Traced(Put(Base(catalog, n), PartOf(q), Values(q, d)), past[n], asked + 1)
    <3>1. PICK o : o = Base(catalog, n)
      OBVIOUS
    <3>2. q \in AllQueries \ Lists /\ asked + 1 >= ReadBy(PartOf(q))
          /\ (reader = "driver" => q = "columns")
      BY <1>1, <1>2, <1>8
    <3>3. QED BY <2>1, <2>3, <2>4, <2>5, <3>1, <3>2, PutIsTraced
  <2>7. QED BY <1>5, <1>8, <2>6 DEF Object
<1>9. QED BY <1>6, <1>7, <1>8

(* and exact if the name stood for the same all the time.                  *)
LEMMA QueryIsExact ==
  ASSUME IInv, ended = "no", NEW q, q = Queries(reader)[asked + 1],
         NEW n \in Names, past[n] = {db[n]}
  PROVE  /\ Present(q, catalog, n) <=> AskedAt(asked + 1, db[n])
         /\ Present(q, catalog, n) => Exactly(Object(q, catalog, n), db[n], asked + 1)
<1>1. /\ TypeOK /\ Progress /\ asked \in Nat /\ asked + 1 \in Nat
      /\ db \in [Names -> Shapes \cup {Absent}]
  BY DEF IInv, TypeOK
<1>2. /\ asked \in 0..5 /\ q \in AllQueries
      /\ q \in Lists => (q = "objects" /\ asked = 0) \/ (q = "routines" /\ asked = 5)
      /\ q \notin Lists => /\ PartOf(q) \in Parts /\ ReadBy(PartOf(q)) = asked + 1
                           /\ asked \in 1..4 /\ (reader = "driver" => q = "columns")
      /\ reader = "driver" => asked \in 0..1
  BY <1>1, QueryNumber
<1>3. PICK d : d = db[n]
  OBVIOUS
<1>4. /\ n \in DOMAIN catalog <=> AskedAt(asked, d)
      /\ n \in DOMAIN catalog => Exactly(catalog[n], d, asked)
  BY <1>3, Unfolded DEF IInv
<1>5. n \in DOMAIN catalog => /\ Fields(catalog[n])
                              /\ q \notin Lists => catalog[n][PartOf(q)] = <<>>
  BY BeforeQuery
<1>6. ASSUME AskedAt(asked + 1, d)
      PROVE  ShapeForm(d)
  <2>1. d # Absent
    BY <1>6 DEF AskedAt, IsRelation, IsRoutine
  <2>2. d \in Shapes
    BY <1>1, <1>3, <2>1
  <2>3. QED BY <2>2, ScanAssumption
<1>7. CASE q \in Lists
  <2>1. Present(q, catalog, n) <=> AskedAt(asked + 1, d)
    <3>1. Present(q, catalog, n) <=> AskedAt(asked, d) \/ Fits(q, d)
      BY <1>3, <1>4, <1>7 DEF Present
    <3>2. CASE q = "objects"
      <4>1. asked = 0
        BY <1>2, <1>7, <3>2
      <4>2. ~AskedAt(asked, d) /\ (AskedAt(asked + 1, d) <=> IsRelation(d))
        BY <4>1 DEF AskedAt
      <4>3. Fits(q, d) <=> IsRelation(d)
        BY <3>2 DEF Fits
      <4>4. QED BY <3>1, <4>2, <4>3
    <3>3. CASE q = "routines"
      <4>1. asked = 5
        BY <1>2, <1>7, <3>3
      <4>2. /\ AskedAt(asked, d) <=> IsRelation(d)
            /\ AskedAt(asked + 1, d) <=> IsRelation(d) \/ IsRoutine(d)
        BY <4>1 DEF AskedAt
      <4>3. Fits(q, d) <=> IsRoutine(d)
        BY <3>3 DEF Fits
      <4>4. QED BY <3>1, <4>2, <4>3
    <3>4. QED BY <1>2, <1>7, <3>2, <3>3
  <2>2. ASSUME Present(q, catalog, n) PROVE Exactly(Object(q, catalog, n), d, asked + 1)
    <3>1. ShapeForm(d)
      BY <1>6, <2>1, <2>2
    <3>2. CASE Fits(q, d) /\ q = "objects"
      <4>1. Object(q, catalog, n) = NewObject(d.kind)
        BY <1>3, <3>2 DEF Object, Lists
      <4>2. asked + 1 = 1
        BY <1>2, <1>7, <3>2
      <4>3. \A part \in Parts : ~(asked + 1 >= ReadBy(part))
        BY <4>2, ReadByIs
      <4>4. QED BY <4>1, <4>3, NewIs DEF Exactly
    <3>3. CASE Fits(q, d) /\ q = "routines"
      <4>1. Object(q, catalog, n) = NewObject(d.kind)
        BY <1>3, <3>3 DEF Object, Lists
      <4>2. d.kind \in RoutineKinds /\ reader # "driver"
        BY <1>2, <1>7, <3>3 DEF Fits, IsRoutine
      <4>3. d.columns = <<>> /\ d.indexes = <<>> /\ d.primaryKey = <<>> /\ d.foreignKeys = <<>>
        BY <3>1, <4>2 DEF ShapeForm, RoutineKinds
      <4>4. \A part \in Parts : Agrees(part, <<>>, d)
        BY <4>2, <4>3 DEF Agrees, Faithful, Parts
      <4>5. QED BY <4>1, <4>4, NewIs DEF Exactly
    <3>4. CASE ~Fits(q, d)
      <4>1. n \in DOMAIN catalog /\ Object(q, catalog, n) = catalog[n]
        BY <1>3, <2>2, <3>4 DEF Present, Object
      <4>2. asked = 5
        <5>1. asked = 0 => ~AskedAt(asked, d)
          BY DEF AskedAt
        <5>2. QED BY <1>2, <1>4, <1>7, <4>1, <5>1
      <4>3. \A part \in Parts : asked >= ReadBy(part)
        BY <4>2, ReadByIs
      <4>4. QED BY <1>4, <4>1, <4>3 DEF Exactly
    <3>5. QED BY <1>2, <1>7, <3>2, <3>3, <3>4
  <2>3. QED BY <1>3, <2>1, <2>2
<1>8. CASE q \notin Lists
  <2>1. AskedAt(asked + 1, d) <=> AskedAt(asked, d)
    BY <1>2, <1>8 DEF AskedAt
  <2>2. Fits(q, d) => IsRelation(d)
    BY <1>2, <1>8 DEF Fits, AllQueries, Lists, IsRelation, IsTable, RelationKinds
  <2>3. Fits(q, d) => AskedAt(asked, d)
    BY <1>2, <1>8, <2>2 DEF AskedAt
  <2>4. Present(q, catalog, n) <=> n \in DOMAIN catalog
    BY <1>3, <1>4, <1>8, <2>3 DEF Present
  <2>5. ASSUME n \in DOMAIN catalog PROVE Exactly(Object(q, catalog, n), d, asked + 1)
    <3>1. PICK part, o, u : part = PartOf(q) /\ o = catalog[n] /\ u = Object(q, catalog, n)
      OBVIOUS
    <3>2. part \in Parts /\ ReadBy(part) = asked + 1 /\ Fields(o) /\ o[part] = <<>> /\ Exactly(o, d, asked)
      BY <1>2, <1>4, <1>5, <1>8, <2>5, <3>1
    <3>3. ShapeForm(d) /\ IsRelation(d)
      <4>1. IsRelation(d)
        BY <1>2, <1>4, <1>8, <2>5 DEF AskedAt
      <4>2. QED BY <1>4, <1>6, <2>1, <2>5, <4>1
    <3>4. /\ u.kind = o.kind /\ \A p \in Parts \ {part} : u[p] = o[p]
          /\ Agrees(part, u[part], d)
      <4>1. CASE Fits(q, d)
        <5>1. u = Put(o, part, Values(q, d))
          BY <1>3, <1>8, <2>5, <3>1, <4>1 DEF Object, Base
        <5>2. u.kind = o.kind /\ u[part] = Values(q, d) /\ \A p \in Parts \ {part} : u[p] = o[p]
          BY <3>2, <5>1, PutIs
        <5>3. q \in AllQueries \ Lists /\ (reader = "driver" => q = "columns")
          BY <1>2, <1>8
        <5>4. Agrees(part, Values(q, d), d)
          BY <3>1, <3>3, <5>3, ValuesAgree
        <5>5. QED BY <5>2, <5>4
      <4>2. CASE ~Fits(q, d)
        <5>1. u = o
          BY <1>3, <3>1, <4>2 DEF Object
        <5>2. q \in {"indexes", "primaryKeys", "foreignKeys"} /\ d.kind # "table"
          BY <1>2, <1>8, <3>3, <4>2 DEF Fits, AllQueries, Lists, IsTable, IsRelation
        <5>3. reader # "driver"
          BY <1>2, <1>8, <5>2
        <5>4. d.indexes = <<>> /\ d.primaryKey = <<>> /\ d.foreignKeys = <<>>
          BY <3>3, <5>2 DEF ShapeForm
        <5>5. part \in {"indexes", "primaryKey", "foreignKeys"}
          BY <3>1, <5>2 DEF PartOf
        <5>6. Agrees(part, <<>>, d)
          BY <5>3, <5>4, <5>5 DEF Agrees, Faithful
        <5>7. QED BY <3>2, <5>1, <5>6
      <4>3. QED BY <4>1, <4>2
    <3>5. ASSUME NEW p \in Parts, asked + 1 >= ReadBy(p) PROVE Agrees(p, u[p], d)
      <4>1. CASE p = part
        BY <3>4, <4>1
      <4>2. CASE p # part
        <5>1. ReadBy(p) # asked + 1 /\ ReadBy(p) \in Nat
          BY <3>2, <4>2, ReadByIs
        <5>2. asked >= ReadBy(p)
          BY <1>1, <3>5, <5>1
        <5>3. QED BY <3>2, <3>4, <4>2, <5>2 DEF Exactly
      <4>3. QED BY <4>1, <4>2
    <3>6. QED BY <3>1, <3>2, <3>4, <3>5 DEF Exactly
  <2>6. QED BY <1>3, <1>4, <2>1, <2>4, <2>5
<1>9. QED BY <1>7, <1>8

-----------------------------------------------------------------------------
(* The invariant is inductive.                                             *)

LEMMA IInvInit == Init => IInv
<1>1. SUFFICES ASSUME Init PROVE IInv
  OBVIOUS
<1>2. Len(Queries(reader)) \in {2, 6}
  <2>1. Len(<<"objects", "columns">>) = 2
        /\ Len(<<"objects", "columns", "indexes", "primaryKeys", "foreignKeys", "routines">>) = 6
    OBVIOUS
  <2>2. QED BY <2>1 DEF Queries
<1>3. DOMAIN catalog = {}
  BY <1>1 DEF Init, EmptyCatalog
<1>4. TypeOK
  BY <1>1, <1>3, ScanAssumption DEF Init, TypeOK
<1>5. Progress
  <2>1. ended = "no" /\ asked = 0 /\ \A n \in Names : past[n] = {db[n]}
    BY <1>1 DEF Init
  <2>2. asked < Len(Queries(reader))
    BY <1>2, <2>1
  <2>3. QED BY <2>1, <2>2 DEF Progress
<1>6. Attributed
  BY <1>3 DEF Attributed
<1>7. Exact
  BY <1>1, <1>3 DEF Exact, Init, AskedFor
<1>8. QED BY <1>4, <1>5, <1>6, <1>7 DEF IInv

(* The same of the next state, whose reader is the same.                   *)
LEMMA UnfoldedNext ==
  ASSUME reader' = reader
  PROVE  /\ (\A n \in DOMAIN catalog' : Traced(catalog'[n], past'[n], asked')) => Attributed'
         /\ (\A n \in Names : past'[n] = {db'[n]} =>
               /\ n \in DOMAIN catalog' <=> ended' # "failed" /\ AskedAt(asked', db'[n])
               /\ n \in DOMAIN catalog' => Exactly(catalog'[n], db'[n], asked')) => Exact'
<1>1. \A d : AskedFor(d)' <=> AskedAt(asked', d)
  BY DEF AskedFor, AskedAt
<1>2. \A part, seen, d : Agrees(part, seen, d)' <=> Agrees(part, seen, d)
  BY DEF Agrees, Faithful
<1>3. ASSUME \A n \in DOMAIN catalog' : Traced(catalog'[n], past'[n], asked')
      PROVE  Attributed'
  BY <1>1, <1>2, <1>3 DEF Attributed, Traced
<1>4. ASSUME \A n \in Names : past'[n] = {db'[n]} =>
               /\ n \in DOMAIN catalog' <=> ended' # "failed" /\ AskedAt(asked', db'[n])
               /\ n \in DOMAIN catalog' => Exactly(catalog'[n], db'[n], asked')
      PROVE  Exact'
  BY <1>1, <1>2, <1>4 DEF Exact, Exactly
<1>5. QED BY <1>3, <1>4

LEMMA QueryKeeps ==
  ASSUME IInv, Query
  PROVE  IInv'
<1>1. PICK q : q = Queries(reader)[asked + 1]
  OBVIOUS
<1>2. /\ ended = "no" /\ asked' = asked + 1 /\ catalog' = Answered(q, catalog)
      /\ ended' = IF asked + 1 = Len(Queries(reader)) THEN "ok" ELSE "no"
      /\ reader' = reader /\ db' = db /\ past' = past /\ ddl' = ddl
  BY <1>1 DEF Query
<1>3. TypeOK /\ Progress /\ db \in [Names -> Shapes \cup {Absent}]
  BY DEF IInv, TypeOK
<1>4. asked \in 0..5 /\ q \in AllQueries /\ asked + 1 <= Len(Queries(reader))
  BY <1>1, <1>2, <1>3, QueryNumber
<1>5. /\ DOMAIN catalog \subseteq Names
      /\ \A n \in DOMAIN catalog : /\ Fields(catalog[n])
                                   /\ q \notin Lists => catalog[n][PartOf(q)] = <<>>
  BY <1>1, <1>2, BeforeQuery
<1>6. /\ DOMAIN catalog' \subseteq Names
      /\ \A n \in Names : /\ n \in DOMAIN catalog' <=> Present(q, catalog, n)
                          /\ n \in DOMAIN catalog' => catalog'[n] = Object(q, catalog, n)
  <2>1. PICK c : c = catalog
    OBVIOUS
  <2>2. LET d == Answered(q, c)
        IN /\ DOMAIN d \subseteq Names
           /\ \A n \in Names : /\ n \in DOMAIN d <=> Present(q, c, n)
                               /\ n \in DOMAIN d => d[n] = Object(q, c, n)
    BY <1>3, <1>4, <1>5, <2>1, QueryEffect
  <2>3. QED BY <1>2, <2>1, <2>2
<1>7. TypeOK'
  <2>1. Consistent(db)'
    BY <1>2, <1>3 DEF TypeOK, Consistent, IsTable, IsRelation
  <2>2. asked' \in 0..6
    BY <1>2, <1>4
  <2>3. ended' \in {"no", "ok"}
    BY <1>2
  <2>4. QED BY <1>2, <1>3, <1>6, <2>1, <2>2, <2>3 DEF TypeOK
<1>8. Progress'
  <2>1. Len(Queries(reader)) \in Nat
    BY DEF Queries
  <2>2. ended' = "no" => asked' < Len(Queries(reader))
    BY <1>2, <1>4, <2>1
  <2>3. ended' = "ok" => asked' = Len(Queries(reader))
    BY <1>2
  <2>4. Queries(reader)' = Queries(reader)
    BY <1>2 DEF Queries
  <2>5. QED BY <1>2, <1>3, <2>2, <2>3, <2>4 DEF Progress
<1>9. Attributed'
  <2>1. ASSUME NEW n \in DOMAIN catalog' PROVE Traced(catalog'[n], past'[n], asked')
    <3>1. n \in Names /\ Present(q, catalog, n) /\ catalog'[n] = Object(q, catalog, n)
      BY <1>6, <2>1
    <3>2. Traced(Object(q, catalog, n), past[n], asked + 1)
      BY <1>1, <1>2, <3>1, QueryTraces
    <3>3. QED BY <1>2, <3>1, <3>2
  <2>2. QED BY <1>2, <2>1, UnfoldedNext
<1>10. Exact'
  <2>1. ASSUME NEW n \in Names, past'[n] = {db'[n]}
        PROVE  /\ n \in DOMAIN catalog' <=> ended' # "failed" /\ AskedAt(asked', db'[n])
               /\ n \in DOMAIN catalog' => Exactly(catalog'[n], db'[n], asked')
    <3>1. /\ Present(q, catalog, n) <=> AskedAt(asked + 1, db[n])
          /\ Present(q, catalog, n) => Exactly(Object(q, catalog, n), db[n], asked + 1)
      BY <1>1, <1>2, <2>1, QueryIsExact
    <3>2. ended' # "failed"
      BY <1>2
    <3>3. QED BY <1>2, <1>6, <3>1, <3>2
  <2>2. QED BY <1>2, <2>1, UnfoldedNext
<1>11. QED BY <1>7, <1>8, <1>9, <1>10 DEF IInv

LEMMA FailureKeeps ==
  ASSUME IInv, QueryFails
  PROVE  IInv'
<1>1. /\ ended' = "failed" /\ catalog' = EmptyCatalog /\ asked' = asked /\ reader' = reader
      /\ db' = db /\ past' = past /\ ddl' = ddl
  BY DEF QueryFails
<1>2. DOMAIN catalog' = {}
  BY <1>1 DEF EmptyCatalog
<1>3. TypeOK'
  BY <1>1, <1>2 DEF IInv, TypeOK, Consistent, IsTable, IsRelation
<1>4. Progress'
  BY <1>1 DEF IInv, Progress
<1>5. Attributed'
  BY <1>2 DEF Attributed
<1>6. Exact'
  BY <1>1, <1>2 DEF Exact
<1>7. QED BY <1>3, <1>4, <1>5, <1>6 DEF IInv

LEMMA DdlKeeps ==
  ASSUME IInv, NEW n \in Names, NEW d \in Shapes \cup {Absent}, Ddl(n, d)
  PROVE  IInv'
<1>1. /\ ended = "no" /\ ddl < MaxDdl /\ d # db[n] /\ Consistent(db')
      /\ db' = [db EXCEPT ![n] = d] /\ past' = [past EXCEPT ![n] = past[n] \cup {d}]
      /\ ddl' = ddl + 1
      /\ reader' = reader /\ asked' = asked /\ catalog' = catalog /\ ended' = ended
  BY DEF Ddl
<1>2. /\ db \in [Names -> Shapes \cup {Absent}]
      /\ past \in [Names -> SUBSET (Shapes \cup {Absent})]
      /\ asked \in Nat /\ ddl \in 0..MaxDdl /\ MaxDdl \in Nat /\ DOMAIN catalog \subseteq Names
      /\ \A m \in Names : db[m] \in past[m]
  BY ScanAssumption DEF IInv, TypeOK, Progress
<1>3. /\ \A m \in Names : past[m] \subseteq past'[m] /\ db'[m] \in past'[m]
      /\ \A m \in Names \ {n} : past'[m] = past[m] /\ db'[m] = db[m]
      /\ db[n] \in past'[n] /\ d \in past'[n] /\ db'[n] = d
  BY <1>1, <1>2
<1>4. TypeOK'
  <2>1. db' \in [Names -> Shapes \cup {Absent}] /\ past' \in [Names -> SUBSET (Shapes \cup {Absent})]
    BY <1>1, <1>2
  <2>2. Consistent(db)'
    BY <1>1 DEF Consistent, IsTable, IsRelation
  <2>3. ddl' \in 0..MaxDdl
    BY <1>1, <1>2
  <2>4. QED BY <1>1, <2>1, <2>2, <2>3 DEF IInv, TypeOK
<1>5. Progress'
  BY <1>1, <1>3 DEF IInv, Progress, Queries
<1>6. Attributed'
  <2>1. ASSUME NEW m \in DOMAIN catalog' PROVE Traced(catalog'[m], past'[m], asked')
    <3>1. Traced(catalog[m], past[m], asked) /\ m \in Names
      BY <1>1, <1>2, <2>1, Unfolded DEF IInv
    <3>2. PICK o, seen, more, k : o = catalog[m] /\ seen = past[m] /\ more = past'[m] /\ k = asked
      OBVIOUS
    <3>3. Traced(o, seen, k) /\ seen \subseteq more /\ k \in Nat /\ k <= k
      BY <1>2, <1>3, <3>1, <3>2
    <3>4. Traced(o, more, k)
      BY ONLY <3>3, TracedMore
    <3>5. QED BY <1>1, <3>2, <3>4
  <2>2. QED BY <1>1, <2>1, UnfoldedNext
<1>7. Exact'
  <2>1. ASSUME NEW m \in Names, past'[m] = {db'[m]}
        PROVE  /\ m \in DOMAIN catalog' <=> ended' # "failed" /\ AskedAt(asked', db'[m])
               /\ m \in DOMAIN catalog' => Exactly(catalog'[m], db'[m], asked')
    <3>1. m # n
      BY <1>1, <1>3, <2>1
    <3>2. past[m] = {db[m]}
      BY <1>3, <2>1, <3>1
    <3>3. /\ m \in DOMAIN catalog <=> ended # "failed" /\ AskedAt(asked, db[m])
          /\ m \in DOMAIN catalog => Exactly(catalog[m], db[m], asked)
      BY <3>2, Unfolded DEF IInv
    <3>4. QED BY <1>1, <1>3, <3>1, <3>3
  <2>2. QED BY <1>1, <2>1, UnfoldedNext
<1>8. QED BY <1>4, <1>5, <1>6, <1>7 DEF IInv

(* Whatever the scan has put together is traced to definitions that the    *)
(* objects had since it began, and exact where nothing changed.            *)
THEOREM ScanIsTraced == Spec => []IInv
<1>1. ASSUME IInv, [Next]_vars PROVE IInv'
  <2>1. CASE Query
    BY <1>1, <2>1, QueryKeeps
  <2>2. CASE QueryFails
    BY <1>1, <2>2, FailureKeeps
  <2>3. ASSUME NEW n \in Names, NEW d \in Shapes \cup {Absent}, Ddl(n, d) PROVE IInv'
    BY <1>1, <2>3, DdlKeeps
  <2>4. CASE UNCHANGED vars
    <3>1. /\ reader' = reader /\ db' = db /\ past' = past /\ asked' = asked
          /\ catalog' = catalog /\ ended' = ended /\ ddl' = ddl
      BY <2>4 DEF vars
    <3>2. TypeOK' /\ Progress'
      BY <1>1, <3>1 DEF IInv, TypeOK, Progress, Consistent, IsTable, IsRelation, Queries
    <3>3. Attributed' /\ Exact'
      BY <1>1, <3>1, Unfolded, UnfoldedNext DEF IInv
    <3>4. QED BY <3>2, <3>3 DEF IInv
  <2>5. QED BY <1>1, <2>1, <2>2, <2>3, <2>4 DEF Next
<1>2. QED BY <1>1, IInvInit, PTL DEF Spec

-----------------------------------------------------------------------------
(* What it says when the scan has ended.                                   *)

LEMMA AllAsked ==
  ASSUME IInv, ended = "ok"
  PROVE  /\ reader = "driver" => asked = 2
         /\ reader # "driver" => asked = 6
         /\ \A d : AskedAt(asked, d) => Reported(d) /\ d # Absent
         /\ \A n \in Names : Reported(db[n]) => AskedAt(asked, db[n])
<1>1. /\ asked = Len(Queries(reader)) /\ db \in [Names -> Shapes \cup {Absent}]
  BY DEF IInv, Progress, TypeOK
<1>2. Len(<<"objects", "columns">>) = 2
      /\ Len(<<"objects", "columns", "indexes", "primaryKeys", "foreignKeys", "routines">>) = 6
  OBVIOUS
<1>3. (reader = "driver" => asked = 2) /\ (reader # "driver" => asked = 6)
  BY <1>1, <1>2 DEF Queries
<1>4. ASSUME NEW d, AskedAt(asked, d) PROVE Reported(d) /\ d # Absent
  BY <1>3, <1>4 DEF AskedAt, Reported, IsRelation, IsRoutine
<1>5. ASSUME NEW n \in Names, Reported(db[n]) PROVE AskedAt(asked, db[n])
  <2>1. CASE reader = "driver"
    BY <1>3, <1>5, <2>1 DEF Reported, AskedAt
  <2>2. CASE reader # "driver"
    <3>1. db[n] # Absent
      BY <1>5, <2>2 DEF Reported
    <3>2. ShapeForm(db[n])
      BY <1>1, <3>1, ScanAssumption
    <3>3. IsRelation(db[n]) \/ IsRoutine(db[n])
      BY <3>1, <3>2 DEF ShapeForm, IsRelation, IsRoutine
    <3>4. QED BY <1>3, <2>2, <3>3 DEF AskedAt
  <2>3. QED BY <2>1, <2>2
<1>6. QED BY <1>3, <1>4, <1>5

LEMMA ExactAtTheEnd == IInv => UntouchedIsExact
<1>1. SUFFICES ASSUME IInv, ended = "ok", NEW n \in Names, past[n] = {db[n]}
               PROVE  IF Reported(db[n])
                        THEN /\ n \in DOMAIN catalog
                             /\ \A part \in DOMAIN catalog[n] : Agrees(part, catalog[n][part], db[n])
                        ELSE n \notin DOMAIN catalog
  BY DEF UntouchedIsExact
<1>2. PICK d : d = db[n]
  OBVIOUS
<1>3. n \in DOMAIN catalog <=> AskedAt(asked, d)
  BY <1>1, <1>2, Unfolded DEF IInv
<1>4. AskedAt(asked, d) <=> Reported(d)
  BY <1>1, <1>2, AllAsked
<1>5. ASSUME n \in DOMAIN catalog, NEW part \in DOMAIN catalog[n]
      PROVE  Agrees(part, catalog[n][part], d)
  <2>1. PICK o : o = catalog[n]
    OBVIOUS
  <2>2. Exactly(o, d, asked) /\ Traced(o, past[n], asked)
    BY <1>1, <1>2, <1>5, <2>1, Unfolded DEF IInv
  <2>3. Fields(o) /\ part \in Parts \cup {"kind"}
    BY <1>5, <2>1, <2>2 DEF Traced, ObjectForm, Fields, Parts
  <2>4. CASE part = "kind"
    BY <2>1, <2>2, <2>4 DEF Exactly, Agrees, Faithful, NewObject
  <2>5. CASE part \in Parts /\ asked >= ReadBy(part)
    BY <2>1, <2>2, <2>5 DEF Exactly
  <2>6. CASE part \in Parts /\ ~(asked >= ReadBy(part))
    <3>1. o[part] = <<>>
      BY <2>2, <2>6 DEF Traced
    <3>2. reader = "driver" /\ part \in {"indexes", "primaryKey", "foreignKeys"}
      BY <1>1, <2>6, AllAsked, ReadByIs DEF Parts
    <3>3. Agrees(part, <<>>, d)
      BY <3>2 DEF Agrees, Faithful, NewObject
    <3>4. QED BY <2>1, <3>1, <3>3
  <2>7. QED BY <2>3, <2>4, <2>5, <2>6
<1>6. QED BY <1>2, <1>3, <1>4, <1>5

LEMMA WholeAtTheEnd == IInv => PartsAreWhole
<1>1. SUFFICES ASSUME IInv, ended = "ok", NEW n \in DOMAIN catalog
               PROVE  LET had == {d \in past[n] \ {Absent} : Reported(d)} IN
                      /\ had # {}
                      /\ \E d \in had : catalog[n].kind = d.kind \/ (reader = "driver" /\ past[n] # {d})
                      /\ \A part \in {"columns", "indexes", "primaryKey", "foreignKeys"} :
                           catalog[n][part] = <<>> \/ \E d \in had : Agrees(part, catalog[n][part], d)
  BY DEF PartsAreWhole
<1>2. Traced(catalog[n], past[n], asked)
  BY <1>1, Unfolded DEF IInv
<1>3. \A d \in past[n] : AskedAt(asked, d) => d \in {x \in past[n] \ {Absent} : Reported(x)}
  BY <1>1, AllAsked
<1>4. QED BY <1>2, <1>3 DEF Traced, Parts

LEMMA SmallestExists ==
  ASSUME NEW S, S \subseteq Nat, S # {}
  PROVE  \E m \in S : \A k \in S : m <= k
<1> DEFINE R == OpToRel(<, Nat)
<1>1. IsWellFoundedOn(R, Nat)
  BY NatLessThanWellFounded
<1>2. PICK m \in S : \A k \in S : ~ (<<k, m>> \in R)
  <2> HIDE DEF R
  <2>1. QED BY <1>1, WFMin
<1>3. ASSUME NEW k \in S PROVE m <= k
  <2>1. k \in Nat /\ m \in Nat
    OBVIOUS
  <2>2. SUFFICES ASSUME k < m PROVE FALSE
    BY <2>1
  <2>3. <<k, m>> \in Nat \X Nat /\ <<k, m>>[1] < <<k, m>>[2]
    BY <2>1, <2>2
  <2>4. <<k, m>> \in R
    BY <2>3 DEF OpToRel
  <2>5. QED BY <1>2, <2>4
<1>4. QED BY <1>3

(* A primary index takes the key's place: there is one, it has the key's   *)
(* columns, and no other is primary.                                       *)
LEMMA KeyIsRestored ==
  ASSUME NEW o, ObjectForm(o), NEW i \in DOMAIN o.indexes, o.indexes[i].columns = o.primaryKey,
         \A k \in DOMAIN o.indexes :
           /\ Range(o.indexes[k].columns) \subseteq Range(o.primaryKey) =>
                o.indexes[k].columns = o.primaryKey
           /\ o.indexes[k].name \notin Range(o.primaryKey)
  PROVE  FromSnapshotObject(ToSnapshotObject(o)).primaryKey = o.primaryKey
<1> DEFINE marked == {k \in DOMAIN o.indexes : MarkedPrimary(o, o.indexes[k])}
<1>1. PICK primary : primary = marked
  OBVIOUS
<1>2. IsSequence(o.indexes)
  BY DEF ObjectForm
<1>3. DOMAIN o.indexes \subseteq Nat
  <2>1. DOMAIN o.indexes = 1..Len(o.indexes)
    BY <1>2, SequenceIs
  <2>2. QED BY <2>1
<1>4. \A k \in DOMAIN o.indexes :
        k \in primary <=> Range(o.indexes[k].columns) \subseteq Range(o.primaryKey)
  BY <1>1 DEF MarkedPrimary, Range
<1>5. i \in primary /\ primary \subseteq DOMAIN o.indexes
  BY <1>1, <1>4
<1>6. Min(primary) \in primary
  <2>1. primary \subseteq Nat /\ primary # {}
    BY <1>3, <1>5
  <2>2. \E m \in primary : \A k \in primary : m <= k
    BY <2>1, SmallestExists
  <2>3. QED BY <2>2 DEF Min
<1>7. FromSnapshotObject(ToSnapshotObject(o)).primaryKey = o.indexes[Min(primary)].columns
  <2>1. PICK s : s = ToSnapshotObject(o)
    OBVIOUS
  <2>2. /\ DOMAIN s.indexes = DOMAIN o.indexes
        /\ \A k \in DOMAIN o.indexes : /\ s.indexes[k].columns = o.indexes[k].columns
                                       /\ s.indexes[k].primary <=> MarkedPrimary(o, o.indexes[k])
    BY <2>1 DEF ToSnapshotObject
  <2>3. {k \in DOMAIN s.indexes : s.indexes[k].primary} = primary
    BY <1>1, <2>2
  <2>4. FromSnapshotObject(s).primaryKey = s.indexes[Min(primary)].columns
    BY <1>5, <2>3 DEF FromSnapshotObject
  <2>5. QED BY <1>5, <1>6, <2>1, <2>2, <2>4
<1>8. QED BY <1>4, <1>5, <1>6, <1>7

LEMMA SnapshotAtTheEnd == IInv => SnapshotKeepsCatalog
<1>1. SUFFICES ASSUME IInv PROVE SnapshotKeepsCatalog
  OBVIOUS
<1>2. PICK c, back : c = catalog /\ back = FromSnapshot(ToSnapshot(c))
  OBVIOUS
<1>3. \A n \in DOMAIN c : ObjectForm(c[n])
  BY <1>1, <1>2 DEF IInv, Attributed
<1>4. DOMAIN back = DOMAIN c
  BY <1>2, <1>3 DEF FromSnapshot, ToSnapshot, ObjectForm, RelationKinds, RoutineKinds
<1>5. ASSUME NEW n \in DOMAIN c
      PROVE  \/ c[n].kind \in RelationKinds /\ back[n] = FromSnapshotObject(ToSnapshotObject(c[n]))
             \/ c[n] = NewObject(c[n].kind) /\ back[n] = c[n]
  <2>1. CASE c[n].kind \in RelationKinds
    BY <1>2, <2>1 DEF FromSnapshot, ToSnapshot, RelationKinds
  <2>2. CASE c[n].kind \in RoutineKinds
    <3>1. c[n] = NewObject(c[n].kind)
      BY <1>3, <2>2 DEF ObjectForm
    <3>2. back[n] = NewObject(c[n].kind)
      BY <1>2, <2>2 DEF FromSnapshot, ToSnapshot, RelationKinds, RoutineKinds
    <3>3. QED BY <3>1, <3>2
  <2>3. QED BY <1>3, <2>1, <2>2 DEF ObjectForm
<1>6. ASSUME NEW n \in DOMAIN c
      PROVE  [back[n] EXCEPT !.primaryKey = c[n].primaryKey] = c[n]
  <2>1. PICK o, u : o = c[n] /\ u = back[n]
    OBVIOUS
  <2>2. CASE u = o
    BY <1>3, <2>1, <2>2 DEF ObjectForm
  <2>3. CASE u = FromSnapshotObject(ToSnapshotObject(o))
    <3>1. PICK v : v = [i \in DOMAIN o.indexes |->
                         [name |-> o.indexes[i].name, columns |-> o.indexes[i].columns]]
      OBVIOUS
    <3>2. u = [kind |-> o.kind, columns |-> o.columns, indexes |-> v,
               primaryKey |-> u.primaryKey, foreignKeys |-> o.foreignKeys]
      BY <2>3, <3>1 DEF FromSnapshotObject, ToSnapshotObject
    <3>3. v = o.indexes
      BY <1>3, <2>1, <3>1, SequenceIs DEF ObjectForm, IsSequence
    <3>4. o = [kind |-> o.kind, columns |-> o.columns, indexes |-> o.indexes,
               primaryKey |-> o.primaryKey, foreignKeys |-> o.foreignKeys]
      BY <1>3, <2>1 DEF ObjectForm
    <3>5. QED BY <2>1, <3>2, <3>3, <3>4
  <2>4. QED BY <1>5, <2>1, <2>2, <2>3
<1>7. ASSUME NEW n \in DOMAIN c,
             c[n].primaryKey = <<>> \/ \E i \in DOMAIN c[n].indexes : c[n].indexes[i].columns = c[n].primaryKey,
             \A i \in DOMAIN c[n].indexes :
               /\ Range(c[n].indexes[i].columns) \subseteq Range(c[n].primaryKey) =>
                    c[n].indexes[i].columns = c[n].primaryKey
               /\ c[n].indexes[i].name \notin Range(c[n].primaryKey)
      PROVE  back[n].primaryKey = c[n].primaryKey
  <2>1. PICK o, u : o = c[n] /\ u = back[n]
    OBVIOUS
  <2>2. CASE u = o
    BY <2>1, <2>2
  <2>3. CASE u = FromSnapshotObject(ToSnapshotObject(o)) /\ \E i \in DOMAIN o.indexes : o.indexes[i].columns = o.primaryKey
    BY <1>3, <1>7, <2>1, <2>3, KeyIsRestored
  <2>4. CASE /\ u = FromSnapshotObject(ToSnapshotObject(o)) /\ o.primaryKey = <<>>
             /\ ~\E i \in DOMAIN o.indexes : o.indexes[i].columns = o.primaryKey
    <3>1. \A i \in DOMAIN o.indexes : ~MarkedPrimary(o, o.indexes[i])
      BY <1>7, <2>1, <2>4 DEF MarkedPrimary, Range
    <3>2. u.primaryKey = <<>>
      BY <2>4, <3>1 DEF FromSnapshotObject, ToSnapshotObject
    <3>3. QED BY <2>1, <2>4, <3>2
  <2>5. QED BY <1>5, <1>7, <2>1, <2>2, <2>3, <2>4
<1>8. QED BY <1>2, <1>4, <1>6, <1>7 DEF SnapshotKeepsCatalog

(* An object that nobody touches during the scan is reported as it is, and *)
(* one that is not there is not reported.                                  *)
THEOREM UntouchedIsReported == Spec => []UntouchedIsExact
BY ScanIsTraced, ExactAtTheEnd, PTL

(* What an object that changed meanwhile is reported with is whole, part   *)
(* by part.                                                                *)
THEOREM NoPartIsMixed == Spec => []PartsAreWhole
BY ScanIsTraced, WholeAtTheEnd, PTL

(* Completion gets every object back, with its parts.                      *)
THEOREM SnapshotRoundTrip == Spec => []SnapshotKeepsCatalog
BY ScanIsTraced, SnapshotAtTheEnd, PTL

=============================================================================
