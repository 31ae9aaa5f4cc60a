--------------------------- MODULE SequenceLemmas ---------------------------
(***************************************************************************)
(* What is proved of FlattenSeq, which puts sequences together, and of     *)
(* FoldLeft.  Both are recursive functions; what is proved of them goes by *)
(* induction over a set of numbers.  At the end, parts of sequences.       *)
(***************************************************************************)
EXTENDS Naturals, Integers, FiniteSets, Sequences, SequencesExt,
        SequenceTheorems, FiniteSetTheorems, WellFoundedInduction, TLAPS

-----------------------------------------------------------------------------
(* Induction: a set with 0 in it, and n + 1 whenever n is, has all of Nat.  *)
LEMMA SetInduction ==
  ASSUME NEW S, 0 \in S, \A n \in Nat : n \in S => n + 1 \in S
  PROVE  Nat \subseteq S
<1> DEFINE T == Nat \ S
           R == OpToRel(<, Nat)
<1>1. SUFFICES ASSUME T # {} PROVE FALSE
  OBVIOUS
<1>2. IsWellFoundedOn(R, Nat)
  BY NatLessThanWellFounded
<1>3. PICK x \in T : \A y \in T : ~ (<<y, x>> \in R)
  <2> HIDE DEF R
  <2>1. T \subseteq Nat
    OBVIOUS
  <2> HIDE DEF T
  <2>2. QED BY <1>1, <1>2, <2>1, WFMin
<1>4. x # 0 /\ x \in Nat /\ x - 1 \in Nat
  OBVIOUS
<1>5. x - 1 \in T
  BY <1>4
<1>6. <<x - 1, x>> \in R
  <2>1. <<x - 1, x>> \in Nat \X Nat /\ <<x - 1, x>>[1] < <<x - 1, x>>[2]
    BY <1>4
  <2>2. QED BY <2>1 DEF OpToRel
<1>7. QED BY <1>3, <1>5, <1>6

-----------------------------------------------------------------------------
(* FlattenSeq.                                                             *)

(* f[i] is the first i sequences put together, for i up to n.              *)
Flattens(f, seqs, n) ==
  f = [i \in 1..n |-> IF i = 1 THEN seqs[i] ELSE f[i - 1] \o seqs[i]]

(* There is such an f for every n.                                         *)
LEMMA FlattenExists ==
  ASSUME NEW seqs, NEW n \in Nat
  PROVE  \E f : Flattens(f, seqs, n)
<1> DEFINE S == {k \in Nat : \E f : Flattens(f, seqs, k)}
<1>1. 0 \in S
  <2> DEFINE f == [i \in 1..0 |-> 0]
  <2>1. f = [i \in 1..0 |-> IF i = 1 THEN seqs[i] ELSE f[i - 1] \o seqs[i]]
    OBVIOUS
  <2>2. Flattens(f, seqs, 0)
    BY <2>1 DEF Flattens
  <2>3. QED BY <2>2
<1>2. ASSUME NEW k \in Nat, k \in S PROVE k + 1 \in S
  <2>1. PICK f : f = [i \in 1..k |-> IF i = 1 THEN seqs[i] ELSE f[i - 1] \o seqs[i]]
    BY <1>2 DEF Flattens
  <2> DEFINE g == [i \in 1..(k + 1) |-> IF i = 1 THEN seqs[i] ELSE f[i - 1] \o seqs[i]]
  <2>2. ASSUME NEW i \in 1..k PROVE g[i] = f[i]
    <3>1. i \in 1..(k + 1)
      OBVIOUS
    <3>2. g[i] = IF i = 1 THEN seqs[i] ELSE f[i - 1] \o seqs[i]
      BY <3>1
    <3>3. f[i] = IF i = 1 THEN seqs[i] ELSE f[i - 1] \o seqs[i]
      BY <2>1, Zenon
    <3>4. QED BY <3>2, <3>3
  <2>3. ASSUME NEW i \in 1..(k + 1), i # 1 PROVE g[i - 1] = f[i - 1]
    <3>1. i - 1 \in 1..k
      BY <2>3
    <3>2. QED BY <3>1, <2>2
  <2>4. g = [i \in 1..(k + 1) |-> IF i = 1 THEN seqs[i] ELSE g[i - 1] \o seqs[i]]
    BY <2>3
  <2>5. Flattens(g, seqs, k + 1)
    BY <2>4 DEF Flattens
  <2>6. QED BY <2>5
<1> HIDE DEF S
<1>3. Nat \subseteq S
  BY <1>1, <1>2, SetInduction
<1>4. QED BY <1>3 DEF S

(* FlattenSeq takes its last value.                                        *)
LEMMA FlattenIsLast ==
  ASSUME NEW seqs, Len(seqs) \in Nat \ {0}
  PROVE  \E f : Flattens(f, seqs, Len(seqs)) /\ FlattenSeq(seqs) = f[Len(seqs)]
<1> DEFINE F == CHOOSE f : Flattens(f, seqs, Len(seqs))
<1>1. Flattens(F, seqs, Len(seqs))
  BY FlattenExists
<1>2. FlattenSeq(seqs) = F[Len(seqs)]
  BY DEF FlattenSeq, Flattens
<1>3. QED BY <1>1, <1>2

(* The first of several is itself; each next is put at the end.            *)
LEMMA FlattenSteps ==
  ASSUME NEW seqs, NEW n \in Nat, NEW f, Flattens(f, seqs, n)
  PROVE  /\ n > 0 => f[1] = seqs[1]
         /\ \A i \in 1..n : i # 1 => i - 1 \in 1..n /\ f[i] = f[i - 1] \o seqs[i]
<1>1. \A i \in 1..n : f[i] = IF i = 1 THEN seqs[i] ELSE f[i - 1] \o seqs[i]
  BY Zenon DEF Flattens
<1>2. n > 0 => f[1] = seqs[1]
  <2>1. SUFFICES ASSUME n > 0 PROVE f[1] = seqs[1]
    OBVIOUS
  <2>2. 1 \in 1..n
    BY <2>1
  <2>3. QED BY <1>1, <2>2
<1>3. ASSUME NEW i \in 1..n, i # 1
      PROVE  i - 1 \in 1..n /\ f[i] = f[i - 1] \o seqs[i]
  <2>1. f[i] = f[i - 1] \o seqs[i]
    BY <1>1, <1>3, Zenon
  <2>2. QED BY <1>3, <2>1
<1>4. QED BY <1>2, <1>3

(* A way to show something of the sequences put together: it holds of the  *)
(* numbers 1..n if it holds of 1 and goes from i to i + 1.                 *)
LEMMA Upwards ==
  ASSUME NEW n \in Nat, NEW S,
         n > 0 => 1 \in S,
         \A i \in 1..n : i # 1 /\ i - 1 \in S => i \in S
  PROVE  1..n \subseteq S
<1> DEFINE P == {k \in Nat : k + 1 <= n => k + 1 \in S}
<1>1. 0 \in P
  OBVIOUS
<1>2. ASSUME NEW k \in Nat, k \in P PROVE k + 1 \in P
  <2>1. SUFFICES ASSUME k + 2 <= n PROVE k + 2 \in S
    OBVIOUS
  <2>2. k + 2 \in 1..n /\ k + 2 # 1 /\ (k + 2) - 1 = k + 1 /\ k + 1 \in S
    BY <1>2, <2>1
  <2>3. QED BY <2>2
<1>3. Nat \subseteq P
  <2> HIDE DEF P
  <2>1. QED BY <1>1, <1>2, SetInduction
<1>4. ASSUME NEW i \in 1..n PROVE i \in S
  <2>1. i - 1 \in P
    <3>1. i - 1 \in Nat
      OBVIOUS
    <3> HIDE DEF P
    <3>2. QED BY <3>1, <1>3
  <2>2. (i - 1) + 1 = i
    OBVIOUS
  <2>3. QED BY <2>1, <2>2
<1>5. QED BY <1>4

(* Induction on how many sequences are put together.                       *)
LEMMA FlattenInduction ==
  ASSUME NEW T, NEW seqs \in Seq(Seq(T)), Len(seqs) > 0, NEW G,
         <<1, seqs[1]>> \in G,
         \A k \in 1..Len(seqs) : \A r \in Seq(T) :
           k # 1 /\ <<k - 1, r>> \in G => <<k, r \o seqs[k]>> \in G
  PROVE  FlattenSeq(seqs) \in Seq(T) /\ <<Len(seqs), FlattenSeq(seqs)>> \in G
<1> DEFINE n == Len(seqs)
<1>1. n \in Nat /\ n \in 1..n /\ 1 \in 1..n /\ \A h \in 1..n : seqs[h] \in Seq(T)
  BY LenProperties, ElementOfSeq
<1> HIDE DEF n
<1>2. PICK f : Flattens(f, seqs, n) /\ FlattenSeq(seqs) = f[n]
  BY <1>1, FlattenIsLast DEF n
<1>3. /\ f[1] = seqs[1]
      /\ \A i \in 1..n : i # 1 => i - 1 \in 1..n /\ f[i] = f[i - 1] \o seqs[i]
  <2>1. n > 0
    BY <1>1
  <2>2. /\ n > 0 => f[1] = seqs[1]
        /\ \A i \in 1..n : i # 1 => i - 1 \in 1..n /\ f[i] = f[i - 1] \o seqs[i]
    <3>1. n \in Nat /\ Flattens(f, seqs, n)
      BY <1>1, <1>2
    <3>2. QED BY ONLY <3>1, FlattenSteps
  <2>3. QED BY ONLY <2>1, <2>2
<1> DEFINE S == {k \in 1..n : f[k] \in Seq(T) /\ <<k, f[k]>> \in G}
<1>4. 1 \in S
  BY <1>1, <1>3
<1>5. ASSUME NEW k \in 1..n, k # 1, k - 1 \in S PROVE k \in S
  <2>1. /\ f[k] = f[k - 1] \o seqs[k]
        /\ f[k - 1] \in Seq(T) /\ seqs[k] \in Seq(T) /\ <<k - 1, f[k - 1]>> \in G
    BY <1>1, <1>3, <1>5
  <2>2. f[k] \in Seq(T)
    BY <2>1, ConcatProperties
  <2>3. <<k, f[k]>> \in G
    BY <1>5, <2>1 DEF n
  <2>4. QED BY <2>2, <2>3
<1>6. 1..n \subseteq S
  <2> HIDE DEF S
  <2>1. QED BY <1>1, <1>4, <1>5, Upwards
<1>7. QED BY <1>1, <1>2, <1>6 DEF n

-----------------------------------------------------------------------------
(* r has the elements of the first k sequences and no other.               *)
Elements(seqs, k, r) ==
  /\ \A j \in 1..Len(r) : \E h \in 1..k : \E i \in 1..Len(seqs[h]) : r[j] = seqs[h][i]
  /\ \A h \in 1..k : \A i \in 1..Len(seqs[h]) : \E j \in 1..Len(r) : r[j] = seqs[h][i]

LEMMA ElementsOfOneMore ==
  ASSUME NEW T, NEW seqs, NEW k \in Nat \ {0}, NEW r \in Seq(T), seqs[k] \in Seq(T),
         Elements(seqs, k - 1, r)
  PROVE  Elements(seqs, k, r \o seqs[k])
<1> DEFINE q == seqs[k]
           all == r \o q
<1>1. /\ all \in Seq(T) /\ Len(all) = Len(r) + Len(q)
      /\ Len(r) \in Nat /\ Len(q) \in Nat
      /\ \A j \in 1..(Len(r) + Len(q)) : all[j] = IF j <= Len(r) THEN r[j] ELSE q[j - Len(r)]
  <2> HIDE DEF q
  <2>1. q \in Seq(T)
    BY DEF q
  <2>2. QED BY <2>1, ConcatProperties, LenProperties
<1> HIDE DEF all
<1>2. ASSUME NEW j \in 1..Len(all)
      PROVE  \E h \in 1..k : \E i \in 1..Len(seqs[h]) : all[j] = seqs[h][i]
  <2>1. CASE j <= Len(r)
    <3>1. j \in 1..Len(r) /\ all[j] = r[j]
      BY <1>1, <2>1
    <3>2. PICK h \in 1..(k - 1) : \E i \in 1..Len(seqs[h]) : r[j] = seqs[h][i]
      BY <3>1 DEF Elements
    <3>3. h \in 1..k
      OBVIOUS
    <3>4. QED BY <3>1, <3>2, <3>3
  <2>2. CASE j > Len(r)
    <3>1. j - Len(r) \in 1..Len(q) /\ all[j] = q[j - Len(r)]
      <4> HIDE DEF q
      <4>1. QED BY <1>1, <2>2
    <3>2. k \in 1..k
      OBVIOUS
    <3>3. QED BY <3>1, <3>2, Zenon
  <2>3. QED BY <1>1, <2>1, <2>2
<1>3. ASSUME NEW h \in 1..k, NEW i \in 1..Len(seqs[h])
      PROVE  \E j \in 1..Len(all) : all[j] = seqs[h][i]
  <2>1. CASE h \in 1..(k - 1)
    <3>1. PICK j \in 1..Len(r) : r[j] = seqs[h][i]
      BY <2>1 DEF Elements
    <3>2. j \in 1..Len(all) /\ all[j] = r[j]
      <4> HIDE DEF q
      <4>1. QED BY <1>1
    <3>3. QED BY <3>1, <3>2
  <2>2. CASE h = k
    <3>1. i \in 1..Len(q)
      BY <2>2
    <3>2. Len(r) + i \in 1..Len(all) /\ all[Len(r) + i] = q[i]
      <4> HIDE DEF q
      <4>1. /\ Len(r) + i \in 1..(Len(r) + Len(q))
            /\ ~(Len(r) + i <= Len(r)) /\ (Len(r) + i) - Len(r) = i
        BY ONLY <1>1, <3>1
      <4>2. QED BY ONLY <1>1, <4>1
    <3>3. q[i] = seqs[h][i]
      BY <2>2
    <3> HIDE DEF q
    <3>4. QED BY ONLY <3>2, <3>3
  <2>3. QED BY <2>1, <2>2
<1>4. QED BY <1>2, <1>3 DEF Elements, all

(* What FlattenSeq returns is a sequence, its elements are those of the    *)
(* sequences put together, and none is left out.                           *)
LEMMA FlattenElements ==
  ASSUME NEW T, NEW seqs \in Seq(Seq(T))
  PROVE  FlattenSeq(seqs) \in Seq(T) /\ Elements(seqs, Len(seqs), FlattenSeq(seqs))
<1> DEFINE n == Len(seqs)
<1>1. n \in Nat /\ (\A h \in 1..n : seqs[h] \in Seq(T))
  BY LenProperties, ElementOfSeq
<1>2. CASE n = 0
  <2>1. FlattenSeq(seqs) = seqs /\ seqs = <<>>
    BY <1>2 DEF FlattenSeq
  <2>2. QED BY <2>1 DEF Elements
<1>3. CASE n > 0
  <2> DEFINE G == {x \in (1..n) \X Seq(T) : Elements(seqs, x[1], x[2])}
  <2>1. <<1, seqs[1]>> \in G
    <3>1. 1 \in 1..n /\ seqs[1] \in Seq(T)
      BY <1>1, <1>3
    <3>2. Elements(seqs, 1, seqs[1])
      BY DEF Elements
    <3>3. QED BY <3>1, <3>2
  <2>2. ASSUME NEW k \in 1..n, NEW r \in Seq(T), k # 1, <<k - 1, r>> \in G
        PROVE  <<k, r \o seqs[k]>> \in G
    <3>1. Elements(seqs, k - 1, r) /\ k \in Nat \ {0} /\ seqs[k] \in Seq(T)
      BY <1>1, <2>2
    <3>2. Elements(seqs, k, r \o seqs[k])
      BY <3>1, ElementsOfOneMore
    <3>3. r \o seqs[k] \in Seq(T)
      BY <3>1, ConcatProperties
    <3>4. QED BY <3>2, <3>3
  <2>3. FlattenSeq(seqs) \in Seq(T) /\ <<n, FlattenSeq(seqs)>> \in G
    <3> HIDE DEF G
    <3>1. QED BY <1>3, <2>1, <2>2, FlattenInduction
  <2>4. QED BY <2>3
<1>4. QED BY <1>1, <1>2, <1>3

(* One sequence alone is what it is put together to.                       *)
LEMMA FlattenOne ==
  ASSUME NEW seqs, Len(seqs) = 1
  PROVE  FlattenSeq(seqs) = seqs[1]
<1>1. Len(seqs) \in Nat \ {0} /\ 1 \in Nat /\ 1 > 0
  OBVIOUS
<1>2. PICK f : Flattens(f, seqs, 1) /\ FlattenSeq(seqs) = f[1]
  BY <1>1, FlattenIsLast
<1>3. f[1] = seqs[1]
  <2>1. 1 > 0 => f[1] = seqs[1]
    BY ONLY <1>1, <1>2, FlattenSteps
  <2>2. QED BY <1>1, <2>1
<1>4. QED BY <1>2, <1>3

(* F of each element.                                                      *)
Mapped(F, r) == [j \in DOMAIN r |-> F[r[j]]]

LEMMA MappedForm ==
  ASSUME NEW T, NEW F, NEW r \in Seq(T)
  PROVE  /\ Mapped(F, r) \in Seq({F[x] : x \in T})
         /\ Len(Mapped(F, r)) = Len(r) /\ Len(r) \in Nat
         /\ \A j \in 1..Len(r) : Mapped(F, r)[j] = F[r[j]]
<1> DEFINE U == {F[x] : x \in T}
<1>1. /\ DOMAIN r = 1..Len(r) /\ Len(r) \in Nat
      /\ \A j \in 1..Len(r) : F[r[j]] \in U
  BY LenProperties, ElementOfSeq
<1>2. Mapped(F, r) = [j \in 1..Len(r) |-> F[r[j]]]
  BY <1>1 DEF Mapped
<1> HIDE DEF U
<1>3. Mapped(F, r) \in Seq(U) /\ Len(Mapped(F, r)) = Len(r)
      /\ \A j \in 1..Len(r) : Mapped(F, r)[j] = F[r[j]]
  BY <1>1, <1>2
<1>4. QED BY <1>1, <1>3 DEF U

LEMMA MappedConcat ==
  ASSUME NEW T, NEW F, NEW a \in Seq(T), NEW b \in Seq(T)
  PROVE  Mapped(F, a \o b) = Mapped(F, a) \o Mapped(F, b)
<1> DEFINE U == {F[x] : x \in T}
<1>1. ASSUME NEW r \in Seq(T)
      PROVE  /\ Mapped(F, r) \in Seq(U) /\ Len(Mapped(F, r)) = Len(r) /\ Len(r) \in Nat
             /\ \A j \in 1..Len(r) : Mapped(F, r)[j] = F[r[j]]
  <2>1. Mapped(F, r) \in Seq(U)
    BY MappedForm
  <2>2. Len(Mapped(F, r)) = Len(r)
    BY MappedForm
  <2>3. Len(r) \in Nat
    OBVIOUS
  <2>4. ASSUME NEW j \in 1..Len(r) PROVE Mapped(F, r)[j] = F[r[j]]
    BY DEF Mapped
  <2> HIDE DEF U
  <2>5. QED BY <2>1, <2>2, <2>3, <2>4
<1> HIDE DEF U
<1>2. /\ a \o b \in Seq(T) /\ Len(a \o b) = Len(a) + Len(b)
      /\ \A j \in 1..(Len(a) + Len(b)) :
           (a \o b)[j] = IF j <= Len(a) THEN a[j] ELSE b[j - Len(a)]
  BY ConcatProperties
<1> DEFINE ma == Mapped(F, a)
           mb == Mapped(F, b)
           mab == Mapped(F, a \o b)
<1>3. /\ ma \in Seq(U) /\ Len(ma) = Len(a) /\ Len(a) \in Nat
      /\ mb \in Seq(U) /\ Len(mb) = Len(b) /\ Len(b) \in Nat
      /\ mab \in Seq(U) /\ Len(mab) = Len(a) + Len(b)
      /\ \A j \in 1..Len(a) : ma[j] = F[a[j]]
      /\ \A j \in 1..Len(b) : mb[j] = F[b[j]]
      /\ \A j \in 1..(Len(a) + Len(b)) : mab[j] = F[(a \o b)[j]]
  BY <1>1, <1>2
<1> HIDE DEF ma, mb, mab
<1>4. /\ ma \o mb \in Seq(U) /\ Len(ma \o mb) = Len(a) + Len(b)
      /\ \A j \in 1..(Len(a) + Len(b)) :
           (ma \o mb)[j] = IF j <= Len(a) THEN ma[j] ELSE mb[j - Len(a)]
  <2>1. /\ ma \o mb \in Seq(U) /\ Len(ma \o mb) = Len(ma) + Len(mb)
        /\ \A j \in 1..(Len(ma) + Len(mb)) :
             (ma \o mb)[j] = IF j <= Len(ma) THEN ma[j] ELSE mb[j - Len(ma)]
    <3>1. ma \in Seq(U) /\ mb \in Seq(U)
      BY <1>3
    <3>2. QED BY ONLY <3>1, ConcatProperties
  <2>2. QED BY <1>3, <2>1
<1>5. ASSUME NEW j \in 1..(Len(a) + Len(b)) PROVE mab[j] = (ma \o mb)[j]
  <2>1. CASE j <= Len(a)
    <3>1. j \in 1..Len(a)
      BY ONLY <1>3, <2>1, j \in 1..(Len(a) + Len(b))
    <3>2. QED BY <1>2, <1>3, <1>4, <2>1, <3>1
  <2>2. CASE ~(j <= Len(a))
    <3>1. j - Len(a) \in 1..Len(b)
      BY ONLY <1>3, <2>2, j \in 1..(Len(a) + Len(b))
    <3>2. (ma \o mb)[j] = mb[j - Len(a)] /\ (a \o b)[j] = b[j - Len(a)]
      BY <1>2, <1>4, <2>2
    <3>3. QED BY <1>3, <3>1, <3>2
  <2>3. QED BY <2>1, <2>2
<1>6. mab = ma \o mb
  BY ONLY <1>3, <1>4, <1>5, SeqEqual
<1>7. QED BY <1>6 DEF ma, mb, mab

(* It does not matter whether F is applied before or after.                *)
LEMMA FlattenMapped ==
  ASSUME NEW T, NEW F, NEW seqs \in Seq(Seq(T)),
         NEW images, Len(images) = Len(seqs),
         Len(seqs) = 0 => images = <<>>,
         \A h \in 1..Len(seqs) : images[h] = Mapped(F, seqs[h])
  PROVE  Mapped(F, FlattenSeq(seqs)) = FlattenSeq(images)
<1> DEFINE n == Len(seqs)
<1>1. n \in Nat /\ \A h \in 1..n : seqs[h] \in Seq(T)
  BY LenProperties, ElementOfSeq
<1>2. CASE n = 0
  <2>1. seqs = <<>> /\ FlattenSeq(seqs) = <<>> /\ FlattenSeq(images) = <<>>
    BY <1>2 DEF FlattenSeq
  <2>2. Mapped(F, <<>>) = <<>>
    BY DEF Mapped
  <2>3. QED BY <2>1, <2>2
<1>3. CASE n > 0
  <2>1. Len(images) \in Nat \ {0}
    BY <1>1, <1>3
  <2>2. PICK g : Flattens(g, images, n) /\ FlattenSeq(images) = g[n]
    BY <2>1, FlattenIsLast
  <2>3. /\ n > 0 => g[1] = images[1]
        /\ \A i \in 1..n : i # 1 => i - 1 \in 1..n /\ g[i] = g[i - 1] \o images[i]
    <3>1. n \in Nat /\ Flattens(g, images, n)
      BY <1>1, <2>2
    <3> HIDE DEF n
    <3>2. QED BY ONLY <3>1, FlattenSteps, Zenon
  <2>4. \A x, y \in Seq(T) : Mapped(F, x \o y) = Mapped(F, x) \o Mapped(F, y)
    <3> SUFFICES ASSUME NEW x \in Seq(T), NEW y \in Seq(T)
                 PROVE  Mapped(F, x \o y) = Mapped(F, x) \o Mapped(F, y)
      OBVIOUS
    <3>1. QED BY ONLY MappedConcat, x \in Seq(T), y \in Seq(T)
  <2> DEFINE G == {x \in (1..n) \X Seq(T) : Mapped(F, x[2]) = g[x[1]]}
  <2>5. <<1, seqs[1]>> \in G
    <3>1. 1 \in 1..n
      BY <1>1, <1>3
    <3>2. QED BY <1>1, <1>3, <2>3, <3>1
  <2>6. ASSUME NEW k \in 1..n, NEW r \in Seq(T), k # 1, <<k - 1, r>> \in G
        PROVE  <<k, r \o seqs[k]>> \in G
    <3>1. Mapped(F, r) = g[k - 1] /\ seqs[k] \in Seq(T)
      BY <1>1, <2>6
    <3>2. g[k] = g[k - 1] \o Mapped(F, seqs[k])
      BY <2>3, <2>6
    <3>3. Mapped(F, r \o seqs[k]) = Mapped(F, r) \o Mapped(F, seqs[k])
      BY <2>4, <3>1, Zenon
    <3>4. r \o seqs[k] \in Seq(T)
      BY <3>1, ConcatProperties
    <3>5. QED BY <3>1, <3>2, <3>3, <3>4
  <2>7. <<n, FlattenSeq(seqs)>> \in G
    <3> HIDE DEF G
    <3>1. QED BY <1>3, <2>5, <2>6, FlattenInduction
  <2>8. QED BY <2>2, <2>7
<1>4. QED BY <1>1, <1>2, <1>3

(* Nothing occurs twice if nothing does in one sequence or in two of them. *)
LEMMA FlattenInjective ==
  ASSUME NEW T, NEW seqs \in Seq(Seq(T)),
         \A h \in 1..Len(seqs) : \A i, j \in 1..Len(seqs[h]) :
           seqs[h][i] = seqs[h][j] => i = j,
         \A h, k \in 1..Len(seqs) : h # k =>
           \A i \in 1..Len(seqs[h]) : \A j \in 1..Len(seqs[k]) : seqs[h][i] # seqs[k][j]
  PROVE  \A i, j \in 1..Len(FlattenSeq(seqs)) :
           FlattenSeq(seqs)[i] = FlattenSeq(seqs)[j] => i = j
<1> DEFINE n == Len(seqs)
           Once(r) == \A i, j \in 1..Len(r) : r[i] = r[j] => i = j
<1>1. n \in Nat /\ \A h \in 1..n : seqs[h] \in Seq(T)
  BY LenProperties, ElementOfSeq
<1>2. CASE n = 0
  <2>1. FlattenSeq(seqs) = seqs /\ seqs = <<>>
    BY <1>2 DEF FlattenSeq
  <2>2. QED BY <2>1
<1>3. CASE n > 0
  <2> DEFINE G == {x \in (1..n) \X Seq(T) : Once(x[2]) /\ Elements(seqs, x[1], x[2])}
  <2>1. <<1, seqs[1]>> \in G
    <3>1. 1 \in 1..n /\ seqs[1] \in Seq(T)
      BY <1>1, <1>3
    <3>2. Elements(seqs, 1, seqs[1])
      <4>1. \A h \in 1..1 : h = 1
        OBVIOUS
      <4>2. 1 \in 1..1
        OBVIOUS
      <4>3. QED BY ONLY <4>1, <4>2, Zenon DEF Elements
    <3>3. Once(seqs[1])
      BY <3>1
    <3>4. QED BY <3>1, <3>2, <3>3
  <2>2. ASSUME NEW k \in 1..n, NEW r \in Seq(T), k # 1, <<k - 1, r>> \in G
        PROVE  <<k, r \o seqs[k]>> \in G
    <3> DEFINE q == seqs[k]
               all == r \o q
    <3>1. Once(r) /\ Elements(seqs, k - 1, r) /\ k \in Nat \ {0} /\ q \in Seq(T)
      BY <1>1, <2>2
    <3>2. Elements(seqs, k, all)
      BY <3>1, ElementsOfOneMore
    <3>3. /\ all \in Seq(T) /\ Len(all) = Len(r) + Len(q)
          /\ Len(r) \in Nat /\ Len(q) \in Nat
          /\ \A j \in 1..(Len(r) + Len(q)) :
               all[j] = IF j <= Len(r) THEN r[j] ELSE q[j - Len(r)]
      <4> HIDE DEF q
      <4>1. QED BY <3>1, ConcatProperties, LenProperties
    <3>4. ASSUME NEW i \in 1..Len(r), NEW j \in 1..Len(q) PROVE r[i] # q[j]
      <4>1. PICK h \in 1..(k - 1) : \E m \in 1..Len(seqs[h]) : r[i] = seqs[h][m]
        BY <3>1 DEF Elements
      <4>2. h \in 1..n /\ h # k
        BY <1>1
      <4>3. QED BY <4>1, <4>2
    <3>5. Once(q)
      OBVIOUS
    <3> HIDE DEF all, q
    <3>6. ASSUME NEW i \in 1..Len(all), NEW j \in 1..Len(all), all[i] = all[j] PROVE i = j
      <4>1. CASE i <= Len(r) /\ j <= Len(r)
        <5>1. i \in 1..Len(r) /\ j \in 1..Len(r) /\ all[i] = r[i] /\ all[j] = r[j]
          BY ONLY <3>3, <4>1, i \in 1..Len(all), j \in 1..Len(all)
        <5>2. QED BY <3>1, <3>6, <5>1
      <4>2. CASE i <= Len(r) /\ ~(j <= Len(r))
        <5>1. i \in 1..Len(r) /\ j - Len(r) \in 1..Len(q)
              /\ all[i] = r[i] /\ all[j] = q[j - Len(r)]
          BY ONLY <3>3, <4>2, i \in 1..Len(all), j \in 1..Len(all)
        <5>2. QED BY <3>4, <3>6, <5>1
      <4>3. CASE ~(i <= Len(r)) /\ j <= Len(r)
        <5>1. j \in 1..Len(r) /\ i - Len(r) \in 1..Len(q)
              /\ all[j] = r[j] /\ all[i] = q[i - Len(r)]
          BY ONLY <3>3, <4>3, i \in 1..Len(all), j \in 1..Len(all)
        <5>2. QED BY <3>4, <3>6, <5>1
      <4>4. CASE ~(i <= Len(r)) /\ ~(j <= Len(r))
        <5>1. i - Len(r) \in 1..Len(q) /\ j - Len(r) \in 1..Len(q)
              /\ all[i] = q[i - Len(r)] /\ all[j] = q[j - Len(r)]
          BY ONLY <3>3, <4>4, i \in 1..Len(all), j \in 1..Len(all)
        <5>2. i - Len(r) = j - Len(r)
          BY <3>5, <3>6, <5>1
        <5>3. QED BY ONLY <3>3, <5>2, i \in 1..Len(all), j \in 1..Len(all)
      <4>5. QED BY <4>1, <4>2, <4>3, <4>4
    <3>7. QED BY <3>2, <3>3, <3>6 DEF all, q
  <2>3. <<n, FlattenSeq(seqs)>> \in G
    <3> HIDE DEF G
    <3>1. QED BY <1>3, <2>1, <2>2, FlattenInduction
  <2>4. QED BY <2>3
<1>4. QED BY <1>1, <1>2, <1>3

-----------------------------------------------------------------------------
(* Folds.  FoldLeft goes by a recursive function on the subsets of a       *)
(* sequence's domain, and takes the largest element away each time.        *)

LEMMA MaxOfInitial ==
  ASSUME NEW n \in Nat \ {0}
  PROVE  Max(1..n) = n /\ (1..n) \ {n} = 1..(n - 1) /\ 1..n # {}
<1>1. n \in 1..n /\ \A y \in 1..n : n >= y
  OBVIOUS
<1>2. \A x \in 1..n : (\A y \in 1..n : x >= y) => x = n
  BY <1>1
<1>3. Max(1..n) = n
  BY <1>1, <1>2, Zenon DEF Max
<1>4. QED BY <1>1, <1>3

(* The largest of some numbers up to n + 1 that n + 1 is one of.           *)
LEMMA MaxOfSome ==
  ASSUME NEW n \in Nat, NEW s \in SUBSET (1..(n + 1)), n + 1 \in s
  PROVE  Max(s) = n + 1
<1>1. \A y \in s : n + 1 >= y
  OBVIOUS
<1>2. \A x \in s : (\A y \in s : x >= y) => x = n + 1
  BY <1>1
<1>3. QED BY <1>1, <1>2, Zenon DEF Max

(* Some numbers up to n, if any, have a largest.                           *)
LEMMA LargestOf ==
  ASSUME NEW n \in Nat, NEW s \in SUBSET (1..n), s # {}
  PROVE  \E x \in s : \A y \in s : x >= y
<1> DEFINE P(m) == \A t \in SUBSET (1..m) : t # {} => \E x \in t : \A y \in t : x >= y
           S == {m \in Nat : P(m)}
<1>1. 0 \in S
  <2>1. 1..0 = {}
    OBVIOUS
  <2>2. QED BY <2>1
<1>2. ASSUME NEW m \in Nat, m \in S
      PROVE  m + 1 \in S
  <2>1. SUFFICES ASSUME NEW t \in SUBSET (1..(m + 1)), t # {}
                 PROVE  \E x \in t : \A y \in t : x >= y
    OBVIOUS
  <2>2. CASE m + 1 \in t
    BY <2>2
  <2>3. CASE m + 1 \notin t
    <3>1. t \in SUBSET (1..m)
      BY <2>3
    <3>2. QED BY <1>2, <2>1, <3>1
  <2>4. QED BY <2>2, <2>3
<1> HIDE DEF S
<1>3. n \in S
  BY <1>1, <1>2, SetInduction
<1>4. QED BY <1>3 DEF S

(* g is the value of the fold on each set of positions.                    *)
FoldsSets(g, n, base, F, seq) ==
  \A s \in SUBSET (1..n) :
    g[s] = IF s = {} THEN base ELSE F[<<g[s \ {Max(s)}], seq[Max(s)]>>]

(* There is such a g.                                                      *)
LEMMA FoldHasValues ==
  ASSUME NEW A, NEW X, NEW F \in [A \X X -> A], NEW base \in A, NEW seq \in Seq(X)
  PROVE  \E g \in [SUBSET (1..Len(seq)) -> A] : FoldsSets(g, Len(seq), base, F, seq)
<1> DEFINE P(n) == \E g \in [SUBSET (1..n) -> A] : FoldsSets(g, n, base, F, seq)
           S == {n \in Nat : n <= Len(seq) => P(n)}
<1>3. Len(seq) \in Nat
  BY LenProperties
<1>1. 0 \in S
  <2>1. SUBSET (1..0) = {{}}
    OBVIOUS
  <2>2. [s \in SUBSET (1..0) |-> base] \in [SUBSET (1..0) -> A]
    OBVIOUS
  <2>3. FoldsSets([s \in SUBSET (1..0) |-> base], 0, base, F, seq)
    BY <2>1 DEF FoldsSets
  <2>4. QED BY <2>2, <2>3
<1>2. ASSUME NEW n \in Nat, n \in S
      PROVE  n + 1 \in S
  <2>1. SUFFICES ASSUME n + 1 <= Len(seq)
                 PROVE  \E g \in [SUBSET (1..(n + 1)) -> A] : FoldsSets(g, n + 1, base, F, seq)
    <3> HIDE DEF P
    <3>1. (n + 1 <= Len(seq) => P(n + 1)) => n + 1 \in S
      OBVIOUS
    <3>2. QED BY <3>1 DEF P
  <2>2. Len(seq) \in Nat /\ seq[n + 1] \in X
    BY <1>3, <2>1, ElementOfSeq
  <2>3. PICK g \in [SUBSET (1..n) -> A] : FoldsSets(g, n, base, F, seq)
    <3> HIDE DEF P
    <3>1. P(n)
      BY <1>2, <2>1, <2>2
    <3>2. QED BY <3>1, Zenon DEF P
  <2>4. PICK h : h = [s \in SUBSET (1..(n + 1)) |->
                       IF n + 1 \in s THEN F[<<g[s \ {n + 1}], seq[n + 1]>>] ELSE g[s]]
    OBVIOUS
  <2>5. ASSUME NEW s \in SUBSET (1..(n + 1))
        PROVE  /\ n + 1 \notin s => s \in SUBSET (1..n) /\ h[s] = g[s]
               /\ s \ {n + 1} \in SUBSET (1..n)
               /\ n + 1 \in s => h[s] = F[<<g[s \ {n + 1}], seq[n + 1]>>]
    <3>1. s \ {n + 1} \in SUBSET (1..n) /\ (n + 1 \notin s => s \in SUBSET (1..n))
      OBVIOUS
    <3>2. h[s] = IF n + 1 \in s THEN F[<<g[s \ {n + 1}], seq[n + 1]>>] ELSE g[s]
      BY <2>4, Zenon
    <3>3. QED BY <3>1, <3>2
  <2>6. h \in [SUBSET (1..(n + 1)) -> A]
    <3>1. ASSUME NEW s \in SUBSET (1..(n + 1))
          PROVE  (IF n + 1 \in s THEN F[<<g[s \ {n + 1}], seq[n + 1]>>] ELSE g[s]) \in A
      <4>1. CASE n + 1 \in s
        <5>1. g[s \ {n + 1}] \in A
          BY <2>5
        <5>2. <<g[s \ {n + 1}], seq[n + 1]>> \in A \X X
          BY <2>2, <5>1
        <5>3. F[<<g[s \ {n + 1}], seq[n + 1]>>] \in A
          BY <5>2, Zenon
        <5>4. QED BY <4>1, <5>3
      <4>2. CASE n + 1 \notin s
        BY <2>5, <4>2
      <4>3. QED BY <4>1, <4>2
    <3>2. QED BY <2>4, <3>1, Zenon
  <2>7. ASSUME NEW s \in SUBSET (1..(n + 1))
        PROVE  h[s] = IF s = {} THEN base ELSE F[<<h[s \ {Max(s)}], seq[Max(s)]>>]
    <3>1. CASE n + 1 \in s
      <4>1. Max(s) = n + 1
        BY <3>1, MaxOfSome
      <4>2. s \ {n + 1} \in SUBSET (1..(n + 1)) /\ n + 1 \notin s \ {n + 1}
        OBVIOUS
      <4>3. h[s \ {n + 1}] = g[s \ {n + 1}]
        BY <2>5, <4>2
      <4>4. QED BY <2>5, <3>1, <4>1, <4>3
    <3>2. CASE n + 1 \notin s
      <4>1. s \in SUBSET (1..n) /\ h[s] = g[s]
        BY <2>5, <3>2
      <4>2. g[s] = IF s = {} THEN base ELSE F[<<g[s \ {Max(s)}], seq[Max(s)]>>]
        BY <2>3, <4>1 DEF FoldsSets
      <4>3. s \ {Max(s)} \in SUBSET (1..(n + 1)) /\ n + 1 \notin s \ {Max(s)}
        BY <3>2
      <4>4. h[s \ {Max(s)}] = g[s \ {Max(s)}]
        BY <2>5, <4>3
      <4>5. QED BY <4>1, <4>2, <4>4
    <3>3. QED BY <3>1, <3>2
  <2>8. QED BY <2>6, <2>7 DEF FoldsSets
<1> HIDE DEF S
<1>4. Len(seq) \in S
  BY <1>1, <1>2, <1>3, SetInduction
<1> HIDE DEF P
<1>5. P(Len(seq))
  BY <1>3, <1>4 DEF S
<1>6. QED BY <1>5, Zenon DEF P

(* The same one element at a time, with the values there are.              *)
FoldsBy(g, A, X, base, F, seq) ==
  \A s \in SUBSET (1..Len(seq)) :
    /\ s = {} => g[s] = base
    /\ s # {} => /\ g[s \ {Max(s)}] \in A /\ seq[Max(s)] \in X
                 /\ g[s] = F[<<g[s \ {Max(s)}], seq[Max(s)]>>]

LEMMA FoldHasSteps ==
  ASSUME NEW A, NEW X, NEW F \in [A \X X -> A], NEW base \in A, NEW seq \in Seq(X)
  PROVE  \E g \in [SUBSET (1..Len(seq)) -> A] : FoldsBy(g, A, X, base, F, seq)
<1>1. PICK g \in [SUBSET (1..Len(seq)) -> A] : FoldsSets(g, Len(seq), base, F, seq)
  BY FoldHasValues
<1>2. ASSUME NEW s \in SUBSET (1..Len(seq)), s # {}
      PROVE  g[s \ {Max(s)}] \in A /\ seq[Max(s)] \in X
  <2>1. Len(seq) \in Nat
    BY LenProperties
  <2>2. \E x \in s : \A y \in s : x >= y
    BY <1>2, <2>1, LargestOf
  <2>3. Max(s) \in s
    BY <2>2, Zenon DEF Max
  <2>4. QED BY <2>1, <2>3, ElementOfSeq
<1>3. QED BY <1>1, <1>2, Zenon DEF FoldsSets, FoldsBy

(* A fold step by step: run[k] is its value after the first k elements.    *)
Folding(run, base, F, seq) ==
  /\ run[0] = base
  /\ \A k \in 1..Len(seq) : run[k] = F[<<run[k - 1], seq[k]>>]

(* Each value is a possible one.                                           *)
LEMMA FoldingTyped ==
  ASSUME NEW A, NEW X, NEW F \in [A \X X -> A], NEW base \in A, NEW seq \in Seq(X),
         NEW run, Folding(run, base, F, seq)
  PROVE  \A k \in 0..Len(seq) : run[k] \in A
<1> DEFINE S == {k \in Nat : k <= Len(seq) => run[k] \in A}
<1>1. 0 \in S
  BY DEF Folding
<1>2. ASSUME NEW k \in Nat, k \in S
      PROVE  k + 1 \in S
  <2>1. SUFFICES ASSUME k + 1 <= Len(seq)
                 PROVE  run[k + 1] \in A
    OBVIOUS
  <2>2. Len(seq) \in Nat /\ seq[k + 1] \in X /\ k + 1 \in 1..Len(seq) /\ (k + 1) - 1 = k
    BY <2>1, LenProperties, ElementOfSeq
  <2>3. run[k] \in A
    BY <1>2, <2>1, <2>2
  <2>4. run[k + 1] = F[<<run[k], seq[k + 1]>>]
    BY <2>2 DEF Folding
  <2>5. <<run[k], seq[k + 1]>> \in A \X X
    BY <2>2, <2>3
  <2>6. QED BY <2>4, <2>5
<1> HIDE DEF S
<1>3. Nat \subseteq S
  BY <1>1, <1>2, SetInduction
<1>4. Len(seq) \in Nat
  BY LenProperties
<1>5. QED BY <1>3, <1>4 DEF S

(* Sequences that begin alike fold alike as far as they do.                *)
LEMMA FoldingsAgree ==
  ASSUME NEW base, NEW F, NEW s, NEW t, NEW r, NEW q, NEW n \in Nat,
         Folding(r, base, F, s), Folding(q, base, F, t),
         Len(s) \in Nat, Len(t) \in Nat, n <= Len(s), n <= Len(t),
         \A k \in 1..n : s[k] = t[k]
  PROVE  \A k \in 0..n : r[k] = q[k]
<1> DEFINE S == {k \in Nat : k <= n => r[k] = q[k]}
<1>1. 0 \in S
  BY DEF Folding
<1>2. ASSUME NEW k \in Nat, k \in S
      PROVE  k + 1 \in S
  <2>1. SUFFICES ASSUME k + 1 <= n
                 PROVE  r[k + 1] = q[k + 1]
    OBVIOUS
  <2>2. k + 1 \in 1..Len(s) /\ k + 1 \in 1..Len(t) /\ k + 1 \in 1..n /\ (k + 1) - 1 = k
    BY <2>1
  <2>3. r[k + 1] = F[<<r[k], s[k + 1]>>] /\ q[k + 1] = F[<<q[k], t[k + 1]>>]
    BY <2>2 DEF Folding
  <2>4. r[k] = q[k] /\ s[k + 1] = t[k + 1]
    BY <1>2, <2>1, <2>2
  <2>5. QED BY <2>3, <2>4
<1> HIDE DEF S
<1>3. Nat \subseteq S
  BY <1>1, <1>2, SetInduction
<1>4. QED BY <1>3 DEF S

(* From the recursive function of a fold, whose values are possible ones,  *)
(* to its steps.                                                           *)
FoldsTo(v, A, base, F, seq) ==
  \E g : /\ v = g[1..Len(seq)]
         /\ \A s \in SUBSET (1..Len(seq)) :
              /\ s = {} => g[s] = base
              /\ s # {} /\ g[s \ {Max(s)}] \in A => g[s] = F[<<g[s \ {Max(s)}], seq[Max(s)]>>]

Folded(v, base, F, seq) == \E run : Folding(run, base, F, seq) /\ run[Len(seq)] = v

LEMMA FoldedSteps ==
  ASSUME NEW A, NEW X, NEW F \in [A \X X -> A], NEW base \in A, NEW seq \in Seq(X), NEW v,
         FoldsTo(v, A, base, F, seq)
  PROVE  Folded(v, base, F, seq)
<1> PICK g : /\ v = g[1..Len(seq)]
             /\ \A s \in SUBSET (1..Len(seq)) :
                  /\ s = {} => g[s] = base
                  /\ s # {} /\ g[s \ {Max(s)}] \in A =>
                       g[s] = F[<<g[s \ {Max(s)}], seq[Max(s)]>>]
  BY Zenon DEF FoldsTo
<1>1. Len(seq) \in Nat
  BY LenProperties
<1>2. PICK run : run = [k \in 0..Len(seq) |-> g[1..k]]
  OBVIOUS
<1>3. \A k \in 0..Len(seq) : run[k] = g[1..k]
  BY <1>2
<1>4. run[0] = base
  <2>1. 1..0 = {} /\ {} \in SUBSET (1..Len(seq)) /\ 0 \in 0..Len(seq)
    BY <1>1
  <2>2. QED BY <1>3, <2>1
<1>5. ASSUME NEW k \in 1..Len(seq), run[k - 1] \in A
      PROVE  run[k] = F[<<run[k - 1], seq[k]>>] /\ run[k] \in A
  <2>1. Max(1..k) = k /\ (1..k) \ {k} = 1..(k - 1) /\ 1..k # {}
    BY <1>1, MaxOfInitial
  <2>2. 1..k \in SUBSET (1..Len(seq)) /\ k \in 0..Len(seq) /\ k - 1 \in 0..Len(seq)
    BY <1>1
  <2>3. run[k - 1] = g[1..(k - 1)] /\ run[k] = g[1..k]
    BY <1>3, <2>2
  <2>4. g[1..k] = F[<<g[1..(k - 1)], seq[k]>>]
    BY <1>5, <2>1, <2>2, <2>3
  <2>5. <<run[k - 1], seq[k]>> \in A \X X
    BY <1>5, ElementOfSeq
  <2>6. F[<<run[k - 1], seq[k]>>] \in A
    BY <2>5, Zenon
  <2>7. QED BY <2>3, <2>4, <2>6
<1>6. \A k \in 0..Len(seq) : run[k] \in A
  <2> DEFINE S == {k \in Nat : k <= Len(seq) => run[k] \in A}
  <2>1. 0 \in S
    BY <1>4
  <2>2. ASSUME NEW k \in Nat, k \in S
        PROVE  k + 1 \in S
    <3>1. SUFFICES ASSUME k + 1 <= Len(seq)
                   PROVE  run[k + 1] \in A
      OBVIOUS
    <3>2. k + 1 \in 1..Len(seq) /\ (k + 1) - 1 = k /\ run[k] \in A
      BY <1>1, <2>2, <3>1
    <3>3. QED BY <1>5, <3>2
  <2> HIDE DEF S
  <2>3. Nat \subseteq S
    BY <2>1, <2>2, SetInduction
  <2>4. QED BY <1>1, <2>3 DEF S
<1>7. Folding(run, base, F, seq)
  <2>1. ASSUME NEW k \in 1..Len(seq)
        PROVE  run[k] = F[<<run[k - 1], seq[k]>>]
    <3>1. k - 1 \in 0..Len(seq)
      BY <1>1
    <3>2. QED BY <1>5, <1>6, <3>1
  <2>2. QED BY <1>4, <2>1 DEF Folding
<1>8. run[Len(seq)] = v
  BY <1>1, <1>3
<1>9. QED BY <1>7, <1>8 DEF Folded

-----------------------------------------------------------------------------
(* The first of some numbers, and functions that jump forward.             *)

LEMMA SmallestOf ==
  ASSUME NEW s \in SUBSET Nat, s # {}
  PROVE  \E x \in s : \A y \in s : x <= y
<1> DEFINE R == OpToRel(<, Nat)
<1>1. IsWellFoundedOn(R, Nat)
  BY NatLessThanWellFounded
<1>2. PICK x \in s : \A y \in s : ~ (<<y, x>> \in R)
  <2> HIDE DEF R
  <2>1. QED BY <1>1, WFMin
<1>3. ASSUME NEW y \in s PROVE x <= y
  <2>1. <<y, x>> \notin R /\ x \in Nat /\ y \in Nat
    BY <1>2
  <2>2. y < x => <<y, x>> \in R
    <3>1. <<y, x>> \in Nat \X Nat /\ <<y, x>>[1] = y /\ <<y, x>>[2] = x
      BY <2>1
    <3>2. QED BY <3>1 DEF OpToRel
  <2> HIDE DEF R
  <2>3. CASE y < x
    BY <2>1, <2>2, <2>3
  <2>4. CASE ~ (y < x)
    BY <2>1, <2>4
  <2>5. QED BY <2>3, <2>4
<1>4. QED BY <1>3

(* found has a first member f, or none, and then f is beyond n.            *)
IsFirst(f, found, n) ==
  \/ f = n + 1 /\ found = {}
  \/ f \in found /\ \A j \in found : f <= j

LEMMA FirstOf ==
  ASSUME NEW i \in Nat, NEW n \in Nat, NEW found \in SUBSET (i..n)
  PROVE  IsFirst(IF found = {} THEN n + 1 ELSE Min(found), found, n)
<1>1. CASE found = {}
  BY <1>1 DEF IsFirst
<1>2. CASE found # {}
  <2>1. found \in SUBSET Nat
    OBVIOUS
  <2>2. \E j \in found : \A k \in found : j <= k
    BY <1>2, <2>1, SmallestOf
  <2>3. QED BY <1>2, <2>2, Zenon DEF IsFirst, Min
<1>3. QED BY <1>1, <1>2

(* f follows next from x until it stops, and puts the prefixes it passes   *)
(* in front.                                                               *)
Jumps(f, I, stop, base, plain, prefix, next) ==
  f = [x \in I |-> IF x \in stop THEN base[x]
                   ELSE IF x \in plain THEN f[next[x]]
                   ELSE prefix[x] \o f[next[x]]]

(* There is such a function when each jump comes closer to an end.         *)
LEMMA JumpsExist ==
  ASSUME NEW I, NEW stop, NEW base, NEW plain, NEW prefix, NEW next, NEW rank, NEW top \in Nat,
         \A x \in I : rank[x] \in Nat /\ rank[x] < top,
         \A x \in I : x \notin stop => next[x] \in I /\ rank[next[x]] < rank[x]
  PROVE  \E f : Jumps(f, I, stop, base, plain, prefix, next)
<1> DEFINE RHS(f, x) == IF x \in stop THEN base[x]
                        ELSE IF x \in plain THEN f[next[x]]
                        ELSE prefix[x] \o f[next[x]]
           Upto(f, m) == \A x \in I : rank[x] < m => f[x] = RHS(f, x)
           S == {m \in Nat : \E f : Upto(f, m)}
<1>1. 0 \in S
  <2>1. \A x \in I : ~ (rank[x] < 0)
    OBVIOUS
  <2>2. \A f : Upto(f, 0)
    BY <2>1, Zenon
  <2>3. QED BY <2>2
<1>2. ASSUME NEW m \in Nat, m \in S
      PROVE  m + 1 \in S
  <2>1. PICK f : Upto(f, m)
    BY <1>2
  <2>2. PICK h : h = [x \in I |-> RHS(f, x)]
    OBVIOUS
  <2>3. ASSUME NEW x \in I, rank[x] < m PROVE h[x] = f[x]
    BY <2>1, <2>2, <2>3, Zenon
  <2>4. ASSUME NEW x \in I, rank[x] < m + 1 PROVE h[x] = RHS(h, x)
    <3>1. h[x] = RHS(f, x)
      BY <2>2, Zenon
    <3>2. CASE x \in stop
      BY <3>1, <3>2, Zenon
    <3>3. CASE x \notin stop
      <4>1. next[x] \in I /\ rank[next[x]] < m
        <5>1. next[x] \in I /\ rank[next[x]] < rank[x] /\ rank[x] \in Nat /\ rank[next[x]] \in Nat
          BY <3>3
        <5>2. QED BY <2>4, <5>1
      <4>2. h[next[x]] = f[next[x]]
        BY <2>3, <4>1
      <4>3. QED BY <3>1, <3>3, <4>2, Zenon
    <3>4. QED BY <3>2, <3>3
  <2>5. Upto(h, m + 1)
    BY <2>4, Zenon
  <2> HIDE DEF Upto
  <2>6. QED BY <2>5
<1> HIDE DEF S
<1>3. Nat \subseteq S
  BY <1>1, <1>2, SetInduction
<1>4. PICK f : Upto(f, top)
  BY <1>3 DEF S
<1>5. PICK h : h = [x \in I |-> f[x]]
  OBVIOUS
<1>6. \A x \in I : h[x] = f[x]
  BY <1>5
<1>7. ASSUME NEW x \in I PROVE f[x] = RHS(h, x)
  <2>1. f[x] = RHS(f, x)
    BY <1>4
  <2>2. CASE x \in stop
    BY <2>1, <2>2, Zenon
  <2>3. CASE x \notin stop
    <3>1. h[next[x]] = f[next[x]]
      BY <1>6, <2>3
    <3>2. QED BY <2>1, <2>3, <3>1, Zenon
  <2>4. QED BY <2>2, <2>3
<1>8. h = [x \in I |-> RHS(h, x)]
  BY <1>5, <1>7, Zenon
<1>9. QED BY <1>8, Zenon DEF Jumps

-----------------------------------------------------------------------------
(* Induction upwards and downwards between two numbers.                    *)

(* Upwards from a to b. *)
LEMMA Climb ==
  ASSUME NEW a \in Nat, NEW b \in Int, NEW G, a <= b => a \in G,
         \A k \in a..b : k \in G /\ k < b => k + 1 \in G
  PROVE  \A k \in a..b : k \in G
<1> DEFINE S == {m \in Nat : a + m <= b => a + m \in G}
<1>1. 0 \in S
  OBVIOUS
<1>2. ASSUME NEW m \in Nat, m \in S
      PROVE  m + 1 \in S
  <2>1. SUFFICES ASSUME a + (m + 1) <= b
                 PROVE  a + (m + 1) \in G
    OBVIOUS
  <2>2. a + m \in a..b /\ a + m < b /\ (a + m) + 1 = a + (m + 1)
    BY <2>1
  <2>3. a + m \in G
    BY <1>2, <2>2
  <2>4. (a + m) + 1 \in G
    BY <2>2, <2>3
  <2>5. QED BY <2>2, <2>4
<1> HIDE DEF S
<1>3. Nat \subseteq S
  BY <1>1, <1>2, SetInduction
<1>4. ASSUME NEW k \in a..b
      PROVE  k \in G
  <2>1. PICK m \in Nat : m = k - a /\ a + m = k /\ a + m <= b
    OBVIOUS
  <2>2. QED BY <1>3, <2>1 DEF S
<1>5. QED BY <1>4

(* Downwards: what is so from the end on, if it is so of each number when  *)
(* it is of the two after it.                                              *)
LEMMA Downwards ==
  ASSUME NEW n \in Nat, NEW G, n + 1 \in G, n + 2 \in G,
         \A j \in 1..n : j + 1 \in G /\ j + 2 \in G => j \in G
  PROVE  \A j \in 1..(n + 2) : j \in G
<1> DEFINE S == {k \in Nat : k <= n => n + 1 - k \in G /\ n + 2 - k \in G}
<1>1. 0 \in S
  OBVIOUS
<1>2. ASSUME NEW k \in Nat, k \in S
      PROVE  k + 1 \in S
  <2>1. SUFFICES ASSUME k + 1 <= n
                 PROVE  n + 1 - (k + 1) \in G /\ n + 2 - (k + 1) \in G
    OBVIOUS
  <2>2. n + 1 - k \in G /\ n + 2 - k \in G
    BY <1>2, <2>1
  <2>3. PICK j \in 1..n : j = n - k
    BY <2>1
  <2>4. /\ n + 1 - (k + 1) = j /\ n + 2 - (k + 1) = j + 1
        /\ n + 1 - k = j + 1 /\ n + 2 - k = j + 2
    BY <2>3
  <2>5. j \in G
    BY <2>2, <2>4
  <2>6. QED BY <2>2, <2>4, <2>5
<1> HIDE DEF S
<1>3. Nat \subseteq S
  BY <1>1, <1>2, SetInduction
<1>4. ASSUME NEW j \in 1..(n + 2)
      PROVE  j \in G
  <2>1. CASE j = n + 1 \/ j = n + 2
    BY <2>1
  <2>2. CASE j \in 1..n
    <3>1. PICK k \in Nat : k = n + 1 - j /\ k <= n
      BY <2>2
    <3>2. n + 1 - k = j
      BY <2>2, <3>1
    <3>3. QED BY <1>3, <3>1, <3>2 DEF S
  <2>3. QED BY <2>1, <2>2
<1>5. QED BY <1>4

(* Downwards again: what is so of a number when it is of all above it.     *)
LEMMA DownFrom ==
  ASSUME NEW m \in Nat, NEW G,
         \A j \in 1..m : (\A k \in (j + 1)..m : k \in G) => j \in G
  PROVE  \A j \in 1..m : j \in G
<1> DEFINE S == {k \in Nat : \A j \in 1..m : j > m - k => j \in G}
<1>1. 0 \in S
  OBVIOUS
<1>2. ASSUME NEW k \in Nat, k \in S
      PROVE  k + 1 \in S
  <2>1. SUFFICES ASSUME NEW j \in 1..m, j > m - (k + 1)
                 PROVE  j \in G
    OBVIOUS
  <2>2. \A i \in (j + 1)..m : i \in 1..m /\ i > m - k
    BY <2>1
  <2>3. \A i \in (j + 1)..m : i \in G
    BY <1>2, <2>2
  <2>4. QED BY <2>3
<1> HIDE DEF S
<1>3. m \in S
  BY <1>1, <1>2, SetInduction
<1>4. \A j \in 1..m : j > m - m
  OBVIOUS
<1>5. QED BY <1>3, <1>4 DEF S

(* What it means to be the first from a to n that is in P.                 *)
LEMMA FirstMeans ==
  ASSUME NEW a \in Nat, NEW n \in Nat, a <= n + 1, NEW P, NEW z,
         IsFirst(z, {j \in a..n : j \in P}, n)
  PROVE  z \in a..(n + 1) /\ (\A j \in a..(z - 1) : j \notin P) /\ (z # n + 1 => z \in P)
<1>1. PICK found : found = {j \in a..n : j \in P}
  OBVIOUS
<1>2. (z = n + 1 /\ found = {}) \/ (z \in found /\ \A j \in found : z <= j)
  BY <1>1 DEF IsFirst
<1>3. CASE z = n + 1 /\ found = {}
  BY <1>1, <1>3
<1>4. CASE z \in found /\ \A j \in found : z <= j
  <2>1. z \in a..n /\ z \in P
    BY <1>1, <1>4
  <2>2. ASSUME NEW j \in a..(z - 1)
        PROVE  j \notin P
    <3>1. j \in a..n /\ ~ (z <= j)
      BY <2>1, <2>2
    <3>2. QED BY <1>1, <1>4, <3>1
  <2>3. QED BY <2>1, <2>2
<1>5. QED BY <1>2, <1>3, <1>4

-----------------------------------------------------------------------------
(* Parts of sequences, and their elements.                                 *)

(* A sequence cut in two is put together again.                            *)
LEMMA CutAtThePoint ==
  ASSUME NEW padded \in Seq(Nat), NEW point \in 1..Len(padded)
  PROVE  /\ SubSeq(padded, 1, point) \o SubSeq(padded, point + 1, Len(padded)) = padded
         /\ Len(SubSeq(padded, 1, point)) = point
         /\ SubSeq(padded, 1, point)[1] = padded[1]
         /\ Len(SubSeq(padded, point + 1, Len(padded))) = Len(padded) - point
<1>1. Len(padded) \in Nat /\ \A i \in 1..Len(padded) : padded[i] \in Nat
  BY LenProperties, ElementOfSeq
<1>2. 1 \in 1..Len(padded) + 1 /\ point \in 0..Len(padded) /\ Len(padded) \in point..Len(padded)
  BY <1>1
<1>3. SubSeq(padded, 1, point) \o SubSeq(padded, point + 1, Len(padded)) = SubSeq(padded, 1, Len(padded))
  BY <1>2, ConcatAdjacentSubSeq
<1>4. SubSeq(padded, 1, Len(padded)) = padded
  BY SubSeqFull
<1>5. Len(SubSeq(padded, 1, point)) = point /\ SubSeq(padded, 1, point)[1] = padded[1]
  BY <1>1, SubSeqProperties
<1>6. Len(SubSeq(padded, point + 1, Len(padded))) = Len(padded) - point
  BY <1>1, SubSeqProperties
<1>7. QED BY <1>3, <1>4, <1>5, <1>6

(* A part of a sequence and the element behind it.                         *)
LEMMA AppendSub ==
  ASSUME NEW S, NEW text \in Seq(S), NEW k \in 1..Len(text), NEW start \in 1..k
  PROVE  Append(SubSeq(text, start, k - 1), text[k]) = SubSeq(text, start, k)
<1>1. PICK n \in Nat : n = Len(text)
  BY LenProperties, ElementOfSeq
<1>2. PICK u : u = SubSeq(text, start, k - 1)
  OBVIOUS
<1>3. u \in Seq(S) /\ Len(u) = k - start /\ \A m \in 1..(k - start) : u[m] = text[start + m - 1]
  <2>1. CASE start = k
    <3>1. u = <<>>
      BY <1>1, <1>2, <2>1
    <3>2. k - start = 0 /\ 1..0 = {}
      BY <2>1
    <3>3. QED BY <3>1, <3>2
  <2>2. CASE start # k
    <3>1. start <= k - 1 /\ k - 1 \in 1..n
      BY <1>1, <2>2
    <3>2. QED BY <1>1, <1>2, <3>1
  <2>3. QED BY <2>1, <2>2
<1>4. PICK v : v = SubSeq(text, start, k)
  OBVIOUS
<1>5. /\ v \in Seq(S) /\ Len(v) = k - start + 1
      /\ \A m \in 1..(k - start + 1) : v[m] = text[start + m - 1]
  BY <1>1, <1>4
<1>6. PICK c \in S : c = text[k]
  BY LenProperties, ElementOfSeq
<1>7. PICK w : w = Append(u, c)
  OBVIOUS
<1>8. w \in Seq(S) /\ Len(w) = k - start + 1
  <2>1. k \in Nat /\ start \in Nat /\ Len(w) = Len(u) + 1 /\ w \in Seq(S)
    BY <1>1, <1>3, <1>6, <1>7, AppendProperties
  <2>2. QED BY <1>3, <2>1
<1>9. ASSUME NEW m \in 1..(k - start + 1)
      PROVE  w[m] = v[m]
  <2>1. CASE m = k - start + 1
    <3>1. start + m - 1 = k
      BY <2>1
    <3>2. w[m] = c
      <4>1. Append(u, c)[Len(u) + 1] = c
        BY <1>3
      <4>2. QED BY <1>3, <1>7, <2>1, <4>1
    <3>3. QED BY <1>5, <1>6, <3>1, <3>2
  <2>2. CASE m # k - start + 1
    <3>1. m \in 1..(k - start)
      BY <2>2
    <3>2. w[m] = u[m]
      BY <1>3, <1>7, <3>1
    <3>3. QED BY <1>3, <1>5, <3>1, <3>2
  <2>3. QED BY <2>1, <2>2
<1>10. w = v
  BY <1>5, <1>8, <1>9, SeqEqual
<1>11. QED BY <1>2, <1>4, <1>6, <1>7, <1>10

(* The elements of a part.                                                 *)
LEMMA SubForm ==
  ASSUME NEW S, NEW text \in Seq(S), NEW a \in Nat, NEW b \in Nat, a > 0, a <= b, b <= Len(text)
  PROVE  /\ SubSeq(text, a, b) \in Seq(S) /\ Len(SubSeq(text, a, b)) = b - a + 1
         /\ \A m \in 1..(b - a + 1) : SubSeq(text, a, b)[m] = text[a + m - 1]
<1>1. PICK n \in Nat : n = Len(text)
  BY LenProperties, ElementOfSeq
<1>2. a \in 1..n /\ b \in 1..n
  BY <1>1
<1>3. QED BY <1>1, <1>2

(* A sequence ends another if it is its last elements.                     *)
LEMMA SuffixIs ==
  ASSUME NEW S, NEW t \in Seq(S), NEW u \in Seq(S)
  PROVE  IsSuffix(t, u) <=> /\ Len(t) <= Len(u)
                            /\ \A m \in 1..Len(t) : t[m] = u[Len(u) - Len(t) + m]
<1>1. PICK lt \in Nat, lu \in Nat : lt = Len(t) /\ lu = Len(u)
  BY LenProperties, ElementOfSeq
<1>2. PICK rt, ru : rt = Reverse(t) /\ ru = Reverse(u)
  OBVIOUS
<1>3. \A m \in 1..lt : t[m] \in S
  BY <1>1, LenProperties, ElementOfSeq
<1>3a. \A m \in 1..lu : u[m] \in S
  BY <1>1, LenProperties, ElementOfSeq
<1>4. rt \in Seq(S) /\ Len(rt) = lt /\ \A m \in 1..lt : rt[m] = t[lt - m + 1]
  <2>1. rt = [m \in 1..lt |-> t[(lt - m) + 1]]
    BY <1>1, <1>2 DEF Reverse
  <2>2. \A m \in 1..lt : (lt - m) + 1 \in 1..lt
    OBVIOUS
  <2>3. QED BY <1>3, <2>1, <2>2
<1>5. ru \in Seq(S) /\ Len(ru) = lu /\ \A m \in 1..lu : ru[m] = u[lu - m + 1]
  <2>1. ru = [m \in 1..lu |-> u[(lu - m) + 1]]
    BY <1>1, <1>2 DEF Reverse
  <2>2. \A m \in 1..lu : (lu - m) + 1 \in 1..lu
    OBVIOUS
  <2>3. QED BY <1>3a, <2>1, <2>2
<1>6. IsSuffix(t, u) <=> lt <= lu /\ SubSeq(rt, 1, lt) = SubSeq(ru, 1, lt)
  BY <1>2, <1>4, <1>5 DEF IsSuffix, IsPrefix
<1>7. SUFFICES ASSUME lt <= lu
               PROVE  SubSeq(rt, 1, lt) = SubSeq(ru, 1, lt) <=>
                        \A m \in 1..lt : t[m] = u[lu - lt + m]
  BY <1>1, <1>6
<1>8. PICK x, y : x = SubSeq(rt, 1, lt) /\ y = SubSeq(ru, 1, lt)
  OBVIOUS
<1>9. x \in Seq(S) /\ Len(x) = lt /\ \A m \in 1..lt : x[m] = rt[m]
  <2>1. CASE lt = 0
    <3>1. x = <<>>
      BY <1>8, <2>1
    <3>2. 1..lt = {}
      BY <2>1
    <3>3. QED BY <2>1, <3>1, <3>2
  <2>2. CASE lt # 0
    BY <1>4, <1>8, <2>2
  <2>3. QED BY <2>1, <2>2
<1>10. y \in Seq(S) /\ Len(y) = lt /\ \A m \in 1..lt : y[m] = ru[m]
  <2>1. CASE lt = 0
    <3>1. y = <<>>
      BY <1>8, <2>1
    <3>2. 1..lt = {}
      BY <2>1
    <3>3. QED BY <2>1, <3>1, <3>2
  <2>2. CASE lt # 0
    BY <1>5, <1>7, <1>8, <2>2
  <2>3. QED BY <2>1, <2>2
<1>11. x = y <=> \A m \in 1..lt : x[m] = y[m]
  BY <1>9, <1>10, SeqEqual
<1>12. \A m \in 1..lt : x[m] = t[lt - m + 1] /\ y[m] = u[lu - m + 1]
  <2>1. \A m \in 1..lt : m \in 1..lu
    BY <1>7
  <2>2. QED BY <1>4, <1>5, <1>9, <1>10, <2>1
<1>13. (\A m \in 1..lt : x[m] = y[m]) <=> \A m \in 1..lt : t[m] = u[lu - lt + m]
  <2>1. ASSUME \A m \in 1..lt : x[m] = y[m], NEW m \in 1..lt
        PROVE  t[m] = u[lu - lt + m]
    <3>1. PICK k \in 1..lt : k = lt - m + 1 /\ lt - k + 1 = m /\ lu - k + 1 = lu - lt + m
      OBVIOUS
    <3>2. QED BY <1>12, <2>1, <3>1
  <2>2. ASSUME \A m \in 1..lt : t[m] = u[lu - lt + m], NEW m \in 1..lt
        PROVE  x[m] = y[m]
    <3>1. PICK k \in 1..lt : k = lt - m + 1 /\ lu - m + 1 = lu - lt + k
      OBVIOUS
    <3>2. QED BY <1>12, <2>2, <3>1
  <2>3. QED BY <2>1, <2>2
<1>14. QED BY <1>8, <1>11, <1>13

(* The elements of two sequences put together.                             *)
LEMMA RangeOfConcat ==
  ASSUME NEW S, NEW a \in Seq(S), NEW b \in Seq(S)
  PROVE  Range(a \o b) = Range(a) \cup Range(b)
<1>1. PICK m \in Nat, n \in Nat : m = Len(a) /\ n = Len(b)
  OBVIOUS
<1>2. PICK c \in Seq(S) : c = a \o b /\ Len(c) = m + n
  <2>1. a \o b \in Seq(S) /\ Len(a \o b) = m + n
    BY <1>1
  <2>2. QED BY <2>1
<1>3. /\ \A i \in 1..m : c[i] = a[i]
      /\ \A i \in 1..n : c[m + i] = b[i]
  BY <1>1, <1>2
<1>4. DOMAIN a = 1..m /\ DOMAIN b = 1..n /\ DOMAIN c = 1..(m + n)
  BY <1>1, <1>2
<1>5. ASSUME NEW x \in Range(a)
      PROVE  x \in Range(c)
  <2>1. PICK i \in 1..m : x = a[i]
    BY <1>4, <1>5 DEF Range
  <2>2. i \in 1..(m + n) /\ c[i] = x
    BY <1>3, <2>1
  <2>3. QED BY <1>4, <2>2 DEF Range
<1>6. ASSUME NEW x \in Range(b)
      PROVE  x \in Range(c)
  <2>1. PICK i \in 1..n : x = b[i]
    BY <1>4, <1>6 DEF Range
  <2>2. m + i \in 1..(m + n) /\ c[m + i] = x
    BY <1>3, <2>1
  <2>3. QED BY <1>4, <2>2 DEF Range
<1>7. ASSUME NEW x \in Range(c)
      PROVE  x \in Range(a) \cup Range(b)
  <2>1. PICK i \in 1..(m + n) : x = c[i]
    BY <1>4, <1>7 DEF Range
  <2>2. CASE i <= m
    <3>1. i \in 1..m
      BY <2>2
    <3>2. x = a[i]
      BY <1>3, <2>1, <3>1
    <3>3. QED BY <1>4, <3>1, <3>2 DEF Range
  <2>3. CASE ~ (i <= m)
    <3>1. PICK j \in 1..n : i = m + j
      <4>1. i - m \in 1..n /\ i = m + (i - m)
        BY <2>3
      <4>2. QED BY <4>1
    <3>2. x = b[j]
      BY <1>3, <2>1, <3>1
    <3>3. QED BY <1>4, <3>2 DEF Range
  <2>4. QED BY <2>2, <2>3
<1>8. QED BY <1>2, <1>5, <1>6, <1>7

(* SetToSeq puts a finite set into a sequence.                             *)
LEMMA SetToSeqForm ==
  ASSUME NEW S, IsFiniteSet(S)
  PROVE  /\ Cardinality(S) \in Nat
         /\ SetToSeq(S) \in Seq(S) /\ Len(SetToSeq(S)) = Cardinality(S)
<1>1. Cardinality(S) \in Nat /\ ExistsBijection(1..Cardinality(S), S)
  BY FS_CardinalityType
<1>2. \E f \in [1..Cardinality(S) -> S] : IsInjective(f)
  BY <1>1 DEF ExistsBijection, Bijection, Injection
<1>3. SetToSeq(S) \in [1..Cardinality(S) -> S]
  BY <1>2, Zenon DEF SetToSeq
<1>4. QED BY <1>1, <1>3

-----------------------------------------------------------------------------
(* Digits.                                                                 *)

(* The halves of even and odd numbers.                                     *)
LEMMA TwoHalves ==
  ASSUME NEW i \in Nat, NEW k \in Int, k + 1 = 2 * i
  PROVE  k % 2 = 1 /\ (k + 1) \div 2 = i /\ (2 * i) % 2 = 0 /\ (2 * i + 1) \div 2 = i
<1>1. (2 * i) \div 2 = i /\ (2 * i) % 2 = 0 /\ (2 * i + 1) \div 2 = i
  OBVIOUS
<1>2. k % 2 = 1
  OBVIOUS
<1>3. QED BY <1>1, <1>2

(* A number without its last digit, and that digit.                        *)
LEMMA ByTen ==
  ASSUME NEW k \in Nat, k >= 10
  PROVE  k \div 10 \in Nat \ {0} /\ k \div 10 < k /\ k % 10 \in Nat /\ 10 * (k \div 10) + (k % 10) = k
OBVIOUS

(* A recursive function that writes numbers in digits, up to n.            *)
Counts(g, n) ==
  g = [k \in 0..n |-> IF k < 10 THEN <<k>> ELSE Append(g[k \div 10], k % 10)]

(* There is one.                                                           *)
LEMMA CountExists ==
  ASSUME NEW n \in Nat
  PROVE  \E g : Counts(g, n)
<1> DEFINE S == {k \in Nat : \E g : Counts(g, k)}
<1>1. 0 \in S
  <2>1. PICK g : g = [k \in 0..0 |-> <<k>>]
    OBVIOUS
  <2>2. g = [k \in 0..0 |-> IF k < 10 THEN <<k>> ELSE Append(g[k \div 10], k % 10)]
    BY <2>1
  <2>3. QED BY <2>2 DEF Counts
<1>2. ASSUME NEW m \in Nat, m \in S PROVE m + 1 \in S
  <2>1. PICK f : f = [k \in 0..m |-> IF k < 10 THEN <<k>> ELSE Append(f[k \div 10], k % 10)]
    BY <1>2, Zenon DEF Counts
  <2>2. PICK g : g = [k \in 0..(m + 1) |->
                        IF k < 10 THEN <<k>> ELSE Append(f[k \div 10], k % 10)]
    OBVIOUS
  <2>3. ASSUME NEW k \in 0..m PROVE g[k] = f[k]
    <3>1. f[k] = IF k < 10 THEN <<k>> ELSE Append(f[k \div 10], k % 10)
      BY <2>1, Zenon
    <3>2. k \in 0..(m + 1)
      OBVIOUS
    <3>3. g[k] = IF k < 10 THEN <<k>> ELSE Append(f[k \div 10], k % 10)
      BY <2>2, <3>2, Zenon
    <3>4. QED BY <3>1, <3>3
  <2>4. ASSUME NEW k \in 0..(m + 1), ~ k < 10 PROVE g[k \div 10] = f[k \div 10]
    <3>1. k \div 10 \in 0..m
      BY <2>4, ByTen
    <3>2. QED BY <2>3, <3>1
  <2>5. ASSUME NEW k \in 0..(m + 1)
        PROVE  g[k] = IF k < 10 THEN <<k>> ELSE Append(g[k \div 10], k % 10)
    <3>1. g[k] = IF k < 10 THEN <<k>> ELSE Append(f[k \div 10], k % 10)
      BY <2>2, Zenon
    <3>2. QED BY <2>4, <3>1, Zenon
  <2>6. g = [k \in 0..(m + 1) |-> IF k < 10 THEN <<k>> ELSE Append(g[k \div 10], k % 10)]
    BY <2>2, <2>5, Zenon
  <2>7. Counts(g, m + 1)
    BY <2>6, Zenon DEF Counts
  <2>8. m + 1 \in Nat
    OBVIOUS
  <2>9. QED BY <2>7, <2>8
<1> HIDE DEF S
<1>3. Nat \subseteq S
  BY <1>1, <1>2, SetInduction
<1>4. QED BY <1>3 DEF S

(* A digit more at the end of a number.                                    *)
Ten == [x \in Nat \X Nat |-> 10 * x[1] + x[2]]

LEMMA TenForm == Ten \in [Nat \X Nat -> Nat] /\ \A n, d \in Nat : Ten[<<n, d>>] = 10 * n + d
<1>1. \A x \in Nat \X Nat : 10 * x[1] + x[2] \in Nat
  OBVIOUS
<1>2. \A n, d \in Nat : <<n, d>> \in Nat \X Nat
  OBVIOUS
<1>3. QED BY <1>1, <1>2 DEF Ten

-----------------------------------------------------------------------------
(* The keys of records, each only once.                                    *)

(* A key more, unless it is there.                                         *)
KeysIn(X) == {p.key : p \in X}
KeyAdded(X) ==
  [x \in Seq(KeysIn(X)) \X X |->
    IF Contains(x[1], x[2].key) THEN x[1] ELSE Append(x[1], x[2].key)]

LEMMA KeyAddedForm ==
  ASSUME NEW X
  PROVE  /\ KeyAdded(X) \in [Seq(KeysIn(X)) \X X -> Seq(KeysIn(X))]
         /\ \A keys \in Seq(KeysIn(X)) : \A p \in X :
              KeyAdded(X)[<<keys, p>>] =
                IF Contains(keys, p.key) THEN keys ELSE Append(keys, p.key)
<1>1. \A p \in X : p.key \in KeysIn(X)
  BY DEF KeysIn
<1>2. \A keys \in Seq(KeysIn(X)) : \A p \in X : Append(keys, p.key) \in Seq(KeysIn(X))
  BY <1>1, AppendProperties
<1>3. \A x \in Seq(KeysIn(X)) \X X :
        (IF Contains(x[1], x[2].key) THEN x[1] ELSE Append(x[1], x[2].key)) \in Seq(KeysIn(X))
  BY <1>2
<1>4. \A keys \in Seq(KeysIn(X)) : \A p \in X : <<keys, p>> \in Seq(KeysIn(X)) \X X
  OBVIOUS
<1>5. KeyAdded(X) \in [Seq(KeysIn(X)) \X X -> Seq(KeysIn(X))]
  BY <1>3, Zenon DEF KeyAdded
<1>6. ASSUME NEW keys \in Seq(KeysIn(X)), NEW p \in X
      PROVE  KeyAdded(X)[<<keys, p>>] = IF Contains(keys, p.key) THEN keys ELSE Append(keys, p.key)
  <2>1. PICK x \in Seq(KeysIn(X)) \X X : x = <<keys, p>> /\ x[1] = keys /\ x[2] = p
    BY <1>4
  <2>2. KeyAdded(X)[x] = IF Contains(x[1], x[2].key) THEN x[1] ELSE Append(x[1], x[2].key)
    BY Zenon DEF KeyAdded
  <2>3. QED BY <2>1, <2>2, Zenon
<1>7. QED BY <1>5, <1>6

(* The keys of the first k records, each once.                             *)
KeysOnce(keys, X, found, k) ==
  /\ keys \in Seq(KeysIn(X))
  /\ \A i, j \in 1..Len(keys) : keys[i] = keys[j] => i = j
  /\ \A i \in 1..k : \E j \in 1..Len(keys) : keys[j] = found[i].key

LEMMA KeysOnceMore ==
  ASSUME NEW X, NEW found, NEW k \in Nat, NEW keys, KeysOnce(keys, X, found, k), found[k + 1] \in X
  PROVE  KeysOnce(IF Contains(keys, found[k + 1].key) THEN keys ELSE Append(keys, found[k + 1].key),
              X, found, k + 1)
<1> DEFINE key == found[k + 1].key
<1>1. /\ keys \in Seq(KeysIn(X)) /\ Len(keys) \in Nat /\ DOMAIN keys = 1..Len(keys)
      /\ key \in KeysIn(X)
  BY LenProperties DEF KeysOnce, KeysIn
<1>2. \A i \in 1..(k + 1) : i \in 1..k \/ i = k + 1
  OBVIOUS
<1>3. Contains(keys, key) <=> \E j \in 1..Len(keys) : keys[j] = key
  BY <1>1, Zenon DEF Contains
<1>4. CASE Contains(keys, key)
  <2>1. \A i \in 1..(k + 1) : \E j \in 1..Len(keys) : keys[j] = found[i].key
    BY <1>2, <1>3, <1>4, Zenon DEF KeysOnce
  <2>2. KeysOnce(keys, X, found, k + 1)
    BY <2>1, Zenon DEF KeysOnce
  <2>3. QED BY <1>4, <2>2
<1>5. CASE ~ Contains(keys, key)
  <2> DEFINE more == Append(keys, key)
  <2>1. /\ more \in Seq(KeysIn(X)) /\ Len(more) = Len(keys) + 1 /\ more[Len(keys) + 1] = key
        /\ \A i \in 1..Len(keys) : more[i] = keys[i]
    <3> HIDE DEF key
    <3>1. QED BY <1>1, AppendProperties
  <2> HIDE DEF more
  <2>2. ASSUME NEW i \in 1..Len(more), NEW j \in 1..Len(more), more[i] = more[j] PROVE i = j
    <3>1. \A l \in 1..Len(more) : l \in 1..Len(keys) \/ l = Len(keys) + 1
      BY <1>1, <2>1
    <3>2. \A l \in 1..Len(keys) : keys[l] # key
      BY <1>3, <1>5
    <3> HIDE DEF key
    <3>3. CASE i \in 1..Len(keys) /\ j \in 1..Len(keys)
      BY <2>1, <2>2, <3>3 DEF KeysOnce
    <3>4. CASE ~ (i \in 1..Len(keys) /\ j \in 1..Len(keys))
      BY <2>1, <2>2, <3>1, <3>2, <3>4
    <3>5. QED BY <3>3, <3>4
  <2>3. ASSUME NEW i \in 1..(k + 1) PROVE \E j \in 1..Len(more) : more[j] = found[i].key
    <3>1. CASE i \in 1..k
      <4>1. PICK j \in 1..Len(keys) : keys[j] = found[i].key
        BY <3>1 DEF KeysOnce
      <4>2. j \in 1..Len(more) /\ more[j] = keys[j]
        BY <1>1, <2>1
      <4>3. QED BY <4>1, <4>2
    <3>2. CASE i = k + 1
      <4>1. Len(keys) + 1 \in 1..Len(more)
        BY <1>1, <2>1
      <4>2. QED BY <2>1, <3>2, <4>1
    <3>3. QED BY <1>2, <3>1, <3>2
  <2>4. KeysOnce(more, X, found, k + 1)
    BY <2>1, <2>2, <2>3, Zenon DEF KeysOnce
  <2>5. QED BY <1>5, <2>4 DEF more
<1>6. QED BY <1>4, <1>5
=============================================================================
