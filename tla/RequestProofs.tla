--------------------------- MODULE RequestProofs ---------------------------
(***************************************************************************)
(* Theorems about the functions without state (RequestChecks and what it   *)
(* applies).                                                               *)
(***************************************************************************)
EXTENDS RequestChecks, SequenceLemmas, TLAPS

-----------------------------------------------------------------------------
(* RequestChecks.  An output is what the call makes of its input.          *)

Answered ==
  /\ \/ call = "text" /\ input \in Texts
     \/ call = "query" /\ input \in Queries
     \/ call = "cell" /\ \E i \in DOMAIN Cells : input \in Cells[i]
     \/ call = "profile" /\ input \in EngineProfiles
     \/ call = "plan" /\ \E i \in DOMAIN Plans : input \in Plans[i]
  /\ output # None =>
       /\ call = "text" =>
            output = [statements |-> SplitSqlStatements(input), mayWrite |-> SqlMayWrite(input),
                      mayChange |-> SqlMayChangeMetadata(input)]
       /\ call = "query" =>
            output = [prompts |-> PromptSet(input.pieces),
                      prepared |-> PrepareQuery(input.wire, input.pieces, input.supplied)]
       /\ call = "cell" => output = ColumnDataToJson(input)
       /\ call = "profile" => output = NormalizeProfile(input)
       /\ call = "plan" => output = Analysis(input.reader, input.plan, input.words)

LEMMA InitAnswered == Init => Answered
BY DEF Init, Answered

LEMMA NextAnswered == Answered /\ [Next]_vars => Answered'
<1>1. ASSUME Answered, Next
      PROVE  Answered'
  <2> USE DEF Answered, Called
  <2>1. CASE SplitText
    BY <1>1, <2>1, Zenon DEF SplitText
  <2>2. CASE Prepare
    BY <1>1, <2>2, Zenon DEF Prepare
  <2>3. CASE ShowCell
    BY <1>1, <2>3, Zenon DEF ShowCell
  <2>4. CASE Connect
    BY <1>1, <2>4, Zenon DEF Connect
  <2>5. CASE Explain
    BY <1>1, <2>5, Zenon DEF Explain
  <2>6. QED BY <1>1, <2>1, <2>2, <2>3, <2>4, <2>5 DEF Next
<1>2. ASSUME Answered, UNCHANGED vars
      PROVE  Answered'
  BY <1>2, Zenon DEF Answered, vars
<1>3. QED BY <1>1, <1>2

-----------------------------------------------------------------------------
(* Engines.                                                                *)

(* A wire that is refused by name or served by an arm is every wire.       *)
LEMMA EveryWireHasAnArm ==
  /\ \A w \in Wires \ Unimplemented :
       /\ w \in NeedHost \cup {"Sqlite", "DuckDb"}
       /\ w \in AlwaysBuiltIn \cup ByFeature
  /\ \A w \in Wires : w # "no driver"
BY DEF Wires, Unimplemented, NeedHost, AlwaysBuiltIn, ByFeature

LEMMA NormalizedKeepsWire ==
  ASSUME NEW p \in EngineProfileForm
  PROVE  Normalized(p).wire = p.wire
BY DEF EngineProfileForm, Normalized

LEMMA AcceptedConnects ==
  ASSUME NEW p \in EngineProfileForm
  PROVE  LET o == NormalizeProfile(p) IN
         /\ o.result # "unreachable"
         /\ o.result = "accepted" => ConnectEngine(o.profile).engine # "no driver"
<1> DEFINE n == Normalized(p)
<1>1. n.wire = p.wire /\ p.wire \in Wires
  BY NormalizedKeepsWire DEF EngineProfileForm
<1>2. CASE n.wire \in Unimplemented
  <2>1. NormalizeProfile(p) = Rejected("refused")
    BY <1>2 DEF NormalizeProfile
  <2>2. QED BY <2>1 DEF Rejected
<1>3. CASE n.wire \notin Unimplemented
  <2>1. /\ n.wire \in NeedHost \cup {"Sqlite", "DuckDb"}
        /\ n.wire \in AlwaysBuiltIn \cup ByFeature
        /\ n.wire # "no driver"
    BY <1>1, <1>3, EveryWireHasAnArm
  <2>2. NormalizeProfile(p) \in {Rejected("refused"), Accepted(n)}
    BY <2>1 DEF NormalizeProfile
  <2>3. ConnectEngine(n).engine \in {n.wire, "not built in"}
    BY <2>1 DEF ConnectEngine
  <2>4. CASE NormalizeProfile(p) = Rejected("refused")
    BY <2>4 DEF Rejected
  <2>5. CASE NormalizeProfile(p) = Accepted(n)
    <3> HIDE DEF n
    <3>1. NormalizeProfile(p).result = "accepted" /\ NormalizeProfile(p).profile = n
      BY <2>5 DEF Accepted
    <3>2. ConnectEngine(n).engine # "no driver"
      BY <2>1, <2>3
    <3>3. QED BY <3>1, <3>2
  <2>6. QED BY <2>2, <2>4, <2>5
<1>4. QED BY <1>2, <1>3

(* normalize_profile lets no wire through that it has no arm for, nor one  *)
(* that connect_engine has none for.                                       *)
THEOREM EnginesAgree == Spec => []AcceptedEnginesConnect
<1>1. Answered => AcceptedEnginesConnect
  <2> SUFFICES ASSUME Answered, Returned("profile")
               PROVE  /\ output.result # "unreachable"
                      /\ output.result = "accepted" => ConnectEngine(output.profile).engine # "no driver"
    BY Zenon DEF AcceptedEnginesConnect
  <2>1. input \in EngineProfileForm /\ output = NormalizeProfile(input)
    BY EngineAssumption DEF Answered, Returned
  <2>2. QED BY ONLY <2>1, AcceptedConnects
<1>2. QED
  BY <1>1, InitAnswered, NextAnswered, PTL DEF Spec
-----------------------------------------------------------------------------
(* Decimals.                                                               *)

LEMMA ValueFolds ==
  ASSUME NEW digits \in Seq(Nat)
  PROVE  Folded(ValueOfDigits(digits), 0, Ten, digits)
<1>1. Len(digits) \in Nat /\ DOMAIN digits = 1..Len(digits)
  BY LenProperties
<1>2. Ten \in [Nat \X Nat -> Nat] /\ \A x, d \in Nat : Ten[<<x, d>>] = 10 * x + d
  BY TenForm
<1>3. PICK g \in [SUBSET (1..Len(digits)) -> Nat] : FoldsBy(g, Nat, Nat, 0, Ten, digits)
  BY <1>1, <1>2, FoldHasSteps
<1>4. \A s \in SUBSET (1..Len(digits)) : g[s] = IF s = {} THEN 0 ELSE 10 * g[s \ {Max(s)}] + digits[Max(s)]
  BY <1>2, <1>3, Zenon DEF FoldsBy
<1>5. g = [s \in SUBSET (1..Len(digits)) |-> IF s = {} THEN 0 ELSE 10 * g[s \ {Max(s)}] + digits[Max(s)]]
  BY <1>4, Zenon
<1>6. PICK h : /\ h = [s \in SUBSET (1..Len(digits)) |-> IF s = {} THEN 0 ELSE 10 * h[s \ {Max(s)}] + digits[Max(s)]]
               /\ ValueOfDigits(digits) = h[1..Len(digits)]
  BY <1>1, <1>5, Zenon DEF ValueOfDigits, FoldLeft, MapThenFoldSet
<1>7. \A s \in SUBSET (1..Len(digits)) : h[s] = IF s = {} THEN 0 ELSE 10 * h[s \ {Max(s)}] + digits[Max(s)]
  BY <1>6, Zenon
<1>8. ASSUME NEW s \in SUBSET (1..Len(digits))
      PROVE  /\ s = {} => h[s] = 0
             /\ s # {} /\ h[s \ {Max(s)}] \in Nat => h[s] = Ten[<<h[s \ {Max(s)}], digits[Max(s)]>>]
  BY <1>2, <1>3, <1>7, Zenon DEF FoldsBy
<1>9. FoldsTo(ValueOfDigits(digits), Nat, 0, Ten, digits)
  BY <1>6, <1>8, Zenon DEF FoldsTo
<1>10. QED BY <1>1, <1>2, <1>9, FoldedSteps

(* A digit more at the end makes ten times as much and that digit.         *)
LEMMA ValueOfOneMore ==
  ASSUME NEW d \in Seq(Nat), NEW x \in Nat
  PROVE  /\ ValueOfDigits(d) \in Nat
         /\ ValueOfDigits(Append(d, x)) = 10 * ValueOfDigits(d) + x
<1> DEFINE e == Append(d, x)
<1>1. /\ e \in Seq(Nat) /\ Len(e) = Len(d) + 1 /\ Len(d) \in Nat
      /\ e[Len(d) + 1] = x /\ \A k \in 1..Len(d) : e[k] = d[k]
  BY AppendProperties, LenProperties
<1> HIDE DEF e
<1>2. PICK r : Folding(r, 0, Ten, d) /\ r[Len(d)] = ValueOfDigits(d)
  BY ValueFolds, Zenon DEF Folded
<1>3. PICK q : Folding(q, 0, Ten, e) /\ q[Len(e)] = ValueOfDigits(e)
  BY <1>1, ValueFolds, Zenon DEF Folded
<1>4. \A k \in 0..Len(d) : q[k] = r[k]
  BY <1>1, <1>2, <1>3, FoldingsAgree
<1>5. \A k \in 0..Len(d) : r[k] \in Nat
  BY <1>2, TenForm, FoldingTyped
<1>6. q[Len(d)] = ValueOfDigits(d) /\ ValueOfDigits(d) \in Nat
  BY <1>1, <1>2, <1>4, <1>5
<1>7. q[Len(e)] = Ten[<<q[Len(d)], x>>]
  <2>1. Len(e) \in 1..Len(e) /\ Len(e) - 1 = Len(d)
    BY <1>1
  <2>2. QED BY <1>1, <1>3, <2>1 DEF Folding
<1>8. ValueOfDigits(e) = 10 * ValueOfDigits(d) + x
  BY <1>3, <1>6, <1>7, TenForm
<1>9. QED BY <1>6, <1>8 DEF e

(* Zeros in front change nothing.                                          *)
LEMMA ValueAfterZeros ==
  ASSUME NEW d \in Seq(Nat), NEW z \in Nat
  PROVE  /\ Zeros(z) \o d \in Seq(Nat)
         /\ ValueOfDigits(Zeros(z) \o d) = ValueOfDigits(d)
<1> DEFINE e == Zeros(z) \o d
<1>1. Zeros(z) \in Seq(Nat) /\ Len(Zeros(z)) = z /\ \A i \in 1..z : Zeros(z)[i] = 0
  BY DEF Zeros
<1>2. /\ e \in Seq(Nat) /\ Len(e) = z + Len(d) /\ Len(d) \in Nat
      /\ \A k \in 1..z : e[k] = 0
      /\ \A k \in 1..Len(d) : e[z + k] = d[k]
  <2>1. Len(d) \in Nat
    BY LenProperties
  <2>2. e \in Seq(Nat) /\ Len(e) = Len(Zeros(z)) + Len(d)
    BY <1>1, ConcatProperties
  <2>3. \A k \in 1..Len(e) :
          e[k] = IF k <= Len(Zeros(z)) THEN Zeros(z)[k] ELSE d[k - Len(Zeros(z))]
    BY <1>1, ConcatProperties, <2>2
  <2> HIDE DEF e
  <2>4. ASSUME NEW k \in 1..z PROVE e[k] = 0
    <3>1. k \in 1..Len(e) /\ k <= Len(Zeros(z))
      BY <1>1, <2>1, <2>2
    <3>2. QED BY <1>1, <2>3, <3>1
  <2>5. ASSUME NEW k \in 1..Len(d) PROVE e[z + k] = d[k]
    <3>1. z + k \in 1..Len(e) /\ ~ (z + k <= Len(Zeros(z))) /\ (z + k) - Len(Zeros(z)) = k
      BY <1>1, <2>1, <2>2
    <3>2. QED BY <2>3, <3>1
  <2>6. QED BY <1>1, <2>1, <2>2, <2>4, <2>5
<1> HIDE DEF e
<1>3. PICK r : Folding(r, 0, Ten, d) /\ r[Len(d)] = ValueOfDigits(d)
  BY ValueFolds, Zenon DEF Folded
<1>4. PICK q : Folding(q, 0, Ten, e) /\ q[Len(e)] = ValueOfDigits(e)
  BY <1>2, ValueFolds, Zenon DEF Folded
<1>5. \A k \in 0..z : q[k] = 0
  <2> DEFINE S == {k \in Nat : k <= z => q[k] = 0}
  <2>1. 0 \in S
    BY <1>4 DEF Folding
  <2>2. ASSUME NEW k \in Nat, k \in S PROVE k + 1 \in S
    <3>1. SUFFICES ASSUME k + 1 <= z PROVE q[k + 1] = 0
      OBVIOUS
    <3>2. k + 1 \in 1..Len(e) /\ k + 1 \in 1..z /\ (k + 1) - 1 = k /\ q[k] = 0
      BY <1>2, <2>2, <3>1
    <3>3. q[k + 1] = Ten[<<q[k], e[k + 1]>>] /\ e[k + 1] = 0
      BY <1>2, <1>4, <3>2 DEF Folding
    <3>4. Ten[<<0, 0>>] = 0
      BY TenForm
    <3>5. QED BY <3>2, <3>3, <3>4
  <2> HIDE DEF S
  <2>3. Nat \subseteq S
    BY <2>1, <2>2, SetInduction
  <2>4. QED BY <2>3 DEF S
<1>6. \A k \in 0..Len(d) : q[z + k] = r[k]
  <2> DEFINE S == {k \in Nat : k <= Len(d) => q[z + k] = r[k]}
  <2>1. 0 \in S
    BY <1>3, <1>5 DEF Folding
  <2>2. ASSUME NEW k \in Nat, k \in S PROVE k + 1 \in S
    <3>1. SUFFICES ASSUME k + 1 <= Len(d) PROVE q[z + (k + 1)] = r[k + 1]
      OBVIOUS
    <3>2. /\ k + 1 \in 1..Len(d) /\ (k + 1) - 1 = k /\ q[z + k] = r[k]
          /\ z + (k + 1) \in 1..Len(e) /\ (z + (k + 1)) - 1 = z + k
      BY <1>2, <2>2, <3>1
    <3>3. q[z + (k + 1)] = Ten[<<q[z + k], e[z + (k + 1)]>>] /\ r[k + 1] = Ten[<<r[k], d[k + 1]>>]
      BY <1>3, <1>4, <3>2 DEF Folding
    <3>4. e[z + (k + 1)] = d[k + 1]
      BY <1>2, <3>2
    <3>5. QED BY <3>2, <3>3, <3>4
  <2> HIDE DEF S
  <2>3. Nat \subseteq S
    BY <2>1, <2>2, SetInduction
  <2>4. QED BY <2>3 DEF S
<1>7. ValueOfDigits(e) = ValueOfDigits(d)
  BY <1>2, <1>3, <1>4, <1>6
<1>8. QED BY <1>2, <1>7 DEF e

(* One digit.                                                              *)
LEMMA ValueOfOne ==
  ASSUME NEW n \in Nat
  PROVE  <<n>> \in Seq(Nat) /\ Len(<<n>>) = 1 /\ <<n>>[1] = n /\ ValueOfDigits(<<n>>) = n
<1>1. <<>> \in Seq(Nat) /\ Len(<<>>) = 0 /\ Append(<<>>, n) = <<n>>
  OBVIOUS
<1>2. PICK r : Folding(r, 0, Ten, <<>>) /\ r[Len(<<>>)] = ValueOfDigits(<<>>)
  BY <1>1, ValueFolds, Zenon DEF Folded
<1>3. ValueOfDigits(<<>>) = 0
  BY <1>1, <1>2 DEF Folding
<1>4. ValueOfDigits(<<n>>) = 10 * 0 + n
  BY <1>1, <1>3, ValueOfOneMore
<1>5. QED BY <1>4

(* The digits of n, without a zero in front unless there is no other.      *)
DigitsOf(d, n) ==
  /\ d \in Seq(Nat)
  /\ Len(d) \in Nat \ {0}
  /\ ValueOfDigits(d) = n
  /\ n = 0 => Len(d) = 1
  /\ n # 0 => d[1] # 0

LEMMA OneDigit ==
  ASSUME NEW n \in Nat
  PROVE  DigitsOf(<<n>>, n)
BY ValueOfOne DEF DigitsOf

LEMMA OneDigitMore ==
  ASSUME NEW n \in Nat \ {0}, NEW d, NEW x \in Nat, DigitsOf(d, n)
  PROVE  DigitsOf(Append(d, x), 10 * n + x)
<1>1. d \in Seq(Nat) /\ Len(d) \in Nat \ {0} /\ d[1] # 0 /\ ValueOfDigits(d) = n
  BY DEF DigitsOf
<1>2. /\ Append(d, x) \in Seq(Nat) /\ Len(Append(d, x)) = Len(d) + 1
      /\ Append(d, x)[1] = d[1]
  BY <1>1, AppendProperties
<1>3. ValueOfDigits(Append(d, x)) = 10 * n + x
  BY <1>1, ValueOfOneMore
<1>4. 10 * n + x # 0
  OBVIOUS
<1>5. QED BY <1>1, <1>2, <1>3, <1>4 DEF DigitsOf

LEMMA DigitsForm ==
  ASSUME NEW n \in Nat
  PROVE  DigitsOf(Digits(n), n)
<1>1. PICK g : g = [k \in 0..n |-> IF k < 10 THEN <<k>> ELSE Append(g[k \div 10], k % 10)]
               /\ Digits(n) = g[n]
  BY CountExists, Zenon DEF Digits, Counts
<1>2. \A k \in 0..n : g[k] = IF k < 10 THEN <<k>> ELSE Append(g[k \div 10], k % 10)
  BY <1>1, Zenon
<1> DEFINE S == {m \in Nat : \A k \in 0..n : k <= m => DigitsOf(g[k], k)}
<1>3. 0 \in S
  <2>1. ASSUME NEW k \in 0..n, k <= 0 PROVE DigitsOf(g[k], k)
    <3>1. k < 10 /\ k \in Nat
      BY <2>1
    <3>2. g[k] = <<k>>
      BY <1>2, <3>1, Zenon
    <3>3. QED BY <3>1, <3>2, OneDigit
  <2>2. QED BY <2>1
<1>4. ASSUME NEW m \in Nat, m \in S PROVE m + 1 \in S
  <2>1. ASSUME NEW k \in 0..n, k <= m + 1 PROVE DigitsOf(g[k], k)
    <3>1. CASE k < 10
      <4>1. k \in Nat
        OBVIOUS
      <4>2. g[k] = <<k>>
        BY <1>2, <3>1, Zenon
      <4>3. QED BY <4>1, <4>2, OneDigit
    <3>2. CASE ~ k < 10
      <4>1. /\ k \div 10 \in Nat \ {0} /\ k \div 10 < k /\ k % 10 \in Nat
            /\ 10 * (k \div 10) + (k % 10) = k
        BY <3>2, ByTen
      <4>2. k \div 10 \in 0..n /\ k \div 10 <= m
        BY <2>1, <4>1
      <4>3. DigitsOf(g[k \div 10], k \div 10)
        BY <1>4, <4>2
      <4>4. DigitsOf(Append(g[k \div 10], k % 10), 10 * (k \div 10) + (k % 10))
        BY <4>1, <4>3, OneDigitMore
      <4>5. g[k] = Append(g[k \div 10], k % 10)
        BY <1>2, <3>2, Zenon
      <4>6. QED BY <4>1, <4>4, <4>5
    <3>3. QED BY <3>1, <3>2
  <2>2. QED BY <2>1
<1> HIDE DEF S
<1>5. Nat \subseteq S
  BY <1>3, <1>4, SetInduction
<1>6. DigitsOf(g[n], n)
  BY <1>5 DEF S
<1>7. QED BY <1>1, <1>6

(* numeric_to_string: a decimal's text has its sign, its scale, its value, *)
(* and a digit before the point, the first of several not a zero.          *)
DecimalText(text, value, scale) ==
  /\ text.negative = (value < 0)
  /\ ValueOfDigits(text.whole \o text.fraction) = Abs(value)
  /\ Len(text.fraction) = scale
  /\ text.whole # <<>>
  /\ Len(text.whole) > 1 => text.whole[1] # 0

LEMMA DecimalsKeepTheirValue ==
  ASSUME NEW value \in Int, NEW scale \in Nat
  PROVE  DecimalText(NumericToString(value, scale), value, scale)
<1> DEFINE digits == Digits(Abs(value))
           padded == IF Len(digits) <= scale THEN Zeros(scale + 1 - Len(digits)) \o digits ELSE digits
           point == Len(padded) - scale
<1>1. Abs(value) \in Nat
  BY DEF Abs
<1>2. DigitsOf(digits, Abs(value))
  BY <1>1, DigitsForm
<1>3. NumericToString(value, scale) =
        [negative |-> value < 0, whole |-> SubSeq(padded, 1, point),
         fraction |-> SubSeq(padded, point + 1, Len(padded))]
  BY Zenon DEF NumericToString
<1> HIDE DEF digits
<1>4. /\ digits \in Seq(Nat) /\ Len(digits) \in Nat \ {0}
      /\ ValueOfDigits(digits) = Abs(value)
      /\ Abs(value) = 0 => Len(digits) = 1
      /\ Abs(value) # 0 => digits[1] # 0
  BY <1>2 DEF DigitsOf
<1>5. /\ padded \in Seq(Nat)
      /\ ValueOfDigits(padded) = Abs(value)
      /\ Len(padded) \in Nat
      /\ Len(padded) > scale
      /\ Len(padded) > scale + 1 => padded[1] # 0
  <2>1. CASE Len(digits) <= scale
    <3>1. PICK z \in Nat : z = scale + 1 - Len(digits)
      BY <1>4, <2>1
    <3>2. padded = Zeros(z) \o digits
      BY <2>1, <3>1
    <3>3. Zeros(z) \in Seq(Nat) /\ Len(Zeros(z)) = z
      BY DEF Zeros
    <3>4. Len(Zeros(z) \o digits) = scale + 1
      BY <1>4, <3>1, <3>3, ConcatProperties
    <3>5. Zeros(z) \o digits \in Seq(Nat) /\ ValueOfDigits(Zeros(z) \o digits) = Abs(value)
      BY <1>4, ValueAfterZeros
    <3> HIDE DEF padded
    <3>6. QED BY <3>2, <3>4, <3>5
  <2>2. CASE ~ Len(digits) <= scale
    <3>1. padded = digits
      BY <2>2
    <3> HIDE DEF padded
    <3>2. Len(digits) > scale + 1 => digits[1] # 0
      <4>1. Len(digits) \in Nat
        BY <1>4
      <4>2. \A l \in Nat : l > scale + 1 => l # 1
        OBVIOUS
      <4>3. Len(digits) > scale + 1 => Len(digits) # 1
        BY <4>1, <4>2, Zenon
      <4>4. QED BY <1>4, <4>3, Zenon
    <3>3. QED BY <1>4, <2>2, <3>1, <3>2
  <2>3. QED BY <2>1, <2>2
<1> HIDE DEF padded
<1>6. point \in 1..Len(padded) /\ Len(padded) - point = scale /\ point = Len(padded) - scale
  BY <1>5
<1> HIDE DEF point
<1>7. PICK w : w = SubSeq(padded, 1, point)
  OBVIOUS
<1>8. PICK f : f = SubSeq(padded, point + 1, Len(padded))
  OBVIOUS
<1>9. w \o f = padded /\ Len(w) = point /\ w[1] = padded[1] /\ Len(f) = scale
  BY <1>5, <1>6, <1>7, <1>8, CutAtThePoint
<1>10. PICK text : text = NumericToString(value, scale)
  OBVIOUS
<1>11. text.negative = (value < 0) /\ text.whole = w /\ text.fraction = f
  <2>1. text = [negative |-> value < 0, whole |-> w, fraction |-> f]
    BY <1>3, <1>7, <1>8, <1>10, Zenon
  <2>2. QED BY ONLY <2>1
<1>12. w # <<>> /\ Len(w) > 1 => w[1] # 0
  BY <1>5, <1>6, <1>9
<1>13. w # <<>>
  BY <1>6, <1>9
<1>14. ValueOfDigits(w \o f) = Abs(value)
  BY <1>5, <1>9
<1>15. DecimalText(text, value, scale)
  BY <1>9, <1>11, <1>12, <1>13, <1>14 DEF DecimalText
<1>16. QED BY <1>10, <1>15

(* A cell of each kind, as it comes back.                                  *)
LEMMA SentAsItIs ==
  ASSUME NEW kind \in {"null", "bool", "float", "string"}, NEW of
  PROVE  ToSql(MssqlParam([kind |-> kind, of |-> of])).value = of
<1> DEFINE json == [kind |-> kind, of |-> of]
<1>1. json.kind = kind /\ json.of = of /\ json.kind # "integer"
  OBVIOUS
<1>2. MssqlParam(json) = json
  BY <1>1, Zenon DEF MssqlParam
<1> HIDE DEF json
<1>3. ToSql(json).value = json.of
  BY DEF ToSql
<1>4. QED BY <1>1, <1>2, <1>3 DEF json

LEMMA SentAsInteger ==
  ASSUME NEW n \in (-MaxInt - 1)..MaxInt
  PROVE  ToSql(MssqlParam(Json("integer", n))) = [type |-> "I64", value |-> n]
<1> DEFINE json == Json("integer", n)
<1>1. json.kind = "integer" /\ json.of = n
  BY DEF Json
<1> HIDE DEF json
<1>2. MssqlParam(json) = json
  BY <1>1, Zenon DEF MssqlParam
<1>3. ToSql(json) = [type |-> "I64", value |-> n]
  BY <1>1 DEF ToSql
<1>4. QED BY <1>2, <1>3 DEF json

LEMMA NullComesBack ==
  ASSUME NEW c, c.value = None
  PROVE  ToSql(MssqlParam(ColumnDataToJson(c))).value = None
<1>1. ColumnDataToJson(c) = [kind |-> "null", of |-> None]
  BY DEF ColumnDataToJson, JsonNull
<1>2. QED BY <1>1, SentAsItIs

LEMMA IntegerComesBack ==
  ASSUME NEW c, CellForm(c), c.value # None, c.type \in Integer
  PROVE  ToSql(MssqlParam(ColumnDataToJson(c))) = [type |-> "I64", value |-> c.value]
<1>1. ColumnDataToJson(c) = Json("integer", c.value)
  BY DEF ColumnDataToJson, Integer, Float, Temporal
<1>2. c.value \in (-MaxInt - 1)..MaxInt
  BY DEF CellForm
<1>3. QED BY <1>1, <1>2, SentAsInteger

LEMMA DateComesBack ==
  ASSUME NEW c, c.value # None, c.type \in Temporal
  PROVE  ToSql(MssqlParam(ColumnDataToJson(c))).value =
           IF c.value.valid THEN c.value.text ELSE None
<1>1. ColumnDataToJson(c) =
        IF c.value.valid THEN [kind |-> "string", of |-> c.value.text]
        ELSE [kind |-> "null", of |-> None]
  BY DEF ColumnDataToJson, JsonNull, Json, Integer, Float, Temporal
<1>2. CASE c.value.valid
  BY <1>1, <1>2, SentAsItIs
<1>3. CASE ~ c.value.valid
  BY <1>1, <1>3, SentAsItIs
<1>4. QED BY <1>2, <1>3

LEMMA DecimalComesBack ==
  ASSUME NEW c, CellForm(c), c.value # None, c.type = "Numeric"
  PROVE  DecimalText(ToSql(MssqlParam(ColumnDataToJson(c))).value,
                     c.value.value, c.value.scale)
<1>1. c.value.value \in Int /\ c.value.scale \in Nat
  BY DEF CellForm
<1>2. ColumnDataToJson(c) =
        [kind |-> "string", of |-> NumericToString(c.value.value, c.value.scale)]
  BY DEF ColumnDataToJson, Json, Integer, Float, Temporal
<1>3. ToSql(MssqlParam(ColumnDataToJson(c))).value =
        NumericToString(c.value.value, c.value.scale)
  BY <1>2, SentAsItIs
<1>4. QED BY <1>1, <1>3, DecimalsKeepTheirValue

LEMMA TextComesBack ==
  ASSUME NEW c, CellForm(c), c.value # None,
         c.type \notin Integer \cup Temporal \cup {"Numeric", "Binary"}
  PROVE  ToSql(MssqlParam(ColumnDataToJson(c))).value = c.value
<1>1. c.type \in {"F32", "F64", "Bit", "String", "Guid", "Xml"}
  BY DEF CellForm, Float
<1>2. PICK kind \in {"float", "bool", "string"} :
        ColumnDataToJson(c) = [kind |-> kind, of |-> c.value]
  BY <1>1 DEF ColumnDataToJson, Json, Integer, Float, Temporal
<1>3. QED BY <1>2, SentAsItIs

(* A byte is made of its two digits, and two positions of one half.        *)
LEMMA TwoDigits ==
  ASSUME NEW byte \in 0..255
  PROVE  16 * (byte \div 16) + (byte % 16) = byte
OBVIOUS

LEMMA Element ==
  ASSUME NEW T, NEW s \in Seq(T), NEW i \in 1..Len(s)
  PROVE  s[i] \in T
OBVIOUS

LEMMA HexIsReadBack ==
  ASSUME NEW bytes \in Seq(0..255)
  PROVE  HexStandsFor(HexText(bytes).digits, bytes)
<1> DEFINE n == 2 * Len(bytes)
           digit(i) == LET byte == bytes[(i + 1) \div 2] IN
                       IF i % 2 = 1 THEN byte \div 16 ELSE byte % 16
<1>1. PICK digits : digits = HexText(bytes).digits
  OBVIOUS
<1>2. digits = [i \in 1..n |-> digit(i)]
  BY <1>1 DEF HexText
<1>3. Len(bytes) \in Nat /\ DOMAIN bytes = 1..Len(bytes) /\ n \in Nat
  OBVIOUS
<1>4. \A i \in 1..Len(bytes) : bytes[i] \in 0..255
  BY Element, Zenon
<1>5. DOMAIN digits = 1..n
  BY <1>2
<1>6. Len(digits) = n
  BY ONLY <1>3, <1>5
<1>7. ASSUME NEW i \in DOMAIN bytes, NEW k \in Int, k = 2 * i - 1
      PROVE  16 * digits[k] + digits[2 * i] = bytes[i]
  <2>1. i \in 1..Len(bytes) /\ i \in Nat /\ k + 1 = 2 * i
    BY ONLY <1>3, <1>7
  <2>2. PICK byte \in 0..255 : byte = bytes[i]
    BY ONLY <1>4, <2>1
  <2>3. k \in 1..n /\ 2 * i \in 1..n
    BY ONLY <1>3, <1>7, <2>1
  <2>4. k % 2 = 1 /\ (k + 1) \div 2 = i /\ (2 * i) % 2 = 0 /\ (2 * i + 1) \div 2 = i
    BY <2>1, TwoHalves
  <2>5. digits[k] = byte \div 16
    BY <1>2, <2>2, <2>3, <2>4
  <2>6. digits[2 * i] = byte % 16
    <3>1. PICK m \in 1..n : m = 2 * i
      BY <2>3
    <3>2. m % 2 = 0 /\ (m + 1) \div 2 = i
      BY <2>4, <3>1
    <3>3. digits[m] = byte % 16
      BY <1>2, <2>2, <3>2
    <3>4. QED BY <3>1, <3>3
  <2>7. QED BY <2>2, <2>5, <2>6, TwoDigits
<1>8. ASSUME NEW i \in DOMAIN bytes
      PROVE  16 * digits[2 * i - 1] + digits[2 * i] = bytes[i]
  <2>1. PICK k \in Int : k = 2 * i - 1
    BY <1>3
  <2>2. QED BY <1>7, <2>1
<1>9. QED BY <1>1, <1>6, <1>8 DEF HexStandsFor

LEMMA BinaryComesBack ==
  ASSUME NEW c, CellForm(c), c.value # None, c.type = "Binary"
  PROVE  /\ ToSql(MssqlParam(ColumnDataToJson(c))).type = "String"
         /\ HexStandsFor(ToSql(MssqlParam(ColumnDataToJson(c))).value.digits, c.value)
<1>1. c.value \in Seq(0..255)
  BY DEF CellForm
<1>2. PICK text : text = HexText(c.value)
  OBVIOUS
<1>3. ColumnDataToJson(c) = [kind |-> "string", of |-> text]
  BY <1>2 DEF ColumnDataToJson, Json, Integer, Float, Temporal
<1>4. MssqlParam([kind |-> "string", of |-> text]) = [kind |-> "string", of |-> text]
  BY DEF MssqlParam
<1>5. ToSql([kind |-> "string", of |-> text]) = [type |-> "String", value |-> text]
  BY DEF ToSql
<1>6. QED BY <1>1, <1>2, <1>3, <1>4, <1>5, HexIsReadBack

(* What DecimalText says is what CellsSurvive asks for.                    *)
LEMMA DecimalValue ==
  ASSUME NEW text, NEW value \in Int, NEW scale, DecimalText(text, value, scale)
  PROVE  LET n == ValueOfDigits(text.whole \o text.fraction)
         IN  value = IF text.negative THEN -n ELSE n
<1>1. PICK n : n = ValueOfDigits(text.whole \o text.fraction)
  OBVIOUS
<1>2. n = Abs(value) /\ text.negative = (value < 0)
  BY <1>1 DEF DecimalText
<1>3. value = IF value < 0 THEN -Abs(value) ELSE Abs(value)
  BY DEF Abs
<1>4. value = IF text.negative THEN -n ELSE n
  BY <1>2, <1>3
<1>5. QED BY <1>1, <1>4

(* Whatever a column holds, what the user sees of a cell and sends back is *)
(* what was in it; a decimal's text has its value, sign and scale, for any *)
(* number of digits, and binary data comes back as the text of its bytes,  *)
(* for any number of them (column_data_to_json, mssql_param, to_sql).      *)
THEOREM CellsComeBack == Spec => []CellsSurvive
<1>1. Answered => CellsSurvive
  <2> SUFFICES ASSUME Answered, Returned("cell")
               PROVE  CellsSurvive
    BY Zenon DEF CellsSurvive
  <2>1. CellForm(input) /\ output = ColumnDataToJson(input)
    BY CellAssumption DEF Answered, Returned
  <2>2. PICK sent : sent = ToSql(MssqlParam(output))
    OBVIOUS
  <2>3. sent = ToSql(MssqlParam(ColumnDataToJson(input)))
    BY <2>1, <2>2
  <2>4. CASE input.value = None
    <3>1. sent.value = None
      BY <2>3, <2>4, NullComesBack
    <3>2. QED BY <2>2, <2>4, <3>1, Zenon DEF CellsSurvive
  <2>5. CASE input.value # None /\ input.type \in Temporal
    <3>1. sent.value = IF input.value.valid THEN input.value.text ELSE None
      BY <2>3, <2>5, DateComesBack
    <3>2. QED BY <2>2, <2>5, <3>1 DEF CellsSurvive, Temporal, Integer
  <2>6. CASE input.value # None /\ input.type = "Numeric"
    <3>1. DecimalText(sent.value, input.value.value, input.value.scale)
      BY <2>1, <2>3, <2>6, DecimalComesBack
    <3>2. PICK n : n = ValueOfDigits(sent.value.whole \o sent.value.fraction)
      OBVIOUS
    <3>3. input.value.value \in Int
      BY <2>1, <2>6 DEF CellForm
    <3>4. input.value.value = IF sent.value.negative THEN -n ELSE n
      BY <3>1, <3>2, <3>3, DecimalValue
    <3>5. /\ Len(sent.value.fraction) = input.value.scale
          /\ sent.value.whole # <<>>
          /\ Len(sent.value.whole) > 1 => sent.value.whole[1] # 0
      BY <3>1, Zenon DEF DecimalText
    <3>6. input.type \notin Temporal
      BY <2>6 DEF Temporal
    <3>7. QED BY <2>2, <2>6, <3>2, <3>4, <3>5, <3>6 DEF CellsSurvive, Integer
  <2>7. CASE input.value # None /\ input.type \in Integer
    <3>1. sent = [type |-> "I64", value |-> input.value]
      BY <2>1, <2>3, <2>7, IntegerComesBack
    <3>2. QED BY <2>2, <2>7, <3>1 DEF CellsSurvive, Integer, Temporal
  <2>8. CASE input.value # None /\ input.type = "Binary"
    <3>1. sent.type = "String" /\ HexStandsFor(sent.value.digits, input.value)
      BY <2>1, <2>3, <2>8, BinaryComesBack
    <3>2. QED BY <2>2, <2>8, <3>1 DEF CellsSurvive, Integer, Temporal
  <2>9. CASE input.value # None
             /\ input.type \notin Integer \cup Temporal \cup {"Numeric", "Binary"}
    <3>1. sent.value = input.value
      BY <2>1, <2>3, <2>9, TextComesBack
    <3>2. QED BY <2>2, <2>9, <3>1 DEF CellsSurvive, Integer, Temporal
  <2>10. QED BY <2>4, <2>5, <2>6, <2>7, <2>8, <2>9
<1>2. QED
  BY <1>1, InitAnswered, NextAnswered, PTL DEF Spec

-----------------------------------------------------------------------------
(* Parameters.                                                             *)

(* The step of Parameters as a function, X the pieces.                     *)
Kept(X) == [x \in Seq(X) \X X |-> IF x[2].key = Absent THEN x[1] ELSE Append(x[1], x[2])]

LEMMA KeptForm ==
  ASSUME NEW X
  PROVE  /\ Kept(X) \in [Seq(X) \X X -> Seq(X)]
         /\ \A found \in Seq(X) : \A p \in X :
              Kept(X)[<<found, p>>] = IF p.key = Absent THEN found ELSE Append(found, p)
<1>1. \A found \in Seq(X) : \A p \in X : Append(found, p) \in Seq(X)
  BY AppendProperties
<1>2. \A x \in Seq(X) \X X :
        (IF x[2].key = Absent THEN x[1] ELSE Append(x[1], x[2])) \in Seq(X)
  BY <1>1
<1>3. \A found \in Seq(X) : \A p \in X : <<found, p>> \in Seq(X) \X X
  OBVIOUS
<1>4. Kept(X) \in [Seq(X) \X X -> Seq(X)]
  BY <1>2, Zenon DEF Kept
<1>5. ASSUME NEW found \in Seq(X), NEW p \in X
      PROVE  Kept(X)[<<found, p>>] = IF p.key = Absent THEN found ELSE Append(found, p)
  <2>1. PICK x \in Seq(X) \X X : x = <<found, p>> /\ x[1] = found /\ x[2] = p
    BY <1>3
  <2>2. Kept(X)[x] = IF x[2].key = Absent THEN x[1] ELSE Append(x[1], x[2])
    BY Zenon DEF Kept
  <2>3. QED BY <2>1, <2>2, Zenon
<1>6. QED BY <1>4, <1>5

LEMMA ParametersFold ==
  ASSUME NEW X, NEW pieces \in Seq(X)
  PROVE  Folded(Parameters(pieces), <<>>, Kept(X), pieces)
<1> DEFINE n == Len(pieces)
           Step(found, p) == IF p.key = Absent THEN found ELSE Append(found, p)
<1>1. n \in Nat /\ DOMAIN pieces = 1..n /\ <<>> \in Seq(X)
  BY LenProperties
<1>2. /\ Kept(X) \in [Seq(X) \X X -> Seq(X)]
      /\ \A found \in Seq(X), p \in X : Kept(X)[<<found, p>>] = Step(found, p)
  BY KeptForm, Zenon
<1>3. PICK g \in [SUBSET (1..n) -> Seq(X)] : FoldsBy(g, Seq(X), X, <<>>, Kept(X), pieces)
  BY <1>1, <1>2, FoldHasSteps
<1>4. \A s \in SUBSET (1..n) : g[s] = IF s = {} THEN <<>> ELSE Step(g[s \ {Max(s)}], pieces[Max(s)])
  BY <1>2, <1>3, Zenon DEF FoldsBy
<1>5. g = [s \in SUBSET (1..n) |-> IF s = {} THEN <<>> ELSE Step(g[s \ {Max(s)}], pieces[Max(s)])]
  BY <1>4, Zenon
<1>6. PICK h : /\ h = [s \in SUBSET (1..n) |-> IF s = {} THEN <<>> ELSE Step(h[s \ {Max(s)}], pieces[Max(s)])]
               /\ Parameters(pieces) = h[1..n]
  BY <1>1, <1>5, Zenon DEF Parameters, FoldLeft, MapThenFoldSet
<1>7. \A s \in SUBSET (1..n) : h[s] = IF s = {} THEN <<>> ELSE Step(h[s \ {Max(s)}], pieces[Max(s)])
  BY <1>6, Zenon
<1>8. ASSUME NEW s \in SUBSET (1..n)
      PROVE  /\ s = {} => h[s] = <<>>
             /\ s # {} /\ h[s \ {Max(s)}] \in Seq(X) => h[s] = Kept(X)[<<h[s \ {Max(s)}], pieces[Max(s)]>>]
  BY <1>2, <1>3, <1>7, Zenon DEF FoldsBy
<1>9. FoldsTo(Parameters(pieces), Seq(X), <<>>, Kept(X), pieces)
  BY <1>6, <1>8, Zenon DEF FoldsTo
<1>10. QED BY <1>1, <1>2, <1>9, FoldedSteps

(* run[k] is what is found in the first k pieces.                          *)
ParameterRun(run, X, pieces) ==
  /\ run[0] = <<>>
  /\ \A k \in 1..Len(pieces) :
       run[k] = IF pieces[k].key = Absent THEN run[k - 1] ELSE Append(run[k - 1], pieces[k])
  /\ \A k \in 0..Len(pieces) :
       /\ run[k] \in Seq(X)
       /\ run[k] = Parameters(SubSeq(pieces, 1, k))
       /\ Len(run[k]) <= Len(run[Len(pieces)])
       /\ \A j \in 1..Len(run[k]) : run[Len(pieces)][j] = run[k][j]
  /\ run[Len(pieces)] = Parameters(pieces)

LEMMA ParametersRun ==
  ASSUME NEW X, NEW pieces \in Seq(X)
  PROVE  \E run : ParameterRun(run, X, pieces)
<1> DEFINE n == Len(pieces)
<1>1. n \in Nat /\ \A k \in 1..n : pieces[k] \in X
  BY LenProperties, ElementOfSeq
<1>2. PICK run : Folding(run, <<>>, Kept(X), pieces) /\ run[n] = Parameters(pieces)
  BY ParametersFold, Zenon DEF Folded
<1>3. \A k \in 0..n : run[k] \in Seq(X)
  <2>1. <<>> \in Seq(X)
    OBVIOUS
  <2>2. QED BY <1>2, <2>1, KeptForm, FoldingTyped
<1>4. ASSUME NEW k \in 1..n
      PROVE  run[k] = IF pieces[k].key = Absent THEN run[k - 1] ELSE Append(run[k - 1], pieces[k])
  <2>1. run[k] = Kept(X)[<<run[k - 1], pieces[k]>>]
    BY <1>2 DEF Folding
  <2>2. k - 1 \in 0..n
    BY <1>1
  <2>3. QED BY <1>1, <1>3, <2>1, <2>2, KeptForm, Zenon
<1>5. ASSUME NEW k \in 0..n
      PROVE  run[k] = Parameters(SubSeq(pieces, 1, k))
  <2> DEFINE some == SubSeq(pieces, 1, k)
  <2>1. /\ some \in Seq(X) /\ Len(some) = k /\ \A i \in 1..k : some[i] = pieces[i]
    <3>1. \A i \in 1..k : pieces[i] \in X
      BY <1>1
    <3>2. QED BY <1>1, <3>1, SubSeqProperties
  <2> HIDE DEF some
  <2>2. PICK q : Folding(q, <<>>, Kept(X), some) /\ q[Len(some)] = Parameters(some)
    BY <2>1, ParametersFold, Zenon DEF Folded
  <2>3. \A j \in 0..k : q[j] = run[j]
    BY <1>1, <1>2, <2>1, <2>2, FoldingsAgree
  <2>4. QED BY <2>1, <2>2, <2>3 DEF some
<1>6. ASSUME NEW k \in 0..n
      PROVE  /\ Len(run[k]) <= Len(run[n])
             /\ \A j \in 1..Len(run[k]) : run[n][j] = run[k][j]
  <2> DEFINE BeginsWith(a, b) == Len(a) <= Len(b) /\ \A j \in 1..Len(a) : b[j] = a[j]
             S == {m \in Nat : k + m <= n => BeginsWith(run[k], run[k + m])}
  <2>1. 0 \in S
    <3>1. k + 0 = k /\ Len(run[k]) \in Nat
      BY <1>3, LenProperties
    <3>2. QED BY <3>1
  <2>2. ASSUME NEW m \in Nat, m \in S PROVE m + 1 \in S
    <3>1. SUFFICES ASSUME k + (m + 1) <= n PROVE BeginsWith(run[k], run[k + (m + 1)])
      OBVIOUS
    <3>2. k + (m + 1) \in 1..n /\ (k + (m + 1)) - 1 = k + m /\ k + m \in 0..n
      BY <1>1, <3>1
    <3>3. BeginsWith(run[k], run[k + m])
      BY <2>2, <3>2
    <3>4. /\ run[k] \in Seq(X) /\ run[k + m] \in Seq(X) /\ pieces[k + (m + 1)] \in X
          /\ Len(run[k]) \in Nat /\ Len(run[k + m]) \in Nat
      BY <1>1, <1>3, <3>2, LenProperties
    <3>5. CASE pieces[k + (m + 1)].key = Absent
      BY <1>4, <3>2, <3>3, <3>5
    <3>6. CASE pieces[k + (m + 1)].key # Absent
      <4>1. run[k + (m + 1)] = Append(run[k + m], pieces[k + (m + 1)])
        BY <1>4, <3>2, <3>6
      <4>2. /\ Len(run[k + (m + 1)]) = Len(run[k + m]) + 1
            /\ \A j \in 1..Len(run[k + m]) : run[k + (m + 1)][j] = run[k + m][j]
        BY <3>4, <4>1, AppendProperties
      <4>3. QED BY <3>3, <3>4, <4>2
    <3>7. QED BY <3>5, <3>6
  <2> HIDE DEF S
  <2>3. Nat \subseteq S
    BY <2>1, <2>2, SetInduction
  <2>4. n - k \in S /\ k + (n - k) = n
    BY <1>1, <2>3
  <2>5. QED BY <2>4 DEF S
<1>7. run[0] = <<>>
  BY <1>2 DEF Folding
<1>8. ParameterRun(run, X, pieces)
  BY <1>2, <1>3, <1>4, <1>5, <1>6, <1>7, Zenon DEF ParameterRun
<1>9. QED BY <1>8

-----------------------------------------------------------------------------
(* Bound statements.                                                       *)

Symbol == [symbol : Symbols \cup {"?", "parameter"}, index : Nat]

(* What a server makes of the j-th symbol.                                 *)
Marks(sql, j) == {k \in 1..j : sql[k].symbol = "?"}
Evaluate(sql, params, j) ==
  CASE sql[j].symbol = "?" ->
         [symbol |-> "value", index |-> params[Cardinality(Marks(sql, j))]]
    [] sql[j].symbol = "parameter" -> [symbol |-> "value", index |-> params[sql[j].index]]
    [] OTHER -> sql[j]

(* It does not look at what comes after.                                   *)
LEMMA EvaluateBegin ==
  ASSUME NEW a \in Seq(Symbol), NEW c \in Seq(Symbol), NEW params, NEW j \in 1..Len(a)
  PROVE  /\ Marks(a \o c, j) = Marks(a, j)
         /\ Evaluate(a \o c, params, j) = Evaluate(a, params, j)
<1>1. Len(a) \in Nat /\ Len(c) \in Nat
  BY LenProperties
<1>2. \A k \in 1..j : (a \o c)[k] = a[k]
  <2>1. \A k \in 1..(Len(a) + Len(c)) : (a \o c)[k] = IF k <= Len(a) THEN a[k] ELSE c[k - Len(a)]
    BY ConcatProperties
  <2>2. QED BY <1>1, <2>1
<1>3. Marks(a \o c, j) = Marks(a, j)
  BY <1>2 DEF Marks
<1>4. (a \o c)[j] = a[j]
  BY <1>1, <1>2
<1>5. QED BY <1>3, <1>4, Zenon DEF Evaluate

(* The first k pieces, bound as a and substituted as b: the server makes b *)
(* of a, and, where the placeholders are question marks, there are as many *)
(* as parameters so far.                                                   *)
Alike(a, b, params, marked, count) ==
  /\ Len(a) = Len(b)
  /\ marked => Cardinality(Marks(a, Len(a))) = count
  /\ \A j \in 1..Len(a) : Evaluate(a, params, j) = b[j]

LEMMA PlainForm ==
  ASSUME NEW t \in Seq(Symbols)
  PROVE  /\ Plain(t) \in Seq(Symbol) /\ Len(Plain(t)) = Len(t) /\ Len(t) \in Nat
         /\ \A j \in 1..Len(t) : Plain(t)[j] = [symbol |-> t[j], index |-> 0] /\ t[j] \in Symbols
<1>1. Len(t) \in Nat /\ DOMAIN t = 1..Len(t) /\ \A j \in 1..Len(t) : t[j] \in Symbols
  BY LenProperties, ElementOfSeq
<1>2. Plain(t) = [j \in 1..Len(t) |-> [symbol |-> t[j], index |-> 0]]
  BY <1>1 DEF Plain
<1>3. \A j \in 1..Len(t) : [symbol |-> t[j], index |-> 0] \in Symbol
  BY <1>1 DEF Symbol, Symbols, WordSymbols, Letters, Blanks
<1>4. QED BY <1>1, <1>2, <1>3

LEMMA AlikeText ==
  ASSUME NEW a \in Seq(Symbol), NEW B, NEW b \in Seq(B), NEW params, NEW marked, NEW count,
         NEW t \in Seq(Symbols), Plain(t) \in Seq(B), Alike(a, b, params, marked, count)
  PROVE  Alike(a \o Plain(t), b \o Plain(t), params, marked, count)
<1> DEFINE p == Plain(t)
           all == a \o p
           both == b \o p
<1>1. /\ p \in Seq(Symbol) /\ Len(p) \in Nat /\ p \in Seq(B)
      /\ \A j \in 1..Len(p) : p[j].symbol \notin {"?", "parameter"}
  <2>1. Plain(t) \in Seq(Symbol) /\ Len(Plain(t)) = Len(t) /\ Len(t) \in Nat
    BY PlainForm
  <2>2. \A j \in 1..Len(t) : Plain(t)[j].symbol \notin {"?", "parameter"}
    <3>1. ASSUME NEW j \in 1..Len(t) PROVE Plain(t)[j].symbol \notin {"?", "parameter"}
      <4>1. Plain(t)[j] = [symbol |-> t[j], index |-> 0] /\ t[j] \in Symbols
        BY PlainForm
      <4>2. \A c \in Symbols : c \notin {"?", "parameter"}
        BY DEF Symbols, WordSymbols, Letters, Blanks
      <4>3. QED BY <4>1, <4>2
    <3>2. QED BY <3>1
  <2>3. QED BY <2>1, <2>2
<1> HIDE DEF p
<1>2. /\ Len(a) \in Nat /\ Len(b) = Len(a)
      /\ all \in Seq(Symbol) /\ Len(all) = Len(a) + Len(p)
      /\ \A j \in 1..(Len(a) + Len(p)) : all[j] = IF j <= Len(a) THEN a[j] ELSE p[j - Len(a)]
      /\ Len(both) = Len(b) + Len(p)
      /\ \A j \in 1..(Len(b) + Len(p)) : both[j] = IF j <= Len(b) THEN b[j] ELSE p[j - Len(b)]
  BY <1>1, ConcatProperties, LenProperties DEF Alike
<1>3. \A j \in 1..Len(a) : Evaluate(all, params, j) = Evaluate(a, params, j)
  BY <1>1, EvaluateBegin
<1>4. ASSUME NEW j \in 1..Len(all) PROVE Evaluate(all, params, j) = both[j]
  <2>1. CASE j <= Len(a)
    <3>1. j \in 1..Len(a) /\ both[j] = b[j]
      BY <1>1, <1>2, <2>1
    <3>2. QED BY <1>3, <3>1 DEF Alike
  <2>2. CASE ~ j <= Len(a)
    <3>1. j - Len(a) \in 1..Len(p) /\ all[j] = p[j - Len(a)] /\ both[j] = p[j - Len(a)]
      BY <1>1, <1>2, <2>2
    <3>2. all[j].symbol \notin {"?", "parameter"}
      BY <1>1, <3>1
    <3>3. Evaluate(all, params, j) = all[j]
      BY <3>2, Zenon DEF Evaluate
    <3>4. QED BY <3>1, <3>3
  <2>3. QED BY <2>1, <2>2
<1>5. Marks(all, Len(all)) = Marks(a, Len(a))
  <2>1. ASSUME NEW k \in 1..Len(all), all[k].symbol = "?" PROVE k \in 1..Len(a) /\ all[k] = a[k]
    <3>1. CASE k <= Len(a)
      BY <1>1, <1>2, <3>1
    <3>2. CASE ~ k <= Len(a)
      <4>1. k - Len(a) \in 1..Len(p) /\ all[k] = p[k - Len(a)]
        BY <1>1, <1>2, <3>2
      <4>2. QED BY <1>1, <2>1, <4>1
    <3>3. QED BY <3>1, <3>2
  <2>2. ASSUME NEW k \in 1..Len(a) PROVE k \in 1..Len(all) /\ all[k] = a[k]
    BY <1>1, <1>2
  <2> HIDE DEF all
  <2>3. QED BY <2>1, <2>2 DEF Marks
<1> HIDE DEF all, both
<1>6. Len(all) = Len(both)
  BY <1>2
<1>7. marked => Cardinality(Marks(all, Len(all))) = count
  BY <1>5 DEF Alike
<1>8. Alike(all, both, params, marked, count)
  BY <1>4, <1>6, <1>7, Zenon DEF Alike
<1>9. QED BY <1>8 DEF all, both, p

LEMMA MarksFinite ==
  ASSUME NEW sql, NEW j \in Nat
  PROVE  IsFiniteSet(Marks(sql, j)) /\ Cardinality(Marks(sql, j)) \in Nat
<1>1. IsFiniteSet(1..j)
  BY FS_Interval
<1>2. Marks(sql, j) \subseteq 1..j
  BY DEF Marks
<1>3. IsFiniteSet(Marks(sql, j))
  BY <1>1, <1>2, FS_Subset
<1>4. QED BY <1>3, FS_CardinalityType

LEMMA AlikePlaceholder ==
  ASSUME NEW a \in Seq(Symbol), NEW B, NEW b \in Seq(B), NEW params, NEW marked \in BOOLEAN,
         NEW count \in Nat, NEW x \in Symbol, NEW y \in B,
         Alike(a, b, params, marked, count),
         IF marked THEN x.symbol = "?" ELSE x.symbol = "parameter" /\ x.index = count + 1,
         y = [symbol |-> "value", index |-> params[count + 1]]
  PROVE  Alike(a \o <<x>>, b \o <<y>>, params, marked, count + 1)
<1> DEFINE all == a \o <<x>>
           both == b \o <<y>>
           l == Len(a) + 1
<1>1. /\ Len(a) \in Nat /\ Len(b) = Len(a) /\ l \in Nat
      /\ Len(all) = l /\ all[l] = x /\ \A j \in 1..Len(a) : all[j] = a[j]
      /\ Len(both) = l /\ both[l] = y /\ \A j \in 1..Len(a) : both[j] = b[j]
  <2>1. Len(a) \in Nat /\ Len(b) = Len(a)
    BY LenProperties DEF Alike
  <2>2. <<x>> \in Seq(Symbol) /\ <<y>> \in Seq(B) /\ Len(<<x>>) = 1 /\ Len(<<y>>) = 1
        /\ <<x>>[1] = x /\ <<y>>[1] = y
    OBVIOUS
  <2>3. /\ Len(all) = l
        /\ \A j \in 1..(Len(a) + 1) : all[j] = IF j <= Len(a) THEN a[j] ELSE <<x>>[j - Len(a)]
    BY <2>2, ConcatProperties
  <2>4. /\ Len(both) = Len(b) + 1
        /\ \A j \in 1..(Len(b) + 1) : both[j] = IF j <= Len(b) THEN b[j] ELSE <<y>>[j - Len(b)]
    BY <2>2, ConcatProperties
  <2>5. l \in 1..(Len(a) + 1) /\ ~ l <= Len(a) /\ l - Len(a) = 1
    BY <2>1
  <2>6. all[l] = x /\ both[l] = y
    <3> HIDE DEF all, both, l
    <3>1. QED BY <2>1, <2>2, <2>3, <2>4, <2>5
  <2> HIDE DEF all, both
  <2>7. QED BY <2>1, <2>3, <2>4, <2>6
<1>2. \A j \in 1..Len(a) : Evaluate(all, params, j) = Evaluate(a, params, j)
  <2>1. <<x>> \in Seq(Symbol)
    OBVIOUS
  <2>2. QED BY <2>1, EvaluateBegin
<1> HIDE DEF all, both
<1>3. marked => Marks(all, l) = Marks(a, Len(a)) \cup {l} /\ l \notin Marks(a, Len(a))
  <2>1. marked => x.symbol = "?"
    OBVIOUS
  <2>2. 1..l = (1..Len(a)) \cup {l} /\ l \notin 1..Len(a)
    BY <1>1
  <2> HIDE DEF l
  <2>3. QED BY <1>1, <2>1, <2>2 DEF Marks
<1>4. marked => Cardinality(Marks(all, l)) = count + 1
  <2>1. SUFFICES ASSUME marked PROVE Cardinality(Marks(all, l)) = count + 1
    OBVIOUS
  <2>2. IsFiniteSet(Marks(a, Len(a)))
    BY <1>1, MarksFinite
  <2>3. Cardinality(Marks(a, Len(a)) \cup {l}) = Cardinality(Marks(a, Len(a))) + 1
    BY <1>3, <2>1, <2>2, FS_AddElement
  <2>4. Cardinality(Marks(a, Len(a))) = count
    BY <2>1 DEF Alike
  <2>5. QED BY <1>3, <2>1, <2>3, <2>4
<1>5. Evaluate(all, params, l) = y
  <2>1. CASE marked
    <3>1. all[l].symbol = "?"
      BY <1>1, <2>1
    <3>2. Evaluate(all, params, l) = [symbol |-> "value", index |-> params[Cardinality(Marks(all, l))]]
      BY <3>1, Zenon DEF Evaluate
    <3>3. QED BY <1>4, <2>1, <3>2
  <2>2. CASE ~ marked
    <3>1. all[l].symbol = "parameter" /\ all[l].index = count + 1 /\ all[l].symbol # "?"
      BY <1>1, <2>2
    <3>2. Evaluate(all, params, l) = [symbol |-> "value", index |-> params[all[l].index]]
      BY <3>1 DEF Evaluate
    <3>3. QED BY <3>1, <3>2
  <2>3. QED BY <2>1, <2>2
<1>6. ASSUME NEW j \in 1..Len(all) PROVE Evaluate(all, params, j) = both[j]
  <2>1. CASE j = l
    BY <1>1, <1>5, <2>1
  <2>2. CASE j # l
    <3>1. j \in 1..Len(a)
      BY <1>1, <2>2
    <3>2. Evaluate(all, params, j) = Evaluate(a, params, j) /\ both[j] = b[j]
      BY <1>1, <1>2, <3>1
    <3>3. Evaluate(a, params, j) = b[j]
      BY <3>1 DEF Alike
    <3>4. QED BY <3>2, <3>3
  <2>3. QED BY <2>1, <2>2
<1>7. Len(all) = Len(both) /\ (marked => Cardinality(Marks(all, Len(all))) = count + 1)
  BY <1>1, <1>4
<1>8. Alike(all, both, params, marked, count + 1)
  BY <1>6, <1>7, Zenon DEF Alike
<1>9. QED BY <1>8 DEF all, both

(* A query's pieces, and each of them bound and substituted.               *)
PiecesForm(X) == \A p \in X : p.text \in Seq(Symbols)
BoundPiece(wire, pieces, i) ==
  IF pieces[i].key = Absent THEN Plain(pieces[i].text)
  ELSE <<BindPlaceholder(wire, Len(Parameters(SubSeq(pieces, 1, i))))>>
SubstitutedPiece(pieces, supplied, i) ==
  IF pieces[i].key = Absent THEN Plain(pieces[i].text)
  ELSE <<[symbol |-> "value", index |-> ValueOf(supplied, pieces[i].key)]>>
Marked(wire) == wire \notin {"Postgres", "SqlServer", "Oracle"}
Substitutes(X, supplied) ==
  [symbol : Symbols \cup {"?", "parameter", "value"}, index : Nat \cup {ValueOf(supplied, p.key) : p \in X}]

LEMMA PlainSubstitutes ==
  ASSUME NEW X, NEW supplied, NEW t \in Seq(Symbols)
  PROVE  Plain(t) \in Seq(Substitutes(X, supplied))
<1> DEFINE B == Substitutes(X, supplied)
<1>1. Symbol \subseteq B
  BY DEF Symbol, Substitutes
<1>2. Plain(t) \in Seq(Symbol)
  BY PlainForm
<1> HIDE DEF B
<1>3. QED
  <2> DEFINE s == Plain(t)
  <2>1. Len(s) \in Nat /\ s = [j \in 1..Len(s) |-> s[j]] /\ \A j \in 1..Len(s) : s[j] \in B
    <3> HIDE DEF s
    <3>1. s \in Seq(Symbol)
      BY <1>2 DEF s
    <3>2. QED BY <1>1, <3>1, LenProperties, ElementOfSeq
  <2> HIDE DEF s
  <2>2. s \in Seq(B)
    BY <2>1
  <2>3. QED BY <2>2 DEF s, B

LEMMA ValueSubstitutes ==
  ASSUME NEW X, NEW supplied, NEW p \in X
  PROVE  [symbol |-> "value", index |-> ValueOf(supplied, p.key)] \in Substitutes(X, supplied)
<1>1. PICK V : V = {ValueOf(supplied, o.key) : o \in X}
  BY Zenon
<1>2. ValueOf(supplied, p.key) \in V
  BY <1>1, Zenon
<1>3. PICK v \in V : v = ValueOf(supplied, p.key)
  BY <1>2
<1>4. [symbol |-> "value", index |-> v] \in [symbol : Symbols \cup {"?", "parameter", "value"}, index : Nat \cup V]
  OBVIOUS
<1>5. QED BY <1>1, <1>3, <1>4, Zenon DEF Substitutes

LEMMA PlaceholderForm ==
  ASSUME NEW wire, NEW m \in Nat
  PROVE  /\ BindPlaceholder(wire, m) \in Symbol
         /\ IF Marked(wire) THEN BindPlaceholder(wire, m).symbol = "?"
            ELSE /\ BindPlaceholder(wire, m).symbol = "parameter"
                 /\ BindPlaceholder(wire, m).index = m
<1>1. CASE Marked(wire)
  <2>1. BindPlaceholder(wire, m) = [symbol |-> "?", index |-> 0]
    BY <1>1, Zenon DEF BindPlaceholder, Marked
  <2>2. PICK x : x = [symbol |-> "?", index |-> 0]
    OBVIOUS
  <2>3. x \in Symbol /\ x.symbol = "?"
    BY <2>2 DEF Symbol
  <2>4. QED BY <1>1, <2>1, <2>2, <2>3, Zenon
<1>2. CASE ~ Marked(wire)
  <2>1. BindPlaceholder(wire, m) = [symbol |-> "parameter", index |-> m]
    BY <1>2, Zenon DEF BindPlaceholder, Marked
  <2>2. PICK x : x = [symbol |-> "parameter", index |-> m]
    OBVIOUS
  <2>3. x \in Symbol /\ x.symbol = "parameter" /\ x.index = m
    BY <2>2 DEF Symbol
  <2>4. QED BY <1>2, <2>1, <2>2, <2>3, Zenon
<1>3. QED BY <1>1, <1>2

LEMMA SubstitutedPieceForm ==
  ASSUME NEW X, PiecesForm(X), NEW pieces \in Seq(X), NEW supplied, NEW i \in 1..Len(pieces)
  PROVE  SubstitutedPiece(pieces, supplied, i) \in Seq(Substitutes(X, supplied))
<1>1. pieces[i] \in X
  BY ElementOfSeq
<1>2. CASE pieces[i].key = Absent
  <2>1. pieces[i].text \in Seq(Symbols)
    BY <1>1 DEF PiecesForm
  <2>2. QED BY <1>2, <2>1, PlainSubstitutes DEF SubstitutedPiece
<1>3. CASE pieces[i].key # Absent
  <2>1. PICK y : y = [symbol |-> "value", index |-> ValueOf(supplied, pieces[i].key)]
    OBVIOUS
  <2>2. y \in Substitutes(X, supplied)
    BY <1>1, <2>1, ValueSubstitutes
  <2>3. SubstitutedPiece(pieces, supplied, i) = <<y>>
    BY <1>3, <2>1 DEF SubstitutedPiece
  <2>4. QED BY <2>2, <2>3
<1>4. QED BY <1>2, <1>3

LEMMA BoundPieceForm ==
  ASSUME NEW X, PiecesForm(X), NEW pieces \in Seq(X), NEW wire, NEW i \in 1..Len(pieces)
  PROVE  BoundPiece(wire, pieces, i) \in Seq(Symbol)
<1>1. pieces[i] \in X /\ i \in 0..Len(pieces)
  BY ElementOfSeq, LenProperties
<1>2. CASE pieces[i].key = Absent
  <2>1. pieces[i].text \in Seq(Symbols)
    BY <1>1 DEF PiecesForm
  <2>2. QED BY <1>2, <2>1, PlainForm DEF BoundPiece
<1>3. CASE pieces[i].key # Absent
  <2>1. PICK run : ParameterRun(run, X, pieces)
    BY ParametersRun
  <2>2. PICK m \in Nat : m = Len(Parameters(SubSeq(pieces, 1, i)))
    <3>1. run[i] \in Seq(X) /\ run[i] = Parameters(SubSeq(pieces, 1, i))
      BY <1>1, <2>1, Zenon DEF ParameterRun
    <3>2. QED BY <3>1, LenProperties
  <2>3. BindPlaceholder(wire, m) \in Symbol
    BY PlaceholderForm
  <2>4. BoundPiece(wire, pieces, i) = <<BindPlaceholder(wire, m)>>
    BY <1>3, <2>2 DEF BoundPiece
  <2>5. QED BY <2>3, <2>4
<1>4. QED BY <1>2, <1>3

(* One piece more.                                                         *)
LEMMA AlikePiece ==
  ASSUME NEW X, PiecesForm(X), NEW pieces \in Seq(X), NEW wire, NEW supplied,
         NEW run, ParameterRun(run, X, pieces), NEW k \in 1..Len(pieces),
         NEW a \in Seq(Symbol), NEW b \in Seq(Substitutes(X, supplied)),
         Alike(a, b, Bound(pieces, supplied), Marked(wire), Len(run[k - 1]))
  PROVE  Alike(a \o BoundPiece(wire, pieces, k), b \o SubstitutedPiece(pieces, supplied, k),
               Bound(pieces, supplied), Marked(wire), Len(run[k]))
<1> DEFINE B == Substitutes(X, supplied)
           params == Bound(pieces, supplied)
<1>1. /\ pieces[k] \in X /\ k - 1 \in 0..Len(pieces) /\ k \in 0..Len(pieces)
      /\ Len(pieces) \in 0..Len(pieces)
  BY ElementOfSeq, LenProperties
<1>2. /\ run[k - 1] \in Seq(X) /\ run[k] \in Seq(X)
      /\ run[k] = IF pieces[k].key = Absent THEN run[k - 1] ELSE Append(run[k - 1], pieces[k])
      /\ run[k] = Parameters(SubSeq(pieces, 1, k))
      /\ Len(run[k]) <= Len(run[Len(pieces)])
      /\ \A j \in 1..Len(run[k]) : run[Len(pieces)][j] = run[k][j]
      /\ run[Len(pieces)] \in Seq(X)
      /\ run[Len(pieces)] = Parameters(pieces)
  BY <1>1, Zenon DEF ParameterRun
<1>3. CASE pieces[k].key = Absent
  <2>1. PICK t \in Seq(Symbols) : t = pieces[k].text
    BY <1>1 DEF PiecesForm
  <2>2. BoundPiece(wire, pieces, k) = Plain(t) /\ SubstitutedPiece(pieces, supplied, k) = Plain(t)
    BY <1>3, <2>1 DEF BoundPiece, SubstitutedPiece
  <2>3. run[k] = run[k - 1]
    BY <1>2, <1>3
  <2>4. Plain(t) \in Seq(B)
    BY PlainSubstitutes
  <2>5. Alike(a \o Plain(t), b \o Plain(t), params, Marked(wire), Len(run[k - 1]))
    BY ONLY <2>4, AlikeText, a \in Seq(Symbol), b \in Seq(B), t \in Seq(Symbols),
            Alike(a, b, params, Marked(wire), Len(run[k - 1]))
  <2>6. QED BY <2>2, <2>3, <2>5
<1>4. CASE pieces[k].key # Absent
  <2>1. PICK count \in Nat : count = Len(run[k - 1])
    BY <1>2, LenProperties
  <2>2. Len(run[k]) = count + 1 /\ run[k][count + 1] = pieces[k]
    <3>1. run[k] = Append(run[k - 1], pieces[k])
      BY <1>2, <1>4
    <3>2. QED BY <1>1, <1>2, <2>1, <3>1, AppendProperties
  <2>3. PICK x : x = BindPlaceholder(wire, count + 1)
    OBVIOUS
  <2>4. PICK y : y = [symbol |-> "value", index |-> ValueOf(supplied, pieces[k].key)]
    OBVIOUS
  <2>5. BoundPiece(wire, pieces, k) = <<x>>
    BY <1>2, <1>4, <2>2, <2>3 DEF BoundPiece
  <2>6. SubstitutedPiece(pieces, supplied, k) = <<y>>
    BY <1>4, <2>4 DEF SubstitutedPiece
  <2>7. x \in Symbol /\ IF Marked(wire) THEN x.symbol = "?"
                        ELSE x.symbol = "parameter" /\ x.index = count + 1
    BY <2>3, PlaceholderForm
  <2>8. y \in B
    BY <1>1, <2>4, ValueSubstitutes
  <2>9. params[count + 1] = ValueOf(supplied, pieces[k].key)
    <3>1. PICK found \in Seq(X) : found = Parameters(pieces) /\ found = run[Len(pieces)]
      BY <1>2
    <3>2. count + 1 \in 1..Len(found) /\ found[count + 1] = pieces[k]
      <4>1. Len(found) \in Nat /\ count + 1 <= Len(found) /\ count + 1 \in 1..Len(run[k])
        BY <1>2, <2>2, <3>1, LenProperties
      <4>2. QED BY <1>2, <2>2, <3>1, <4>1
    <3>3. DOMAIN found = 1..Len(found)
      BY LenProperties
    <3>4. params = [i \in 1..Len(found) |-> ValueOf(supplied, found[i].key)]
      BY <3>1, <3>3 DEF Bound
    <3>5. QED BY <3>2, <3>4
  <2>10. y = [symbol |-> "value", index |-> params[count + 1]]
    BY <2>4, <2>9
  <2>11. Alike(a, b, params, Marked(wire), count) /\ Marked(wire) \in BOOLEAN
    BY <2>1 DEF Marked
  <2> HIDE DEF B, params
  <2>12. Alike(a \o <<x>>, b \o <<y>>, params, Marked(wire), count + 1)
    <3>1. a \in Seq(Symbol) /\ b \in Seq(B)
      BY DEF B
    <3>2. QED BY ONLY <2>7, <2>8, <2>10, <2>11, <3>1, count \in Nat, AlikePlaceholder
  <2>13. QED BY <2>2, <2>5, <2>6, <2>12 DEF params
<1>5. QED BY <1>3, <1>4

LEMMA AlikeNothing ==
  ASSUME NEW params, NEW marked
  PROVE  Alike(<<>>, <<>>, params, marked, 0)
<1>1. Len(<<>>) = 0 /\ 1..0 = {}
  OBVIOUS
<1>2. Marks(<<>>, 0) = {}
  BY <1>1 DEF Marks
<1>3. Cardinality({}) = 0
  BY FS_EmptySet
<1>4. QED BY <1>1, <1>2, <1>3 DEF Alike

(* All pieces.                                                             *)
LEMMA AllAlike ==
  ASSUME NEW X, PiecesForm(X), NEW pieces \in Seq(X), NEW wire, NEW supplied,
         NEW bound, bound = [i \in 1..Len(pieces) |-> BoundPiece(wire, pieces, i)],
         NEW substituted,
         substituted = [i \in 1..Len(pieces) |-> SubstitutedPiece(pieces, supplied, i)]
  PROVE  \E count : /\ Alike(FlattenSeq(bound), FlattenSeq(substituted),
                             Bound(pieces, supplied), Marked(wire), count)
                    /\ FlattenSeq(bound) \in Seq(Symbol)
                    /\ FlattenSeq(substituted) \in Seq(Substitutes(X, supplied))
<1> DEFINE n == Len(pieces)
           B == Substitutes(X, supplied)
           params == Bound(pieces, supplied)
<1>1. n \in Nat
  BY LenProperties
<1>2. bound \in Seq(Seq(Symbol)) /\ Len(bound) = n
      /\ \A i \in 1..n : bound[i] = BoundPiece(wire, pieces, i)
  <2>1. \A i \in 1..n : BoundPiece(wire, pieces, i) \in Seq(Symbol)
    BY BoundPieceForm
  <2>2. QED BY <1>1, <2>1
<1>3. substituted \in Seq(Seq(B)) /\ Len(substituted) = n
      /\ \A i \in 1..n : substituted[i] = SubstitutedPiece(pieces, supplied, i)
  <2>1. \A i \in 1..n : SubstitutedPiece(pieces, supplied, i) \in Seq(B)
    BY SubstitutedPieceForm
  <2> HIDE DEF B
  <2>2. QED BY <1>1, <2>1
<1>4. PICK run : ParameterRun(run, X, pieces)
  BY ParametersRun
<1>5. FlattenSeq(bound) \in Seq(Symbol) /\ FlattenSeq(substituted) \in Seq(B)
  <2> HIDE DEF B
  <2>1. QED BY <1>2, <1>3, FlattenElements
<1>6. CASE n = 0
  <2>1. FlattenSeq(bound) = <<>> /\ FlattenSeq(substituted) = <<>>
    <3>1. FlattenSeq(bound) = bound /\ FlattenSeq(substituted) = substituted
      BY <1>2, <1>3, <1>6 DEF FlattenSeq
    <3>2. bound = <<>> /\ substituted = <<>>
      BY <1>6
    <3>3. QED BY <3>1, <3>2
  <2>2. QED BY <1>5, <2>1, AlikeNothing
<1>7. CASE n > 0
  <2>1. PICK g : Flattens(g, substituted, n) /\ FlattenSeq(substituted) = g[n]
    <3>1. Len(substituted) \in Nat \ {0}
      BY <1>1, <1>3, <1>7
    <3>2. QED BY <1>3, <3>1, FlattenIsLast
  <2>2. /\ g[1] = substituted[1]
        /\ \A i \in 1..n : i # 1 => i - 1 \in 1..n /\ g[i] = g[i - 1] \o substituted[i]
    <3> HIDE DEF n
    <3>1. /\ n > 0 => g[1] = substituted[1]
          /\ \A i \in 1..n : i # 1 => i - 1 \in 1..n /\ g[i] = g[i - 1] \o substituted[i]
      BY ONLY <1>1, <2>1, FlattenSteps, Zenon
    <3>2. QED BY <1>7, <3>1
  <2> DEFINE G == {x \in (1..n) \X Seq(Symbol) :
                     g[x[1]] \in Seq(B)
                     /\ Alike(x[2], g[x[1]], params, Marked(wire), Len(run[x[1]]))}
  <2>3. <<1, bound[1]>> \in G
    <3>1. 1 \in 1..n /\ bound[1] \in Seq(Symbol) /\ substituted[1] \in Seq(B)
      <4> HIDE DEF B
      <4>1. QED BY <1>1, <1>2, <1>3, <1>7, ElementOfSeq
    <3>2. <<>> \in Seq(Symbol) /\ <<>> \in Seq(B) /\ 1 - 1 = 0
      OBVIOUS
    <3>3. Alike(<<>>, <<>>, params, Marked(wire), Len(run[1 - 1]))
      <4>1. run[1 - 1] = <<>> /\ Len(<<>>) = 0
        BY <1>4, <3>2 DEF ParameterRun
      <4>2. QED BY <4>1, AlikeNothing
    <3>4. Alike(<<>> \o BoundPiece(wire, pieces, 1), <<>> \o SubstitutedPiece(pieces, supplied, 1),
                params, Marked(wire), Len(run[1]))
      BY <1>4, <3>1, <3>2, <3>3, AlikePiece
    <3>5. <<>> \o bound[1] = bound[1] /\ <<>> \o substituted[1] = substituted[1]
      <4> HIDE DEF B
      <4>1. QED BY <3>1, ConcatEmptySeq
    <3>6. Alike(bound[1], substituted[1], params, Marked(wire), Len(run[1]))
      BY <1>2, <1>3, <3>1, <3>4, <3>5
    <3> HIDE DEF B, params
    <3>7. QED BY <2>2, <3>1, <3>6
  <2>4. ASSUME NEW k \in 1..n, NEW r \in Seq(Symbol), k # 1, <<k - 1, r>> \in G
        PROVE  <<k, r \o bound[k]>> \in G
    <3>1. g[k - 1] \in Seq(B) /\ Alike(r, g[k - 1], params, Marked(wire), Len(run[k - 1]))
      <4> HIDE DEF B, params
      <4>1. QED BY <2>4
    <3>2. Alike(r \o BoundPiece(wire, pieces, k), g[k - 1] \o SubstitutedPiece(pieces, supplied, k),
                params, Marked(wire), Len(run[k]))
      BY <1>4, <3>1, AlikePiece
    <3>3. bound[k] \in Seq(Symbol) /\ substituted[k] \in Seq(B) /\ g[k] = g[k - 1] \o substituted[k]
      <4> HIDE DEF B
      <4>1. QED BY <1>2, <1>3, <2>2, <2>4, ElementOfSeq
    <3>4. Alike(r \o bound[k], g[k], params, Marked(wire), Len(run[k]))
      BY <1>2, <1>3, <3>2, <3>3
    <3>5. r \o bound[k] \in Seq(Symbol) /\ g[k] \in Seq(B)
      <4> HIDE DEF B
      <4>1. QED BY <3>1, <3>3, ConcatProperties
    <3> HIDE DEF B, params
    <3>6. QED BY <3>4, <3>5
  <2>5. <<n, FlattenSeq(bound)>> \in G
    <3> HIDE DEF G
    <3>1. QED BY <1>2, <1>7, <2>3, <2>4, FlattenInduction
  <2>6. Alike(FlattenSeq(bound), g[n], params, Marked(wire), Len(run[n]))
    <3> HIDE DEF B, params
    <3>1. QED BY <2>5
  <2>7. QED BY <1>5, <2>1, <2>6
<1>8. n = 0 \/ n > 0
  BY <1>1
<1>9. QED BY <1>6, <1>7, <1>8, Zenon

LEMMA RewrittenIsFlat ==
  ASSUME NEW X, NEW pieces \in Seq(X), NEW wire
  PROVE  \E bound : /\ bound = [i \in 1..Len(pieces) |-> BoundPiece(wire, pieces, i)]
                    /\ Rewritten(wire, pieces) = FlattenSeq(bound)
<1>1. DOMAIN pieces = 1..Len(pieces)
  BY LenProperties
<1>2. QED BY <1>1, Zenon DEF Rewritten, BoundPiece

LEMMA SubstitutedIsFlat ==
  ASSUME NEW X, NEW q, q.pieces \in Seq(X)
  PROVE  \E substituted :
           /\ substituted = [i \in 1..Len(q.pieces) |-> SubstitutedPiece(q.pieces, q.supplied, i)]
           /\ Substituted(q) = FlattenSeq(substituted)
<1>1. DOMAIN q.pieces = 1..Len(q.pieces)
  BY LenProperties
<1>2. QED BY <1>1, Zenon DEF Substituted, SubstitutedPiece

(* From Alike to Evaluated.                                                *)
LEMMA EvaluatedAlike ==
  ASSUME NEW a \in Seq(Symbol), NEW B, NEW b \in Seq(B), NEW params, NEW marked, NEW count,
         Alike(a, b, params, marked, count)
  PROVE  Evaluated([sql |-> a, params |-> params]) = b
<1>1. PICK prepared : prepared = [sql |-> a, params |-> params]
  OBVIOUS
<1>2. prepared.sql = a /\ prepared.params = params
  BY <1>1
<1>3. Evaluated(prepared) = [j \in DOMAIN a |-> Evaluate(a, params, j)]
  BY <1>2, Zenon DEF Evaluated, Evaluate, Marks
<1>4. DOMAIN a = 1..Len(a) /\ DOMAIN b = 1..Len(a) /\ b = [j \in DOMAIN b |-> b[j]]
  BY LenProperties DEF Alike
<1>5. \A j \in 1..Len(a) : Evaluate(a, params, j) = b[j]
  BY Zenon DEF Alike
<1>6. [j \in DOMAIN a |-> Evaluate(a, params, j)] = [j \in DOMAIN b |-> b[j]]
  BY <1>4, <1>5, Zenon
<1>7. QED BY <1>1, <1>3, <1>4, <1>6

(* A query without a placeholder is sent as it is.                         *)
LEMMA NoPlaceholders ==
  ASSUME NEW X, PiecesForm(X), NEW pieces \in Seq(X), NEW wire, Parameters(pieces) = <<>>
  PROVE  Plain(SqlOf(pieces)) = Rewritten(wire, pieces)
<1> DEFINE n == Len(pieces)
           F == [x \in Symbols |-> [symbol |-> x, index |-> 0]]
<1>1. n \in Nat /\ DOMAIN pieces = 1..n /\ \A i \in 1..n : pieces[i] \in X /\ i \in 0..n
  BY LenProperties, ElementOfSeq
<1>2. PICK run : ParameterRun(run, X, pieces)
  BY ParametersRun
<1>3. ASSUME NEW i \in 1..n PROVE pieces[i].key = Absent
  <2>1. SUFFICES ASSUME pieces[i].key # Absent PROVE FALSE
    OBVIOUS
  <2>2. i - 1 \in 0..n /\ i \in 0..n
    BY <1>1
  <2>3. run[i] = Append(run[i - 1], pieces[i]) /\ run[i - 1] \in Seq(X)
    BY <1>2, <2>1, <2>2 DEF ParameterRun
  <2>4. Len(run[i]) = Len(run[i - 1]) + 1 /\ Len(run[i - 1]) \in Nat
    BY <1>1, <2>3, AppendProperties, LenProperties
  <2>5. Len(run[i]) <= Len(run[n]) /\ run[n] = <<>>
    BY <1>2, <2>2 DEF ParameterRun
  <2>6. Len(<<>>) = 0
    OBVIOUS
  <2>7. QED BY <2>4, <2>5, <2>6
<1>4. PICK texts : texts = [i \in 1..n |-> pieces[i].text]
  OBVIOUS
<1>5. /\ texts \in Seq(Seq(Symbols)) /\ Len(texts) = n
      /\ \A i \in 1..n : texts[i] = pieces[i].text /\ texts[i] \in Seq(Symbols)
  <2>1. \A i \in 1..n : pieces[i].text \in Seq(Symbols)
    BY <1>1 DEF PiecesForm
  <2>2. QED BY <1>1, <1>4, <2>1
<1>6. SqlOf(pieces) = FlattenSeq(texts)
  BY <1>1, <1>4, Zenon DEF SqlOf
<1>7. PICK bound : /\ bound = [i \in 1..n |-> BoundPiece(wire, pieces, i)]
                   /\ Rewritten(wire, pieces) = FlattenSeq(bound)
  BY RewrittenIsFlat
<1>8. ASSUME NEW t \in Seq(Symbols) PROVE Plain(t) = Mapped(F, t)
  <2>1. DOMAIN t = 1..Len(t) /\ \A j \in 1..Len(t) : t[j] \in Symbols
    BY LenProperties, ElementOfSeq
  <2>2. \A j \in DOMAIN t : F[t[j]] = [symbol |-> t[j], index |-> 0]
    BY <2>1, Zenon
  <2> HIDE DEF F
  <2>3. QED BY <2>2, Zenon DEF Plain, Mapped
<1> HIDE DEF F
<1>9. \A i \in 1..n : bound[i] = Mapped(F, texts[i])
  <2>1. ASSUME NEW i \in 1..n PROVE bound[i] = Mapped(F, texts[i])
    <3>1. bound[i] = Plain(texts[i])
      BY <1>3, <1>5, <1>7 DEF BoundPiece
    <3>2. QED BY <1>5, <1>8, <3>1
  <2>2. QED BY <2>1
<1>10. Len(bound) = n /\ (n = 0 => bound = <<>>)
  BY <1>1, <1>7
<1>11. Mapped(F, FlattenSeq(texts)) = FlattenSeq(bound)
  BY <1>5, <1>9, <1>10, FlattenMapped
<1>12. FlattenSeq(texts) \in Seq(Symbols)
  BY <1>5, FlattenElements
<1>13. Plain(FlattenSeq(texts)) = Mapped(F, FlattenSeq(texts))
  BY <1>8, <1>12
<1>14. QED BY <1>6, <1>7, <1>11, <1>13

LEMMA BoundForm ==
  ASSUME NEW X, NEW pieces \in Seq(X), NEW supplied
  PROVE  /\ Parameters(pieces) \in Seq(X)
         /\ Len(Bound(pieces, supplied)) = Len(Parameters(pieces))
         /\ DOMAIN Bound(pieces, supplied) = 1..Len(Parameters(pieces))
         /\ \A i \in 1..Len(Parameters(pieces)) :
              Bound(pieces, supplied)[i] = ValueOf(supplied, Parameters(pieces)[i].key)
         /\ Parameters(pieces) = <<>> => Bound(pieces, supplied) = <<>>
<1>1. PICK run : ParameterRun(run, X, pieces)
  BY ParametersRun
<1>2. PICK found \in Seq(X) : found = Parameters(pieces)
  <2>1. Len(pieces) \in 0..Len(pieces)
    BY LenProperties
  <2>2. QED BY <1>1, <2>1 DEF ParameterRun
<1>3. DOMAIN found = 1..Len(found) /\ Len(found) \in Nat
  BY LenProperties
<1>4. Bound(pieces, supplied) = [i \in 1..Len(found) |-> ValueOf(supplied, found[i].key)]
  BY <1>2, <1>3, Zenon DEF Bound
<1>5. PICK bound : bound = [i \in 1..Len(found) |-> ValueOf(supplied, found[i].key)]
  OBVIOUS
<1>6. /\ Len(bound) = Len(found) /\ DOMAIN bound = 1..Len(found)
      /\ \A i \in 1..Len(found) : bound[i] = ValueOf(supplied, found[i].key)
      /\ found = <<>> => bound = <<>>
  BY <1>3, <1>5
<1>7. QED BY <1>2, <1>4, <1>5, <1>6

LEMMA PreparedAsSupplied ==
  ASSUME NEW X, PiecesForm(X), NEW q, q.pieces \in Seq(X), NEW prepared,
         prepared = PrepareQuery(q.wire, q.pieces, q.supplied), prepared # Absent
  PROVE  /\ Len(prepared.params) = Len(Parameters(q.pieces))
         /\ Evaluated(prepared) = Substituted(q)
<1> DEFINE params == Bound(q.pieces, q.supplied)
           sql == Rewritten(q.wire, q.pieces)
<1>1. prepared = [sql |-> sql, params |-> params]
  <2>1. CASE Parameters(q.pieces) = <<>>
    <3>1. prepared = [sql |-> Plain(SqlOf(q.pieces)), params |-> <<>>]
      BY <2>1, Zenon DEF PrepareQuery
    <3>2. params = <<>>
      BY <2>1, BoundForm
    <3>3. Plain(SqlOf(q.pieces)) = sql
      BY <2>1, NoPlaceholders
    <3>4. QED BY <3>1, <3>2, <3>3
  <2>2. CASE Parameters(q.pieces) # <<>>
    BY <2>2, Zenon DEF PrepareQuery
  <2>3. QED BY <2>1, <2>2
<1>2. PICK bound : /\ bound = [i \in 1..Len(q.pieces) |-> BoundPiece(q.wire, q.pieces, i)]
                   /\ sql = FlattenSeq(bound)
  BY RewrittenIsFlat
<1>3. PICK substituted :
        /\ substituted = [i \in 1..Len(q.pieces) |-> SubstitutedPiece(q.pieces, q.supplied, i)]
        /\ Substituted(q) = FlattenSeq(substituted)
  BY SubstitutedIsFlat
<1>4. PICK count : /\ Alike(FlattenSeq(bound), FlattenSeq(substituted), params, Marked(q.wire), count)
                   /\ FlattenSeq(bound) \in Seq(Symbol)
                   /\ FlattenSeq(substituted) \in Seq(Substitutes(X, q.supplied))
  BY <1>2, <1>3, AllAlike
<1>5. Len(params) = Len(Parameters(q.pieces))
  BY BoundForm
<1> HIDE DEF params, sql
<1>6. Evaluated([sql |-> sql, params |-> params]) = Substituted(q)
  BY <1>2, <1>3, <1>4, EvaluatedAlike
<1>7. prepared.params = params
  BY <1>1
<1>8. QED BY <1>1, <1>5, <1>6, <1>7

LEMMA QueryPieces ==
  ASSUME NEW q \in Queries
  PROVE  \E X : /\ X = Range(q.pieces) /\ q.pieces \in Seq(X) /\ PiecesForm(X)
                /\ Absent \notin Seq([key : {p.key : p \in X}, value : Nat])
BY QueryAssumption, Zenon DEF PiecesForm

(* Whatever the placeholders of a dialect look like and however many a     *)
(* query has, the server puts the value supplied for a key in each place   *)
(* of that key, and no parameter is left over (prepare_query).             *)
THEOREM ParametersAreBound == Spec => []BoundAsSupplied
<1>1. Answered => BoundAsSupplied
  <2> SUFFICES ASSUME Answered, Returned("query"), output.prepared # Absent
               PROVE  /\ Len(output.prepared.params) = Len(Parameters(input.pieces))
                      /\ Evaluated(output.prepared) = Substituted(input)
    BY Zenon DEF BoundAsSupplied
  <2>1. /\ input \in Queries
        /\ output = [prompts |-> PromptSet(input.pieces),
                     prepared |-> PrepareQuery(input.wire, input.pieces, input.supplied)]
    BY DEF Answered, Returned
  <2>2. output.prepared = PrepareQuery(input.wire, input.pieces, input.supplied)
    BY <2>1
  <2>3. PICK X : input.pieces \in Seq(X) /\ PiecesForm(X)
    BY <2>1, QueryPieces
  <2>4. QED BY ONLY <2>2, <2>3, PreparedAsSupplied, output.prepared # Absent
<1>2. QED
  BY <1>1, InitAnswered, NextAnswered, PTL DEF Spec

-----------------------------------------------------------------------------
(* The splitter's lexer.                                                   *)

(* The symbols of a text. *)
LEMMA TextForm ==
  ASSUME NEW text \in Seq(Symbols)
  PROVE  /\ Len(text) \in Nat
         /\ \A i \in 1..Len(text) : text[i] \in Symbols /\ At(text, i) = text[i]
         /\ \A i : i \notin 1..Len(text) => At(text, i) = Absent
         /\ Absent \notin Symbols /\ Absent \notin Seq(Symbols)
<1>1. Len(text) \in Nat /\ DOMAIN text = 1..Len(text)
  OBVIOUS
<1>2. \A i \in 1..Len(text) : text[i] \in Symbols
  BY ElementOfSeq
<1>3. Absent \notin Symbols /\ Absent \notin Seq(Symbols)
  BY TextAssumption
<1>4. QED BY <1>1, <1>2, <1>3 DEF At

LEMMA BeginsIs ==
  ASSUME NEW text \in Seq(Symbols), NEW prefix \in Seq(Symbols), NEW i \in Nat, i > 0
  PROVE  Begins(text, i, prefix) <=>
           /\ i + Len(prefix) - 1 <= Len(text)
           /\ \A k \in 1..Len(prefix) : text[i + k - 1] = prefix[k]
<1>1. Len(text) \in Nat /\ Len(prefix) \in Nat
  OBVIOUS
<1>2. SUFFICES ASSUME i + Len(prefix) - 1 <= Len(text)
               PROVE  SubSeq(text, i, i + Len(prefix) - 1) = prefix <=>
                        \A k \in 1..Len(prefix) : text[i + k - 1] = prefix[k]
  BY DEF Begins
<1>3. PICK u : u = SubSeq(text, i, i + Len(prefix) - 1)
  OBVIOUS
<1>4. /\ u \in Seq(Symbols) /\ Len(u) = Len(prefix)
      /\ \A k \in 1..Len(prefix) : u[k] = text[i + k - 1]
  BY <1>1, <1>2, <1>3
<1>5. u = prefix <=> \A k \in 1..Len(prefix) : u[k] = prefix[k]
  BY <1>4, SeqEqual
<1>6. QED BY <1>3, <1>4, <1>5

LEMMA BeginsTwo ==
  ASSUME NEW text \in Seq(Symbols), NEW a \in Symbols, NEW b \in Symbols, NEW i \in Nat, i > 0
  PROVE  Begins(text, i, <<a, b>>) <=> i + 1 <= Len(text) /\ text[i] = a /\ text[i + 1] = b
<1>1. PICK p : p = <<a, b>>
  OBVIOUS
<1>2. p \in Seq(Symbols) /\ Len(p) = 2 /\ p[1] = a /\ p[2] = b
  BY <1>1
<1>3. Len(text) \in Nat
  OBVIOUS
<1>4. Begins(text, i, p) <=>
        i + Len(p) - 1 <= Len(text) /\ \A k \in 1..Len(p) : text[i + k - 1] = p[k]
  BY <1>2, BeginsIs
<1>5. (\A k \in 1..2 : text[i + k - 1] = p[k]) <=> text[i] = a /\ text[i + 1] = b
  <2>1. i + 1 - 1 = i /\ i + 2 - 1 = i + 1 /\ 1 \in 1..2 /\ 2 \in 1..2
    OBVIOUS
  <2>2. \A k \in 1..2 : k = 1 \/ k = 2
    OBVIOUS
  <2>3. QED BY <1>2, <2>1, <2>2
<1>6. QED BY <1>1, <1>2, <1>3, <1>4, <1>5

LEMMA LineComment ==
  ASSUME NEW text \in Seq(Symbols), NEW i \in 1..Len(text)
  PROVE  IsFirst(SkipLineComment(text, i), {j \in (i + 2)..Len(text) : text[j] = "nl"}, Len(text))
<1>1. Len(text) \in Nat /\ i + 2 \in Nat
  OBVIOUS
<1>2. PICK found : found = {j \in (i + 2)..Len(text) : text[j] = "nl"}
  OBVIOUS
<1>3. SkipLineComment(text, i) =
        IF found = {} THEN Len(text) + 1 ELSE Min(found)
  BY <1>2, Zenon DEF SkipLineComment, First
<1>4. found \in SUBSET ((i + 2)..Len(text))
  BY <1>2
<1>5. QED BY <1>1, <1>2, <1>3, <1>4, FirstOf

LEMMA BlockComment ==
  ASSUME NEW text \in Seq(Symbols), NEW i \in 1..Len(text)
  PROVE  \E f : /\ SkipBlockComment(text, i) = f + 1
                /\ IsFirst(f, {j \in (i + 2)..Len(text) : Begins(text, j, <<"*", "/">>)}, Len(text))
<1>1. Len(text) \in Nat /\ i + 2 \in Nat
  OBVIOUS
<1>2. PICK found : found = {j \in (i + 2)..Len(text) : Begins(text, j, <<"*", "/">>)}
  OBVIOUS
<1>3. PICK f : f = IF found = {} THEN Len(text) + 1 ELSE Min(found)
  OBVIOUS
<1>4. SkipBlockComment(text, i) = f + 1
  BY <1>2, <1>3, Zenon DEF SkipBlockComment, First
<1>5. found \in SUBSET ((i + 2)..Len(text))
  BY <1>2
<1>6. IsFirst(f, found, Len(text))
  BY <1>1, <1>3, <1>5, FirstOf
<1>7. QED BY <1>2, <1>4, <1>6

(* The first position from i on that is no part of a word. *)
LEMMA WordEndIs ==
  ASSUME NEW text \in Seq(Symbols), NEW i \in 1..(Len(text) + 1)
  PROVE  IsFirst(WordEnd(text, i), {j \in i..Len(text) : text[j] \notin WordSymbols}, Len(text))
<1>1. Len(text) \in Nat /\ i \in Nat
  OBVIOUS
<1>2. PICK found : found = {j \in i..Len(text) : text[j] \notin WordSymbols}
  OBVIOUS
<1>3. WordEnd(text, i) =
        IF found = {} THEN Len(text) + 1 ELSE Min(found)
  BY <1>2, Zenon DEF WordEnd, First
<1>4. found \in SUBSET (i..Len(text))
  BY <1>2
<1>5. QED BY <1>1, <1>2, <1>3, <1>4, FirstOf

LEMMA DollarTag ==
  ASSUME NEW text \in Seq(Symbols), NEW i \in 1..Len(text)
  PROVE  DollarTagAt(text, i) = IF At(text, WordEnd(text, i + 1)) = "$"
                                THEN SubSeq(text, i, WordEnd(text, i + 1)) ELSE Absent
BY Zenon DEF DollarTagAt, WordEnd

(* Where a tag occurs again. *)
LEMMA TagAgain ==
  ASSUME NEW text \in Seq(Symbols), NEW i \in 1..Len(text), NEW tag \in Seq(Symbols)
  PROVE  IsFirst(TagAfter(text, i, tag),
                 {j \in (i + Len(tag))..Len(text) : Begins(text, j, tag)}, Len(text))
<1>1. Len(text) \in Nat /\ i + Len(tag) \in Nat
  OBVIOUS
<1>2. PICK found : found = {j \in (i + Len(tag))..Len(text) : Begins(text, j, tag)}
  OBVIOUS
<1>3. TagAfter(text, i, tag) =
        IF found = {} THEN Len(text) + 1 ELSE Min(found)
  BY <1>2, Zenon DEF TagAfter, First
<1>4. found \in SUBSET ((i + Len(tag))..Len(text))
  BY <1>2
<1>5. QED BY <1>1, <1>2, <1>3, <1>4, FirstOf

(* close follows the text from each position to the quote that ends it.    *)
Closes(f, text, q) ==
  f = [j \in 1..(Len(text) + 2) |->
        IF j > Len(text) THEN j
        ELSE IF text[j] # q THEN f[j + 1]
        ELSE IF At(text, j + 1) = q THEN f[j + 2]
        ELSE j]

LEMMA ClosesExists ==
  ASSUME NEW text \in Seq(Symbols), NEW q \in Symbols
  PROVE  \E f : Closes(f, text, q)
<1> PICK n \in Nat : n = Len(text)
  BY TextForm
<1> DEFINE I == 1..(n + 2)
           stop == {j \in I : j > n \/ (text[j] = q /\ At(text, j + 1) # q)}
           next == [j \in I |-> IF text[j] # q THEN j + 1 ELSE j + 2]
           rank == [j \in I |-> n + 2 - j]
           base == [j \in I |-> j]
<1>1. \A j \in I : rank[j] \in Nat /\ rank[j] < n + 3
  OBVIOUS
<1>2. ASSUME NEW j \in I, j \notin stop
      PROVE  next[j] \in I /\ rank[next[j]] < rank[j]
  <2>1. ~ (j > n) /\ ~ (text[j] = q /\ At(text, j + 1) # q)
    BY <1>2
  <2>2. next[j] = IF text[j] # q THEN j + 1 ELSE j + 2
    OBVIOUS
  <2>3. j \in 1..n /\ j + 1 \in I /\ j + 2 \in I
    BY <2>1
  <2>4. rank[j + 1] < rank[j] /\ rank[j + 2] < rank[j]
    BY <2>3
  <2>5. QED BY <2>2, <2>3, <2>4
<1>3. n + 3 \in Nat
  OBVIOUS
<1>4. \A j \in I : /\ j \in stop <=> j > n \/ (text[j] = q /\ At(text, j + 1) # q)
                   /\ base[j] = j
                   /\ next[j] = IF text[j] # q THEN j + 1 ELSE j + 2
  OBVIOUS
<1>5. I = 1..(Len(text) + 2)
  OBVIOUS
<1> HIDE DEF I, stop, next, rank, base
<1>6. PICK f : Jumps(f, I, stop, base, I, base, next)
  BY <1>1, <1>2, <1>3, JumpsExist
<1>7. f = [j \in I |-> IF j \in stop THEN base[j]
                       ELSE IF j \in I THEN f[next[j]] ELSE base[j] \o f[next[j]]]
  BY <1>6, Zenon DEF Jumps
<1>8. ASSUME NEW j \in I
      PROVE  (IF j \in stop THEN base[j]
              ELSE IF j \in I THEN f[next[j]] ELSE base[j] \o f[next[j]]) =
             (IF j > n THEN j
              ELSE IF text[j] # q THEN f[j + 1]
              ELSE IF At(text, j + 1) = q THEN f[j + 2]
              ELSE j)
  <2>1. CASE j > n
    BY <1>4, <2>1
  <2>2. CASE ~ (j > n) /\ text[j] # q
    BY <1>4, <2>2
  <2>3. CASE ~ (j > n) /\ text[j] = q /\ At(text, j + 1) = q
    BY <1>4, <2>3
  <2>4. CASE ~ (j > n) /\ text[j] = q /\ At(text, j + 1) # q
    BY <1>4, <2>4
  <2>5. QED BY <2>1, <2>2, <2>3, <2>4
<1>9. f = [j \in I |->
        IF j > n THEN j
        ELSE IF text[j] # q THEN f[j + 1]
        ELSE IF At(text, j + 1) = q THEN f[j + 2]
        ELSE j]
  BY <1>7, <1>8, Zenon
<1>10. QED BY <1>5, <1>9, Zenon DEF Closes

(* skip_repeated_quote starts it behind the quote that opens.              *)
LEMMA CloseForm ==
  ASSUME NEW text \in Seq(Symbols), NEW i \in 1..Len(text)
  PROVE  \E f : /\ Closes(f, text, text[i])
                /\ SkipRepeatedQuote(text, i) = f[i + 1]
<1> PICK q \in Symbols : q = text[i]
  BY TextForm
<1> DEFINE F == CHOOSE f : Closes(f, text, q)
<1>1. Closes(F, text, q)
  BY ClosesExists
<1>2. SkipRepeatedQuote(text, i) = F[i + 1]
  BY Zenon DEF SkipRepeatedQuote, Closes
<1>3. QED BY <1>1, <1>2

(* What it finds. *)
LEMMA CloseSteps ==
  ASSUME NEW text \in Seq(Symbols), NEW q, NEW f, Closes(f, text, q)
  PROVE  /\ f[Len(text) + 1] = Len(text) + 1 /\ f[Len(text) + 2] = Len(text) + 2
         /\ \A j \in 1..Len(text) :
              /\ text[j] # q => f[j] = f[j + 1]
              /\ text[j] = q /\ At(text, j + 1) = q => f[j] = f[j + 2]
              /\ text[j] = q /\ At(text, j + 1) # q => f[j] = j
<1> PICK n \in Nat : n = Len(text)
  BY TextForm
<1>1. \A j \in 1..(n + 2) : f[j] = IF j > n THEN j
                                   ELSE IF text[j] # q THEN f[j + 1]
                                   ELSE IF At(text, j + 1) = q THEN f[j + 2]
                                   ELSE j
  BY Zenon DEF Closes
<1>2. /\ n + 1 \in 1..(n + 2) /\ n + 2 \in 1..(n + 2) /\ n + 1 > n /\ n + 2 > n
      /\ \A j \in 1..n : j \in 1..(n + 2) /\ ~ (j > n)
  OBVIOUS
<1>3. QED BY <1>1, <1>2

LEMMA CloseRange ==
  ASSUME NEW text \in Seq(Symbols), NEW q, NEW f, Closes(f, text, q)
  PROVE  \A j \in 1..(Len(text) + 2) : f[j] \in j..(Len(text) + 2)
<1> PICK n \in Nat : n = Len(text)
  BY TextForm
<1> DEFINE G == {j \in 1..(n + 2) : f[j] \in j..(n + 2)}
<1>1. n + 1 \in G /\ n + 2 \in G
  BY CloseSteps
<1>2. ASSUME NEW j \in 1..n, j + 1 \in G, j + 2 \in G
      PROVE  j \in G
  <2>1. f[j + 1] \in (j + 1)..(n + 2) /\ f[j + 2] \in (j + 2)..(n + 2)
    BY <1>2
  <2>2. f[j] = f[j + 1] \/ f[j] = f[j + 2] \/ f[j] = j
    BY CloseSteps
  <2>3. f[j] \in j..(n + 2)
    BY <2>1, <2>2
  <2>4. QED BY <2>3
<1> HIDE DEF G
<1>3. \A j \in 1..(n + 2) : j \in G
  BY <1>1, <1>2, Downwards
<1>4. QED BY <1>3 DEF G

(* A dollar sign: without a tag, or with one that does not come again, it  *)
(* is passed over.                                                         *)
Tagged(text, i, e) == SubSeq(text, i, e)
OnDollar(text, i, e, tag, g) ==
  /\ e \in (i + 1)..(Len(text) + 1)
  /\ At(text, e) # "$" => SkipDollarQuoted(text, i) = i /\ DollarTagAt(text, i) = Absent
  /\ At(text, e) = "$" =>
       /\ e <= Len(text) /\ tag \in Seq(Symbols) /\ Len(tag) = e - i + 1
       /\ DollarTagAt(text, i) = tag
       /\ IsFirst(g, {j \in (e + 1)..Len(text) : Begins(text, j, tag)}, Len(text))
       /\ g \in (e + 1)..(Len(text) + 1)
       /\ g = Len(text) + 1 => SkipDollarQuoted(text, i) = i
       /\ g # Len(text) + 1 => /\ SkipDollarQuoted(text, i) = g + (e - i)
                               /\ g + (e - i) <= Len(text) /\ Begins(text, g, tag)
LEMMA DollarSkips ==
  ASSUME NEW text \in Seq(Symbols), NEW i \in 1..Len(text),
         NEW e, e = WordEnd(text, i + 1), NEW tag, tag = Tagged(text, i, e),
         NEW g, g = TagAfter(text, i, tag)
  PROVE  OnDollar(text, i, e, tag, g)
<1>1. PICK n \in Nat : n = Len(text)
  BY TextForm
<1>2. i + 1 \in 1..(Len(text) + 1) /\ i \in Nat
  BY <1>1
<1>3. IsFirst(e, {j \in (i + 1)..Len(text) : text[j] \notin WordSymbols}, Len(text))
  BY <1>2, WordEndIs
<1>4. e \in (i + 1)..(Len(text) + 1)
  <2>1. e = Len(text) + 1 \/ e \in {j \in (i + 1)..Len(text) : text[j] \notin WordSymbols}
    BY <1>3, Zenon DEF IsFirst
  <2>2. QED BY <1>1, <1>2, <2>1
<1>5. DollarTagAt(text, i) = IF At(text, e) = "$" THEN tag ELSE Absent
  BY DollarTag DEF Tagged
<1>6. CASE At(text, e) # "$"
  <2>1. SkipDollarQuoted(text, i) = i
    BY <1>5, <1>6, Zenon DEF SkipDollarQuoted
  <2>2. QED BY <1>4, <1>5, <1>6, <2>1, Zenon DEF OnDollar
<1>7. CASE At(text, e) = "$"
  <2>1. e <= Len(text)
    <3>1. e \in 1..Len(text)
      <4>1. "$" # Absent
        BY TextForm DEF Symbols
      <4>2. QED BY <1>7, <4>1, TextForm
    <3>2. QED BY <1>1, <3>1
  <2>2. tag \in Seq(Symbols) /\ Len(tag) = e - i + 1
    BY <1>1, <1>4, <2>1 DEF Tagged
  <2>3. tag # Absent
    BY <2>2, TextForm
  <2>4. DollarTagAt(text, i) = tag
    BY <1>5, <1>7
  <2>5. SkipDollarQuoted(text, i) = IF g > Len(text) THEN i ELSE g + Len(tag) - 1
    BY <2>3, <2>4, Zenon DEF SkipDollarQuoted
  <2>6. i + Len(tag) = e + 1
    BY <1>1, <1>4, <2>2
  <2>7. IsFirst(g, {j \in (e + 1)..Len(text) : Begins(text, j, tag)}, Len(text))
    BY <2>2, <2>6, TagAgain
  <2>8. g = Len(text) + 1 \/ (g \in (e + 1)..Len(text) /\ Begins(text, g, tag))
    <3>1. g = Len(text) + 1 \/ g \in {j \in (e + 1)..Len(text) : Begins(text, j, tag)}
      BY <2>7, Zenon DEF IsFirst
    <3>2. QED BY <3>1
  <2>9. g \in (e + 1)..(Len(text) + 1)
    BY <1>1, <1>4, <2>1, <2>8
  <2>10. g = Len(text) + 1 => SkipDollarQuoted(text, i) = i
    <3>1. g = Len(text) + 1 => g > Len(text)
      BY <1>1
    <3>2. QED BY <2>5, <3>1
  <2>11. ASSUME g # Len(text) + 1
         PROVE  /\ SkipDollarQuoted(text, i) = g + (e - i)
                /\ g + (e - i) <= Len(text) /\ Begins(text, g, tag)
    <3>1. g \in (e + 1)..Len(text) /\ Begins(text, g, tag)
      BY <2>8, <2>11
    <3>2. ~ (g > Len(text)) /\ g \in Nat
      BY <1>1, <1>4, <3>1
    <3>3. SkipDollarQuoted(text, i) = g + Len(tag) - 1
      BY <2>5, <3>2
    <3>4. g + Len(tag) - 1 <= Len(text)
      BY <3>1, Zenon DEF Begins
    <3>5. g + Len(tag) - 1 = g + (e - i)
      <4>1. PICK l : l = Len(tag)
        OBVIOUS
      <4>2. l = e - i + 1 /\ e \in Int /\ i \in Int /\ g \in Int
        BY <1>1, <1>4, <2>2, <3>2, <4>1
      <4>3. QED BY <4>1, <4>2
    <3>6. QED BY <3>1, <3>3, <3>4, <3>5
  <2>12. QED BY <1>4, <1>7, <2>1, <2>2, <2>4, <2>7, <2>9, <2>10, <2>11, Zenon DEF OnDollar
<1>8. QED BY <1>6, <1>7

(* What the splitter does at each kind of symbol. *)
LEMMA SkipCases ==
  ASSUME NEW text \in Seq(Symbols), NEW i \in 1..Len(text)
  PROVE  \/ text[i] \in {"'", "dq"} /\ Skip(text, i) = SkipRepeatedQuote(text, i)
         \/ /\ i + 1 \in 1..Len(text) /\ text[i] = "-" /\ text[i + 1] = "-"
            /\ Skip(text, i) = SkipLineComment(text, i)
         \/ /\ i + 1 \in 1..Len(text) /\ text[i] = "/" /\ text[i + 1] = "*"
            /\ Skip(text, i) = SkipBlockComment(text, i)
         \/ text[i] = "$" /\ Skip(text, i) = SkipDollarQuoted(text, i)
         \/ /\ text[i] \notin {"'", "dq", "$"} /\ Skip(text, i) = i
            /\ text[i] = "-" => At(text, i + 1) # "-"
            /\ text[i] = "/" => At(text, i + 1) # "*"
<1>1. PICK n \in Nat : n = Len(text)
  BY TextForm
<1>2. i \in Nat /\ i > 0 /\ i + 1 \in Nat /\ "-" \in Symbols /\ "/" \in Symbols /\ "*" \in Symbols
  <2>1. i \in Nat /\ i > 0 /\ i + 1 \in Nat
    BY <1>1
  <2>2. "-" \in Symbols /\ "/" \in Symbols /\ "*" \in Symbols
    BY Zenon DEF Symbols
  <2>3. QED BY <2>1, <2>2
<1>3. /\ Begins(text, i, <<"-", "-">>) <=> i + 1 <= Len(text) /\ text[i] = "-" /\ text[i + 1] = "-"
      /\ Begins(text, i, <<"/", "*">>) <=> i + 1 <= Len(text) /\ text[i] = "/" /\ text[i + 1] = "*"
  BY <1>2, BeginsTwo
<1>4. i + 1 <= Len(text) => i + 1 \in 1..Len(text) /\ At(text, i + 1) = text[i + 1]
  <2>1. i + 1 <= Len(text) => i + 1 \in 1..Len(text)
    BY <1>1, <1>2
  <2>2. QED BY <2>1, TextForm
<1>5. ~ (i + 1 <= Len(text)) => At(text, i + 1) = Absent
  <2>1. ~ (i + 1 <= Len(text)) => i + 1 \notin 1..Len(text)
    BY <1>1, <1>2
  <2>2. QED BY <2>1, TextForm
<1>6. Absent # "-" /\ Absent # "*"
  BY TextForm DEF Symbols
<1>7. /\ text[i] \in {"'", "dq"} => Skip(text, i) = SkipRepeatedQuote(text, i)
      /\ text[i] \notin {"'", "dq"} /\ Begins(text, i, <<"-", "-">>) =>
           Skip(text, i) = SkipLineComment(text, i)
      /\ /\ text[i] \notin {"'", "dq"} /\ ~ Begins(text, i, <<"-", "-">>)
         /\ Begins(text, i, <<"/", "*">>)
         => Skip(text, i) = SkipBlockComment(text, i)
      /\ /\ text[i] \notin {"'", "dq"} /\ ~ Begins(text, i, <<"-", "-">>)
         /\ ~ Begins(text, i, <<"/", "*">>)
         => Skip(text, i) = IF text[i] = "$" THEN SkipDollarQuoted(text, i) ELSE i
  <2>1. CASE text[i] \in {"'", "dq"}
    <3>1. text[i] \notin {"-", "/", "$"}
      BY <2>1
    <3>2. ~ Begins(text, i, <<"-", "-">>) /\ ~ Begins(text, i, <<"/", "*">>)
      BY <1>3, <3>1
    <3>3. QED BY <2>1, <3>1, <3>2, Zenon DEF Skip
  <2>2. CASE text[i] \notin {"'", "dq"} /\ Begins(text, i, <<"-", "-">>)
    <3>1. text[i] = "-"
      BY <1>3, <2>2
    <3>2. ~ Begins(text, i, <<"/", "*">>)
      BY <1>3, <3>1
    <3>3. QED BY <2>2, <3>1, <3>2, Zenon DEF Skip
  <2>3. CASE /\ text[i] \notin {"'", "dq"} /\ ~ Begins(text, i, <<"-", "-">>)
             /\ Begins(text, i, <<"/", "*">>)
    <3>1. text[i] # "$"
      BY <1>3, <2>3
    <3>2. QED BY <2>3, <3>1, Zenon DEF Skip
  <2>4. CASE /\ text[i] \notin {"'", "dq"} /\ ~ Begins(text, i, <<"-", "-">>)
             /\ ~ Begins(text, i, <<"/", "*">>)
    BY <2>4, Zenon DEF Skip
  <2>5. QED BY <2>1, <2>2, <2>3, <2>4
<1>8. CASE text[i] \in {"'", "dq"}
  BY <1>7, <1>8
<1>9. CASE text[i] \notin {"'", "dq"} /\ Begins(text, i, <<"-", "-">>)
  BY <1>3, <1>4, <1>7, <1>9
<1>10. CASE /\ text[i] \notin {"'", "dq"} /\ ~ Begins(text, i, <<"-", "-">>)
            /\ Begins(text, i, <<"/", "*">>)
  BY <1>3, <1>4, <1>7, <1>10
<1>11. CASE /\ text[i] \notin {"'", "dq"} /\ ~ Begins(text, i, <<"-", "-">>)
            /\ ~ Begins(text, i, <<"/", "*">>)
  <2>1. CASE text[i] = "$"
    BY <1>7, <1>11, <2>1
  <2>2. CASE text[i] # "$"
    <3>1. Skip(text, i) = i
      BY <1>7, <1>11, <2>2
    <3>2. (text[i] = "-" => At(text, i + 1) # "-") /\ (text[i] = "/" => At(text, i + 1) # "*")
      BY <1>3, <1>4, <1>5, <1>6, <1>11
    <3>3. QED BY <1>11, <2>2, <3>1, <3>2
  <2>3. QED BY <2>1, <2>2
<1>12. QED BY <1>8, <1>9, <1>10, <1>11

LEMMA SkipForward ==
  ASSUME NEW text \in Seq(Symbols), NEW i \in 1..Len(text)
  PROVE  Skip(text, i) \in i..(Len(text) + 2)
<1>1. PICK n \in Nat : n = Len(text)
  BY TextForm
<1>2. CASE Skip(text, i) = SkipRepeatedQuote(text, i)
  <2>1. PICK f : Closes(f, text, text[i]) /\ SkipRepeatedQuote(text, i) = f[i + 1]
    BY CloseForm
  <2>2. f[i + 1] \in (i + 1)..(n + 2)
    <3>1. i + 1 \in 1..(n + 2)
      BY <1>1
    <3>2. QED BY <1>1, <2>1, <3>1, CloseRange
  <2>3. QED BY <1>1, <1>2, <2>1, <2>2
<1>3. CASE i + 1 \in 1..Len(text) /\ Skip(text, i) = SkipLineComment(text, i)
  <2>1. \/ SkipLineComment(text, i) = Len(text) + 1
        \/ SkipLineComment(text, i) \in {j \in (i + 2)..Len(text) : text[j] = "nl"}
    BY LineComment, Zenon DEF IsFirst
  <2>2. QED BY <1>1, <1>3, <2>1
<1>4. CASE i + 1 \in 1..Len(text) /\ Skip(text, i) = SkipBlockComment(text, i)
  <2>1. PICK f : /\ SkipBlockComment(text, i) = f + 1
                 /\ IsFirst(f, {j \in (i + 2)..Len(text) : Begins(text, j, <<"*", "/">>)}, Len(text))
    BY BlockComment
  <2>2. f = Len(text) + 1 \/ f \in {j \in (i + 2)..Len(text) : Begins(text, j, <<"*", "/">>)}
    BY <2>1, Zenon DEF IsFirst
  <2>3. f \in (i + 2)..(n + 1)
    BY <1>1, <1>4, <2>2
  <2>4. QED BY <1>1, <1>4, <2>1, <2>3
<1>5. CASE text[i] = "$" /\ Skip(text, i) = SkipDollarQuoted(text, i)
  <2>1. PICK e, tag, g : /\ e = WordEnd(text, i + 1) /\ tag = Tagged(text, i, e)
                         /\ g = TagAfter(text, i, tag)
    OBVIOUS
  <2>2. \/ SkipDollarQuoted(text, i) = i
        \/ /\ e \in (i + 1)..(Len(text) + 1) /\ g \in (e + 1)..(Len(text) + 1)
           /\ SkipDollarQuoted(text, i) = g + (e - i) /\ g + (e - i) <= Len(text)
    <3>1. OnDollar(text, i, e, tag, g)
      BY <2>1, DollarSkips
    <3>2. QED BY <3>1, Zenon DEF OnDollar
  <2>3. QED BY <1>1, <1>5, <2>2
<1>6. CASE Skip(text, i) = i
  BY <1>1, <1>6
<1>7. QED BY <1>2, <1>3, <1>4, <1>5, <1>6, SkipCases

-----------------------------------------------------------------------------
(* Trimming. *)

TrimsTo(u, t) ==
  \/ t = <<>> /\ \A i \in 1..Len(u) : u[i] \in Blanks
  \/ \E a, b \in 1..Len(u) :
       /\ a <= b /\ t = SubSeq(u, a, b)
       /\ \A i \in 1..Len(u) : i < a \/ i > b => u[i] \in Blanks

LEMMA TrimForm ==
  ASSUME NEW u \in Seq(Symbols)
  PROVE  TrimsTo(u, Trim(u)) /\ Trim(u) \in Seq(Symbols)
<1>1. PICK n \in Nat : n = Len(u)
  BY TextForm
<1>2. PICK kept : kept = {i \in DOMAIN u : u[i] \notin Blanks}
  OBVIOUS
<1>3. Trim(u) = IF kept = {} THEN <<>> ELSE SubSeq(u, Min(kept), Max(kept))
  BY <1>2, Zenon DEF Trim
<1>4. DOMAIN u = 1..n
  BY <1>1
<1>5. kept \in SUBSET (1..n)
  BY <1>2, <1>4
<1>6. CASE kept = {}
  <2>1. Trim(u) = <<>>
    BY <1>3, <1>6
  <2>2. \A i \in 1..Len(u) : u[i] \in Blanks
    BY <1>1, <1>2, <1>4, <1>6
  <2>3. QED BY <2>1, <2>2 DEF TrimsTo
<1>7. CASE kept # {}
  <2>1. PICK a : a = Min(kept)
    OBVIOUS
  <2>2. PICK b : b = Max(kept)
    OBVIOUS
  <2>3. a \in kept /\ \A y \in kept : a <= y
    <3>1. \E x \in kept : \A y \in kept : x <= y
      <4>1. kept \in SUBSET Nat
        BY <1>5
      <4>2. QED BY <1>7, <4>1, SmallestOf
    <3>2. QED BY <2>1, <3>1, Zenon DEF Min
  <2>4. b \in kept /\ \A y \in kept : b >= y
    <3>1. \E x \in kept : \A y \in kept : x >= y
      BY <1>1, <1>5, <1>7, LargestOf
    <3>2. QED BY <2>2, <3>1, Zenon DEF Max
  <2>5. a \in 1..n /\ b \in 1..n
    BY <1>5, <2>3, <2>4
  <2>6. a <= b
    BY <2>3, <2>4
  <2>7. Trim(u) = SubSeq(u, a, b)
    BY <1>3, <1>7, <2>1, <2>2
  <2>8. ASSUME NEW i \in 1..Len(u), i < a \/ i > b
        PROVE  u[i] \in Blanks
    <3>1. i \notin kept
      BY <1>1, <1>5, <2>3, <2>4, <2>5, <2>8
    <3>2. QED BY <1>1, <1>2, <1>4, <3>1
  <2>9. TrimsTo(u, Trim(u))
    BY <1>1, <2>5, <2>6, <2>7, <2>8, Zenon DEF TrimsTo
  <2>10. SubSeq(u, a, b) \in Seq(Symbols)
    BY <1>1, <2>5, <2>6
  <2>11. QED BY <2>7, <2>9, <2>10
<1>8. QED BY <1>6, <1>7

LEMMA StatementForm ==
  ASSUME NEW text \in Seq(Symbols), NEW from \in 1..(Len(text) + 1), NEW to \in 0..Len(text)
  PROVE  /\ SubSeq(text, from, to) \in Seq(Symbols)
         /\ Statement(text, from, to) \in Seq(Seq(Symbols))
<1>1. PICK n \in Nat : n = Len(text)
  BY TextForm
<1>2. PICK u : u = SubSeq(text, from, to)
  OBVIOUS
<1>3. u \in Seq(Symbols)
  <2>1. CASE from <= to
    BY <1>1, <1>2, <2>1
  <2>2. CASE from > to
    <3>1. SubSeq(text, from, to) = <<>>
      BY <1>1, <2>2
    <3>2. QED BY <1>2, <3>1
  <2>3. QED BY <1>1, <2>1, <2>2
<1>4. PICK t \in Seq(Symbols) : t = Trim(u)
  BY <1>3, TrimForm
<1>5. Statement(text, from, to) = IF t = <<>> THEN <<>> ELSE <<t>>
  BY <1>2, <1>4, Zenon DEF Statement
<1>6. <<t>> \in Seq(Seq(Symbols)) /\ <<>> \in Seq(Seq(Symbols))
  OBVIOUS
<1>7. QED BY <1>2, <1>3, <1>5, <1>6

-----------------------------------------------------------------------------
(* The splitter's loop. *)

Splits(f, text) ==
  f = [at \in (1..(Len(text) + 3)) \X (1..(Len(text) + 1)) |->
        IF at[1] > Len(text) THEN Statement(text, at[2], Len(text))
        ELSE IF text[at[1]] = ";"
          THEN Statement(text, at[2], at[1] - 1) \o f[<<at[1] + 1, at[1] + 1>>]
        ELSE f[<<Skip(text, at[1]) + 1, at[2]>>]]

LEMMA SplitsExist ==
  ASSUME NEW text \in Seq(Symbols)
  PROVE  \E f : Splits(f, text)
<1> PICK n \in Nat : n = Len(text)
  BY TextForm
<1> DEFINE I == (1..(n + 3)) \X (1..(n + 1))
           stop == {at \in I : at[1] > n}
           plain == {at \in I : text[at[1]] # ";"}
           next == [at \in I |-> IF text[at[1]] = ";" THEN <<at[1] + 1, at[1] + 1>>
                                 ELSE <<Skip(text, at[1]) + 1, at[2]>>]
           rank == [at \in I |-> n + 3 - at[1]]
           base == [at \in I |-> Statement(text, at[2], n)]
           prefix == [at \in I |-> Statement(text, at[2], at[1] - 1)]
<1>1. \A at \in I : at[1] \in 1..(n + 3) /\ at[2] \in 1..(n + 1)
  OBVIOUS
<1>2. \A at \in I : /\ at \in stop <=> at[1] > n
                    /\ at \in plain <=> text[at[1]] # ";"
                    /\ base[at] = Statement(text, at[2], n)
                    /\ prefix[at] = Statement(text, at[2], at[1] - 1)
                    /\ rank[at] = n + 3 - at[1]
                    /\ next[at] = IF text[at[1]] = ";" THEN <<at[1] + 1, at[1] + 1>>
                                  ELSE <<Skip(text, at[1]) + 1, at[2]>>
  OBVIOUS
<1>3. \A i \in 1..(n + 3), start \in 1..(n + 1) :
        <<i, start>> \in I /\ rank[<<i, start>>] = n + 3 - i
  OBVIOUS
<1> HIDE DEF stop, plain, next, rank, base, prefix
<1>4. \A at \in I : rank[at] \in Nat /\ rank[at] < n + 4
  <2> SUFFICES ASSUME NEW at \in I
               PROVE  rank[at] \in Nat /\ rank[at] < n + 4
    OBVIOUS
  <2>1. at[1] \in 1..(n + 3) /\ rank[at] = n + 3 - at[1]
    BY <1>1, <1>2
  <2>2. QED BY <2>1
<1>5. ASSUME NEW at \in I, at \notin stop
      PROVE  next[at] \in I /\ rank[next[at]] < rank[at]
  <2>1. PICK i \in 1..n : i = at[1]
    <3>1. ~ (at[1] > n)
      BY <1>2, <1>5, Zenon
    <3>2. at[1] \in 1..(n + 3)
      BY <1>1, <1>5
    <3>3. at[1] \in 1..n
      BY <3>1, <3>2
    <3>4. QED BY <3>3
  <2>2. PICK start \in 1..(n + 1) : start = at[2]
    BY <1>1
  <2>3. Skip(text, i) + 1 \in (i + 1)..(n + 3) /\ i + 1 \in (i + 1)..(n + 3)
    <3>1. Skip(text, i) \in i..(n + 2)
      BY <2>1, SkipForward
    <3>2. QED BY <2>1, <3>1
  <2>4. PICK j \in (i + 1)..(n + 3), s \in 1..(n + 1) : next[at] = <<j, s>>
    <3>1. next[at] = IF text[i] = ";" THEN <<i + 1, i + 1>> ELSE <<Skip(text, i) + 1, start>>
      BY <1>2, <2>1, <2>2
    <3>2. i + 1 \in 1..(n + 1)
      BY <2>1
    <3>3. QED BY <2>2, <2>3, <3>1, <3>2
  <2>5. j \in 1..(n + 3) /\ n + 3 - j < n + 3 - i
    BY <2>1, <2>4
  <2>6. rank[<<j, s>>] = n + 3 - j /\ <<j, s>> \in I
    BY <1>3, <2>5
  <2>7. rank[at] = n + 3 - i
    BY <1>2, <2>1
  <2>8. QED BY <2>4, <2>5, <2>6, <2>7
<1>6. n + 4 \in Nat
  OBVIOUS
<1>7. I = (1..(Len(text) + 3)) \X (1..(Len(text) + 1))
  OBVIOUS
<1> HIDE DEF I
<1>8. PICK f : Jumps(f, I, stop, base, plain, prefix, next)
  BY <1>4, <1>5, <1>6, JumpsExist
<1>9. f = [at \in I |-> IF at \in stop THEN base[at]
                        ELSE IF at \in plain THEN f[next[at]] ELSE prefix[at] \o f[next[at]]]
  BY <1>8, Zenon DEF Jumps
<1>10. ASSUME NEW at \in I
       PROVE  (IF at \in stop THEN base[at]
               ELSE IF at \in plain THEN f[next[at]] ELSE prefix[at] \o f[next[at]]) =
              (IF at[1] > Len(text) THEN Statement(text, at[2], Len(text))
               ELSE IF text[at[1]] = ";"
                 THEN Statement(text, at[2], at[1] - 1) \o f[<<at[1] + 1, at[1] + 1>>]
               ELSE f[<<Skip(text, at[1]) + 1, at[2]>>])
  <2>1. CASE at[1] > n
    BY <1>2, <2>1
  <2>2. CASE ~ (at[1] > n) /\ text[at[1]] = ";"
    <3>1. at \notin stop /\ at \notin plain
      BY <1>2, <2>2, Zenon
    <3>2. next[at] = <<at[1] + 1, at[1] + 1>> /\ prefix[at] = Statement(text, at[2], at[1] - 1)
      BY <1>2, <2>2, Zenon
    <3>3. QED BY <2>2, <3>1, <3>2
  <2>3. CASE ~ (at[1] > n) /\ text[at[1]] # ";"
    <3>1. at \notin stop /\ at \in plain
      BY <1>2, <2>3, Zenon
    <3>2. next[at] = <<Skip(text, at[1]) + 1, at[2]>>
      BY <1>2, <2>3, Zenon
    <3>3. QED BY <2>3, <3>1, <3>2
  <2>4. QED BY <2>1, <2>2, <2>3
<1>11. f = [at \in I |-> IF at[1] > Len(text) THEN Statement(text, at[2], Len(text))
                         ELSE IF text[at[1]] = ";"
                           THEN Statement(text, at[2], at[1] - 1) \o f[<<at[1] + 1, at[1] + 1>>]
                         ELSE f[<<Skip(text, at[1]) + 1, at[2]>>]]
  BY <1>9, <1>10, Zenon
<1>12. QED BY <1>7, <1>11, Zenon DEF Splits

LEMMA SplitIsFirst ==
  ASSUME NEW text \in Seq(Symbols)
  PROVE  \E f : Splits(f, text) /\ SplitSqlStatements(text) = f[<<1, 1>>]
<1> DEFINE F == CHOOSE f : Splits(f, text)
<1>1. Splits(F, text)
  BY SplitsExist
<1>2. SplitSqlStatements(text) = F[<<1, 1>>]
  BY Zenon DEF SplitSqlStatements, Splits
<1>3. QED BY <1>1, <1>2

LEMMA SplitSteps ==
  ASSUME NEW text \in Seq(Symbols), NEW f, Splits(f, text),
         NEW i \in 1..(Len(text) + 3), NEW start \in 1..(Len(text) + 1)
  PROVE  /\ i > Len(text) => f[<<i, start>>] = Statement(text, start, Len(text))
         /\ ~ (i > Len(text)) =>
              /\ text[i] = ";" =>
                   f[<<i, start>>] = Statement(text, start, i - 1) \o f[<<i + 1, i + 1>>]
              /\ text[i] # ";" => f[<<i, start>>] = f[<<Skip(text, i) + 1, start>>]
<1>1. PICK at : at = <<i, start>>
  OBVIOUS
<1>2. /\ at \in (1..(Len(text) + 3)) \X (1..(Len(text) + 1)) /\ at[1] = i /\ at[2] = start
  BY <1>1
<1>3. f[at] = IF at[1] > Len(text) THEN Statement(text, at[2], Len(text))
              ELSE IF text[at[1]] = ";"
                THEN Statement(text, at[2], at[1] - 1) \o f[<<at[1] + 1, at[1] + 1>>]
              ELSE f[<<Skip(text, at[1]) + 1, at[2]>>]
  BY <1>2, Zenon DEF Splits
<1>4. f[at] = IF i > Len(text) THEN Statement(text, start, Len(text))
              ELSE IF text[i] = ";"
                THEN Statement(text, start, i - 1) \o f[<<i + 1, i + 1>>]
              ELSE f[<<Skip(text, i) + 1, start>>]
  BY <1>2, <1>3
<1>5. QED BY <1>1, <1>4, Zenon

LEMMA SplitsForm ==
  ASSUME NEW text \in Seq(Symbols), NEW f, Splits(f, text),
         NEW i \in 1..(Len(text) + 3), NEW start \in 1..(Len(text) + 1)
  PROVE  f[<<i, start>>] \in Seq(Seq(Symbols))
<1> PICK n \in Nat : n = Len(text)
  BY TextForm
<1> DEFINE G == {j \in 1..(n + 3) :
                   \A k \in 1..(n + 1) : f[<<j, k>>] \in Seq(Seq(Symbols))}
<1>2. ASSUME NEW j \in 1..(n + 3), \A k \in (j + 1)..(n + 3) : k \in G
      PROVE  j \in G
  <2>1. SUFFICES ASSUME NEW k \in 1..(n + 1)
                 PROVE  f[<<j, k>>] \in Seq(Seq(Symbols))
    OBVIOUS
  <2>2. CASE j > n
    <3>1. f[<<j, k>>] = Statement(text, k, n)
      BY <2>2, SplitSteps
    <3>2. n \in 0..Len(text)
      OBVIOUS
    <3>3. QED BY <3>1, <3>2, StatementForm
  <2>3. CASE ~ (j > n) /\ text[j] = ";"
    <3>1. f[<<j, k>>] = Statement(text, k, j - 1) \o f[<<j + 1, j + 1>>]
      BY <2>3, SplitSteps
    <3>2. j + 1 \in (j + 1)..(n + 3) /\ j + 1 \in 1..(n + 1) /\ j - 1 \in 0..Len(text)
      <4>1. ~ (j > n)
        BY <2>3
      <4>2. QED BY <4>1
    <3>3. PICK r \in Seq(Seq(Symbols)) : r = f[<<j + 1, j + 1>>]
      BY <1>2, <3>2
    <3>4. PICK t \in Seq(Seq(Symbols)) : t = Statement(text, k, j - 1)
      BY <3>2, StatementForm
    <3>5. t \o r \in Seq(Seq(Symbols))
      OBVIOUS
    <3>6. QED BY <3>1, <3>3, <3>4, <3>5
  <2>4. CASE ~ (j > n) /\ text[j] # ";"
    <3>1. f[<<j, k>>] = f[<<Skip(text, j) + 1, k>>]
      BY <2>4, SplitSteps
    <3>2. PICK z \in j..(n + 2) : z = Skip(text, j)
      <4>1. ~ (j > n)
        BY <2>4
      <4>2. j \in 1..Len(text)
        BY <4>1
      <4>3. QED BY <4>2, SkipForward
    <3>3. Skip(text, j) + 1 \in (j + 1)..(n + 3)
      BY <3>2
    <3>4. QED BY <1>2, <3>1, <3>3
  <2>5. QED BY <2>2, <2>3, <2>4
<1> HIDE DEF G
<1>3. \A j \in 1..(n + 3) : j \in G
  <2>1. n + 3 \in Nat
    OBVIOUS
  <2>2. QED BY <1>2, <2>1, DownFrom
<1>4. QED BY <1>3 DEF G

LEMMA SplitForm ==
  ASSUME NEW text \in Seq(Symbols)
  PROVE  SplitSqlStatements(text) \in Seq(Seq(Symbols))
<1>1. PICK n \in Nat : n = Len(text)
  BY TextForm
<1>2. PICK f : Splits(f, text) /\ SplitSqlStatements(text) = f[<<1, 1>>]
  BY SplitIsFirst
<1>3. 1 \in 1..(Len(text) + 3) /\ 1 \in 1..(Len(text) + 1)
  BY <1>1
<1>4. QED BY <1>2, <1>3, SplitsForm

-----------------------------------------------------------------------------
(* Prompts.                                                                *)

(* Prompts goes over the parameters.                                       *)
LEMMA PromptsFold ==
  ASSUME NEW X, NEW pieces, NEW found \in Seq(X), found = Parameters(pieces)
  PROVE  Folded(Prompts(pieces), <<>>, KeyAdded(X), found)
<1> DEFINE n == Len(found)
           Step(keys, p) == IF Contains(keys, p.key) THEN keys ELSE Append(keys, p.key)
<1>1. n \in Nat /\ DOMAIN found = 1..n /\ <<>> \in Seq(KeysIn(X))
  BY LenProperties
<1>2. /\ KeyAdded(X) \in [Seq(KeysIn(X)) \X X -> Seq(KeysIn(X))]
      /\ \A keys \in Seq(KeysIn(X)), p \in X : KeyAdded(X)[<<keys, p>>] = Step(keys, p)
  BY KeyAddedForm, Zenon
<1>3. PICK g \in [SUBSET (1..n) -> Seq(KeysIn(X))] : FoldsBy(g, Seq(KeysIn(X)), X, <<>>, KeyAdded(X), found)
  BY <1>1, <1>2, FoldHasSteps
<1>4. \A s \in SUBSET (1..n) : g[s] = IF s = {} THEN <<>> ELSE Step(g[s \ {Max(s)}], found[Max(s)])
  BY <1>2, <1>3, Zenon DEF FoldsBy
<1>5. g = [s \in SUBSET (1..n) |-> IF s = {} THEN <<>> ELSE Step(g[s \ {Max(s)}], found[Max(s)])]
  BY <1>4, Zenon
<1>6. PICK h : /\ h = [s \in SUBSET (1..n) |-> IF s = {} THEN <<>> ELSE Step(h[s \ {Max(s)}], found[Max(s)])]
               /\ Prompts(pieces) = h[1..n]
  <2>1. Prompts(pieces) = FoldLeft(Step, <<>>, found)
    BY Zenon DEF Prompts
  <2>2. \E h : /\ h = [s \in SUBSET (1..n) |-> IF s = {} THEN <<>> ELSE Step(h[s \ {Max(s)}], found[Max(s)])]
               /\ FoldLeft(Step, <<>>, found) = h[1..n]
    BY <1>1, <1>5, ZenonT(60) DEF FoldLeft, MapThenFoldSet
  <2>3. QED BY <2>1, <2>2
<1>7. \A s \in SUBSET (1..n) : h[s] = IF s = {} THEN <<>> ELSE Step(h[s \ {Max(s)}], found[Max(s)])
  BY <1>6, Zenon
<1>8. ASSUME NEW s \in SUBSET (1..n)
      PROVE  /\ s = {} => h[s] = <<>>
             /\ s # {} /\ h[s \ {Max(s)}] \in Seq(KeysIn(X)) => h[s] = KeyAdded(X)[<<h[s \ {Max(s)}], found[Max(s)]>>]
  BY <1>2, <1>3, <1>7, Zenon DEF FoldsBy
<1>9. FoldsTo(Prompts(pieces), Seq(KeysIn(X)), <<>>, KeyAdded(X), found)
  BY <1>6, <1>8, Zenon DEF FoldsTo
<1>10. QED BY <1>1, <1>2, <1>9, FoldedSteps

LEMMA PromptsAsk ==
  ASSUME NEW X, NEW pieces, NEW found \in Seq(X), found = Parameters(pieces)
  PROVE  KeysOnce(Prompts(pieces), X, found, Len(found))
<1> DEFINE n == Len(found)
<1>1. n \in Nat /\ \A i \in 1..n : found[i] \in X
  BY LenProperties, ElementOfSeq
<1>2. PICK run : Folding(run, <<>>, KeyAdded(X), found) /\ run[n] = Prompts(pieces)
  BY PromptsFold, Zenon DEF Folded
<1> DEFINE S == {k \in Nat : k <= n => KeysOnce(run[k], X, found, k)}
<1>3. 0 \in S
  <2>1. run[0] = <<>>
    BY <1>2 DEF Folding
  <2>2. <<>> \in Seq(KeysIn(X)) /\ Len(<<>>) = 0 /\ 1..0 = {}
    OBVIOUS
  <2>3. KeysOnce(<<>>, X, found, 0)
    BY <2>2 DEF KeysOnce
  <2>4. QED BY <2>1, <2>3
<1>4. ASSUME NEW k \in Nat, k \in S PROVE k + 1 \in S
  <2>1. SUFFICES ASSUME k + 1 <= n PROVE KeysOnce(run[k + 1], X, found, k + 1)
    OBVIOUS
  <2>2. k + 1 \in 1..n /\ (k + 1) - 1 = k /\ KeysOnce(run[k], X, found, k)
    BY <1>1, <1>4, <2>1
  <2>3. run[k + 1] = KeyAdded(X)[<<run[k], found[k + 1]>>]
    BY <1>2, <2>2 DEF Folding
  <2>4. run[k] \in Seq(KeysIn(X)) /\ found[k + 1] \in X
    BY <1>1, <2>2 DEF KeysOnce
  <2>5. run[k + 1] = IF Contains(run[k], found[k + 1].key) THEN run[k]
                     ELSE Append(run[k], found[k + 1].key)
    BY <2>3, <2>4, KeyAddedForm, Zenon
  <2>6. QED BY <2>2, <2>4, <2>5, KeysOnceMore
<1> HIDE DEF S
<1>5. Nat \subseteq S
  BY <1>3, <1>4, SetInduction
<1>6. QED BY <1>1, <1>2, <1>5 DEF S

(* The last value supplied for a key is one of those supplied.             *)
LEMMA ValueOfSupplied ==
  ASSUME NEW n \in Nat, NEW keys, NEW supplied,
         supplied = [i \in 1..n |-> [key |-> keys[i], value |-> i]],
         NEW j \in 1..n
  PROVE  ValueOf(supplied, keys[j]) \in Nat
<1> DEFINE for == {i \in DOMAIN supplied : supplied[i].key = keys[j]}
<1>1. /\ DOMAIN supplied = 1..n
      /\ \A i \in 1..n : supplied[i].key = keys[i] /\ supplied[i].value = i
  OBVIOUS
<1>2. for \in SUBSET (1..n) /\ for # {}
  BY <1>1
<1>3. Max(for) \in for
  <2> HIDE DEF for
  <2>1. \E x \in for : \A y \in for : x >= y
    BY <1>2, LargestOf
  <2>2. QED BY <2>1, Zenon DEF Max
<1>4. ValueOf(supplied, keys[j]) = supplied[Max(for)].value
  BY <1>2, Zenon DEF ValueOf
<1>5. Max(for) \in 1..n
  BY <1>2, <1>3
<1> HIDE DEF for
<1>6. QED BY <1>1, <1>4, <1>5

LEMMA PromptsInjective ==
  ASSUME NEW X, NEW pieces \in Seq(X)
  PROVE  IsInjective(Prompts(pieces))
<1>1. PICK found \in Seq(X) : found = Parameters(pieces)
  BY BoundForm
<1>2. PICK keys : keys = Prompts(pieces)
  OBVIOUS
<1>3. KeysOnce(keys, X, found, Len(found))
  BY <1>1, <1>2, PromptsAsk
<1>4. keys \in Seq(KeysIn(X))
  BY <1>3 DEF KeysOnce
<1>5. DOMAIN keys = 1..Len(keys)
  BY <1>4, LenProperties
<1>6. IsInjective(keys)
  BY <1>3, <1>5, Zenon DEF KeysOnce, IsInjective
<1>7. QED BY <1>2, <1>6

LEMMA SqlForm ==
  ASSUME NEW X, PiecesForm(X), NEW pieces \in Seq(X)
  PROVE  SqlOf(pieces) \in Seq(Symbols)
<1>1. PICK texts : texts = [i \in DOMAIN pieces |-> pieces[i].text]
  OBVIOUS
<1>2. \A i \in 1..Len(pieces) : pieces[i] \in X
  BY ElementOfSeq
<1>3. \A i \in 1..Len(pieces) : pieces[i].text \in Seq(Symbols)
  BY <1>2 DEF PiecesForm
<1>4. texts \in Seq(Seq(Symbols))
  <2>1. Len(pieces) \in Nat /\ DOMAIN pieces = 1..Len(pieces)
    BY LenProperties
  <2>2. QED BY <1>1, <1>3, <2>1
<1>5. SqlOf(pieces) = FlattenSeq(texts)
  BY <1>1, Zenon DEF SqlOf
<1>6. QED BY <1>4, <1>5, FlattenElements

LEMMA PromptsAnswered ==
  ASSUME NEW X, PiecesForm(X), NEW pieces \in Seq(X), NEW wire,
         Absent \notin Seq([key : KeysIn(X), value : Nat]),
         NEW answers,
         answers = [i \in DOMAIN Prompts(pieces) |-> [key |-> Prompts(pieces)[i], value |-> i]],
         Len(SplitSqlStatements(SqlOf(pieces))) <= 1
  PROVE  PrepareQuery(wire, pieces, answers) # Absent
<1>1. PICK found \in Seq(X) : found = Parameters(pieces)
  BY BoundForm
<1>2. PICK keys : keys = Prompts(pieces)
  OBVIOUS
<1>3. /\ keys \in Seq(KeysIn(X)) /\ Len(keys) \in Nat /\ DOMAIN keys = 1..Len(keys)
      /\ \A i, j \in 1..Len(keys) : keys[i] = keys[j] => i = j
      /\ \A i \in 1..Len(found) : \E j \in 1..Len(keys) : keys[j] = found[i].key
      /\ \A i \in 1..Len(keys) : keys[i] \in KeysIn(X)
  <2>1. KeysOnce(keys, X, found, Len(found))
    BY <1>1, <1>2, PromptsAsk
  <2>2. keys \in Seq(KeysIn(X))
    BY <2>1 DEF KeysOnce
  <2>3. QED BY <2>1, <2>2, LenProperties, ElementOfSeq DEF KeysOnce
<1>5. answers = [i \in 1..Len(keys) |-> [key |-> keys[i], value |-> i]]
  BY <1>2, <1>3
<1>6. answers # Absent
  <2>1. answers \in Seq([key : KeysIn(X), value : Nat])
    BY <1>3, <1>5
  <2>2. QED BY <2>1
<1>7. PICK params : params = Bound(pieces, answers)
  OBVIOUS
<1>8. params \in Seq(Nat) /\ Range(params) \subseteq Nat
  <2>1. /\ DOMAIN params = 1..Len(found) /\ Len(params) = Len(found)
        /\ \A i \in 1..Len(found) : params[i] = ValueOf(answers, found[i].key)
    BY <1>1, <1>7, BoundForm
  <2>2. ASSUME NEW i \in 1..Len(found) PROVE params[i] \in Nat
    <3>1. PICK j \in 1..Len(keys) : keys[j] = found[i].key
      BY <1>3
    <3>2. ValueOf(answers, keys[j]) \in Nat
      BY <1>3, <1>5, ValueOfSupplied
    <3>3. QED BY <2>1, <3>1, <3>2
  <2>3. params = [i \in 1..Len(found) |-> params[i]]
    <3>1. Bound(pieces, answers) = [i \in DOMAIN found |-> ValueOf(answers, found[i].key)]
      BY <1>1, Zenon DEF Bound
    <3>2. QED BY <1>7, <2>1, <3>1
  <2>4. Len(found) \in Nat
    BY LenProperties
  <2>5. QED BY <2>1, <2>2, <2>3, <2>4 DEF Range
<1>9. Absent \notin Range(params)
  BY <1>8, QueryAssumption
<1>10. PICK sql \in Seq(Symbol) : sql = Rewritten(wire, pieces)
  <2>1. PICK bound : /\ bound = [i \in 1..Len(pieces) |-> BoundPiece(wire, pieces, i)]
                     /\ Rewritten(wire, pieces) = FlattenSeq(bound)
    BY RewrittenIsFlat
  <2>2. \A i \in 1..Len(pieces) : BoundPiece(wire, pieces, i) \in Seq(Symbol)
    BY BoundPieceForm
  <2>3. Len(pieces) \in Nat
    BY LenProperties
  <2>4. bound \in Seq(Seq(Symbol))
    BY <2>1, <2>2, <2>3
  <2>5. QED BY <2>1, <2>4, FlattenElements
<1>11. \A p \in Seq(Nat) : [sql |-> sql, params |-> p] # Absent
  <2>1. Absent \notin [sql : Seq(Symbol), params : Seq(Nat)]
    BY QueryAssumption DEF Symbol
  <2>2. \A p \in Seq(Nat) : [sql |-> sql, params |-> p] \in [sql : Seq(Symbol), params : Seq(Nat)]
    OBVIOUS
  <2>3. QED BY <2>1, <2>2
<1>12. CASE found = <<>>
  <2>1. PrepareQuery(wire, pieces, answers) = [sql |-> Plain(SqlOf(pieces)), params |-> <<>>]
    BY <1>1, <1>12, Zenon DEF PrepareQuery
  <2>2. Plain(SqlOf(pieces)) = sql
    BY <1>1, <1>10, <1>12, NoPlaceholders
  <2>3. <<>> \in Seq(Nat)
    OBVIOUS
  <2>4. QED BY <1>11, <2>1, <2>2, <2>3
<1>13. CASE found # <<>>
  <2>1. ~ Len(SplitSqlStatements(SqlOf(pieces))) > 1
    <3>1. SqlOf(pieces) \in Seq(Symbols)
      BY SqlForm
    <3>2. PICK s \in Seq(Seq(Symbols)) : s = SplitSqlStatements(SqlOf(pieces))
      BY <3>1, SplitForm
    <3>3. Len(s) \in Nat
      OBVIOUS
    <3>4. QED BY <3>2, <3>3
  <2>2. PrepareQuery(wire, pieces, answers) = [sql |-> sql, params |-> params]
    BY <1>1, <1>6, <1>7, <1>9, <1>10, <1>13, <2>1, Zenon DEF PrepareQuery
  <2>3. QED BY <1>8, <1>11, <2>2
<1>14. QED BY <1>12, <1>13

(* A query of one statement whose prompts are all answered can be          *)
(* prepared: each key that is needed is asked for, and none twice, however *)
(* many parameters it has (query_parameter_prompt_set, prepare_query).     *)
THEOREM PromptsAreEnough == Spec => []PromptsSuffice
<1>1. Answered => PromptsSuffice
  <2> SUFFICES ASSUME Answered, Returned("query"), output.prompts # Absent
               PROVE  LET answers == [i \in DOMAIN output.prompts |->
                                       [key |-> output.prompts[i], value |-> i]]
                      IN  /\ IsInjective(output.prompts)
                          /\ Len(SplitSqlStatements(SqlOf(input.pieces))) <= 1 =>
                               PrepareQuery(input.wire, input.pieces, answers) # Absent
    BY Zenon DEF PromptsSuffice
  <2>1. /\ input \in Queries
        /\ output = [prompts |-> PromptSet(input.pieces),
                     prepared |-> PrepareQuery(input.wire, input.pieces, input.supplied)]
    BY DEF Answered, Returned
  <2>2. output.prompts = PromptSet(input.pieces)
    BY <2>1
  <2>3. output.prompts = Prompts(input.pieces)
    BY <2>2, Zenon DEF PromptSet
  <2>4. PICK X : /\ input.pieces \in Seq(X) /\ PiecesForm(X)
                 /\ Absent \notin Seq([key : KeysIn(X), value : Nat])
    BY <2>1, QueryPieces, Zenon DEF KeysIn
  <2>5. QED BY <2>3, <2>4, PromptsInjective, PromptsAnswered
<1>2. QED
  BY <1>1, InitAnswered, NextAnswered, PTL DEF Spec

-----------------------------------------------------------------------------
(* Plans.                                                                  *)

PlanNode == [id : NodeIds, parent : NodeIds \cup {NoNode}, depth : Int, risky : BOOLEAN]

(* A picture: no two nodes share an id, and each node's parent comes       *)
(* before it and is drawn higher (slack = 0) or not lower (slack = 1).     *)
HangsUnder(nodes, i, j, slack) ==
  nodes[j].id = nodes[i].parent /\ nodes[j].depth < nodes[i].depth + slack
Hangs(nodes, slack) ==
  /\ nodes \in Seq(PlanNode)
  /\ \A i, j \in 1..Len(nodes) : nodes[i].id = nodes[j].id => i = j
  /\ \A i \in 1..Len(nodes) :
       nodes[i].parent # NoNode => \E j \in 1..i - 1 : HangsUnder(nodes, i, j, slack)

LEMMA IdForm ==
  ASSUME NEW prefix \in {"static-root", "static-scan", "static-join", "static-filter",
                         "static-aggregate", "static-sort", "pg", "mysql", "native-row",
                         "sqlite-root", "sqlite"},
         NEW n \in Int
  PROVE  <<prefix, n>> \in NodeIds /\ <<prefix, n>> # NoNode
<1>1. <<prefix, n>> \in NodeIds
  BY DEF NodeIds
<1>2. QED BY <1>1, PlanAssumption

LEMMA NodeForm ==
  ASSUME NEW id \in NodeIds, NEW parent \in NodeIds \cup {NoNode}, NEW depth \in Int,
         NEW risky \in BOOLEAN
  PROVE  /\ Node(id, parent, depth, risky) \in PlanNode
         /\ Node(id, parent, depth, risky).id = id
         /\ Node(id, parent, depth, risky).parent = parent
         /\ Node(id, parent, depth, risky).depth = depth
BY DEF Node, PlanNode

(* The static analysis: everything hangs under the root.                   *)
Leaf(prefix, n) == Node(<<prefix, n>>, Root, 1, FALSE)
Bush(nodes, prefixes) ==
  /\ nodes \in Seq(PlanNode)
  /\ Len(nodes) > 0 /\ nodes[1] = Node(Root, NoNode, 0, FALSE)
  /\ \A i \in 2..Len(nodes) :
       \E p \in prefixes : \E n \in Int : nodes[i] = Leaf(p, n)
  /\ \A i, j \in 1..Len(nodes) : nodes[i].id = nodes[j].id => i = j

LeafPrefixes == {"static-scan", "static-join", "static-filter", "static-aggregate", "static-sort"}

LEMMA LeafForm ==
  ASSUME NEW p \in LeafPrefixes, NEW n \in Int
  PROVE  /\ Leaf(p, n) \in PlanNode /\ Leaf(p, n).id = <<p, n>> /\ Leaf(p, n).parent = Root
         /\ Leaf(p, n).depth = 1
         /\ Root # <<p, n>>
<1>1. p \in {"static-root", "static-scan", "static-join", "static-filter",
             "static-aggregate", "static-sort", "pg", "mysql", "native-row",
             "sqlite-root", "sqlite"}
  BY DEF LeafPrefixes
<1>2. <<p, n>> \in NodeIds /\ Root \in NodeIds
  BY <1>1, IdForm DEF Root
<1>3. Root # <<p, n>>
  BY DEF Root, LeafPrefixes
<1>4. 1 \in Int /\ FALSE \in BOOLEAN /\ Root \in NodeIds \cup {NoNode}
  BY <1>2
<1>5. PICK id \in NodeIds, r \in NodeIds : id = <<p, n>> /\ r = Root
  BY <1>2
<1>6. PICK node : node = Node(id, r, 1, FALSE)
  OBVIOUS
<1>7. node \in PlanNode /\ node.id = id /\ node.parent = r /\ node.depth = 1
  BY <1>6 DEF Node, PlanNode
<1>8. node = Leaf(p, n)
  BY <1>5, <1>6, Zenon DEF Leaf
<1>9. QED BY <1>3, <1>5, <1>7, <1>8

LEMMA RootForm ==
  /\ Node(Root, NoNode, 0, FALSE).id = Root
  /\ Node(Root, NoNode, 0, FALSE).parent = NoNode
  /\ Node(Root, NoNode, 0, FALSE).depth = 0
  /\ Node(Root, NoNode, 0, FALSE) \in PlanNode
<1>1. Root \in NodeIds
  BY IdForm DEF Root
<1>3. PICK r \in NodeIds : r = Root
  BY <1>1
<1>4. PICK node : node = Node(r, NoNode, 0, FALSE)
  OBVIOUS
<1>5. node \in PlanNode /\ node.id = r /\ node.parent = NoNode /\ node.depth = 0
  BY <1>4 DEF Node, PlanNode
<1>6. QED BY <1>3, <1>4, <1>5

LEMMA BushHangs ==
  ASSUME NEW nodes, Bush(nodes, LeafPrefixes)
  PROVE  Hangs(nodes, 0)
<1>1. Len(nodes) \in Nat
  BY LenProperties DEF Bush
<1>2. nodes[1].parent = NoNode /\ nodes[1].id = Root /\ nodes[1].depth = 0
  BY RootForm, Zenon DEF Bush
<1>3. ASSUME NEW i \in 1..Len(nodes), nodes[i].parent # NoNode
      PROVE  \E j \in 1..i - 1 : HangsUnder(nodes, i, j, 0)
  <2>1. i \in 2..Len(nodes) /\ 1 \in 1..i - 1
    BY <1>1, <1>2, <1>3
  <2>2. PICK p \in LeafPrefixes, n \in Int : nodes[i] = Leaf(p, n)
    BY <2>1 DEF Bush
  <2>3. nodes[i].parent = Root /\ nodes[i].depth = 1
    BY <2>2, LeafForm
  <2>4. HangsUnder(nodes, i, 1, 0)
    <3>1. nodes[1].depth < nodes[i].depth + 0 /\ nodes[1].id = nodes[i].parent
      BY <1>2, <2>3
    <3>2. QED BY <3>1 DEF HangsUnder
  <2>5. QED BY <2>1, <2>4
<1>4. QED BY <1>3, Zenon DEF Bush, Hangs

(* What more leaves make of it.                                            *)
Grafted(all, nodes, prefixes, p, k) ==
  /\ Bush(all, prefixes)
  /\ \A i \in 1..Len(nodes) : \E j \in 1..Len(all) : all[j] = nodes[i]
  /\ \A i \in 1..k : \E j \in 1..Len(all) : all[j] = Leaf(p, i - 1)

LEMMA BushMore ==
  ASSUME NEW nodes, NEW prefixes \in SUBSET LeafPrefixes, Bush(nodes, prefixes),
         NEW p \in LeafPrefixes \ prefixes, NEW m, NEW k \in Nat,
         m = [i \in 1..k |-> Leaf(p, i - 1)], NEW all, all = nodes \o m
  PROVE  Grafted(all, nodes, prefixes \cup {p}, p, k)
<1> DEFINE l == Len(nodes)
<1>1. nodes \in Seq(PlanNode) /\ l \in Nat /\ l > 0
  BY LenProperties DEF Bush
<1>2. m \in Seq(PlanNode) /\ Len(m) = k /\ \A i \in 1..k : m[i] = Leaf(p, i - 1)
  <2>1. \A i \in 1..k : Leaf(p, i - 1) \in PlanNode
    BY LeafForm
  <2>2. QED BY <2>1
<1>3. /\ all \in Seq(PlanNode) /\ Len(all) = l + k
      /\ \A i \in 1..l : all[i] = nodes[i]
      /\ \A i \in 1..k : all[l + i] = Leaf(p, i - 1)
  <2>1. all \in Seq(PlanNode) /\ Len(all) = l + k
        /\ \A i \in 1..(l + k) : all[i] = IF i <= l THEN nodes[i] ELSE m[i - l]
    BY <1>1, <1>2, ConcatProperties
  <2> HIDE DEF l
  <2>2. ASSUME NEW i \in 1..l PROVE all[i] = nodes[i]
    BY <1>1, <2>1
  <2>3. ASSUME NEW i \in 1..k PROVE all[l + i] = Leaf(p, i - 1)
    <3>1. l + i \in 1..(l + k) /\ ~ l + i <= l /\ (l + i) - l = i
      BY <1>1
    <3>2. QED BY <1>2, <2>1, <3>1
  <2>4. QED BY <2>1, <2>2, <2>3
<1> HIDE DEF l
<1>4. \A i \in 1..Len(all) : i \in 1..l \/ \E h \in 1..k : i = l + h
  <2>1. ASSUME NEW i \in 1..Len(all), i \notin 1..l PROVE \E h \in 1..k : i = l + h
    <3>1. i - l \in 1..k /\ i = l + (i - l)
      BY <1>1, <1>3, <2>1
    <3>2. QED BY <3>1
  <2>2. QED BY <2>1
<1>5. ASSUME NEW i \in 2..Len(all)
      PROVE  \E o \in prefixes \cup {p} : \E n \in Int : all[i] = Leaf(o, n)
  <2>1. CASE i \in 1..l
    <3>1. i \in 2..l /\ all[i] = nodes[i]
      BY <1>3, <2>1
    <3>2. QED BY <3>1 DEF Bush, l
  <2>2. CASE \E h \in 1..k : i = l + h
    <3>1. PICK h \in 1..k : i = l + h
      BY <2>2
    <3>2. all[i] = Leaf(p, h - 1) /\ h - 1 \in Int
      BY ONLY <1>1, <1>3, <3>1, k \in Nat
    <3>3. QED BY <3>2, Zenon
  <2>3. i \in 1..Len(all)
    OBVIOUS
  <2>4. QED BY <1>4, <2>1, <2>2, <2>3
<1>6. ASSUME NEW i \in 1..l PROVE nodes[i].id[1] # p
  <2>1. CASE i = 1
    <3>1. nodes[i].id = Root
      BY <2>1, RootForm, Zenon DEF Bush
    <3>2. QED BY <3>1 DEF Root, LeafPrefixes
  <2>2. CASE i # 1
    <3>1. i \in 2..l
      BY <2>2
    <3>2. PICK o \in prefixes, n \in Int : nodes[i] = Leaf(o, n)
      BY <3>1 DEF Bush, l
    <3>3. nodes[i].id = <<o, n>> /\ o # p
      BY <3>2, LeafForm
    <3>4. QED BY <3>3
  <2>3. QED BY <2>1, <2>2
<1>7. ASSUME NEW h \in 1..k PROVE all[l + h].id = <<p, h - 1>>
  <2>1. h - 1 \in Int /\ all[l + h] = Leaf(p, h - 1)
    BY ONLY <1>1, <1>3, k \in Nat, h \in 1..k
  <2>2. QED BY <2>1, LeafForm
<1>8. ASSUME NEW i \in 1..Len(all), NEW j \in 1..Len(all), all[i].id = all[j].id PROVE i = j
  <2>1. CASE i \in 1..l /\ j \in 1..l
    <3>1. nodes[i].id = nodes[j].id
      BY <1>3, <1>8, <2>1
    <3>2. QED BY <2>1, <3>1 DEF Bush, l
  <2>2. ASSUME NEW a \in 1..l, NEW h \in 1..k PROVE all[a].id # all[l + h].id
    <3>1. all[a].id[1] # p
      BY <1>3, <1>6
    <3>2. <<p, h - 1>>[1] = p
      OBVIOUS
    <3>3. QED BY <1>7, <3>1, <3>2
  <2>3. ASSUME NEW a \in 1..k, NEW h \in 1..k, all[l + a].id = all[l + h].id PROVE a = h
    <3>1. <<p, a - 1>> = <<p, h - 1>>
      BY <1>7, <2>3
    <3>2. QED BY <3>1
  <2>4. CASE i \in 1..l /\ j \notin 1..l
    BY <1>4, <1>8, <2>2, <2>4
  <2>5. CASE i \notin 1..l /\ j \in 1..l
    BY <1>4, <1>8, <2>2, <2>5
  <2>6. CASE i \notin 1..l /\ j \notin 1..l
    <3>1. PICK a \in 1..k : i = l + a
      BY <1>4, <2>6
    <3>2. PICK h \in 1..k : j = l + h
      BY <1>4, <2>6
    <3>3. QED BY <1>8, <2>3, <3>1, <3>2
  <2>7. QED BY <2>1, <2>4, <2>5, <2>6
<1>9. Bush(all, prefixes \cup {p})
  <2>1. Len(all) > 0 /\ all[1] = Node(Root, NoNode, 0, FALSE)
    <3>1. 1 \in 1..l /\ Len(all) > 0
      BY <1>1, <1>3
    <3>2. nodes[1] = Node(Root, NoNode, 0, FALSE)
      BY DEF Bush
    <3>3. QED BY <1>3, <3>1, <3>2
  <2>2. QED BY <1>3, <1>5, <1>8, <2>1, Zenon DEF Bush
<1>10. ASSUME NEW i \in 1..l PROVE \E j \in 1..Len(all) : all[j] = nodes[i]
  <2>1. i \in 1..Len(all)
    BY <1>1, <1>3
  <2>2. QED BY <1>3, <2>1
<1>11. ASSUME NEW i \in 1..k PROVE \E j \in 1..Len(all) : all[j] = Leaf(p, i - 1)
  <2>1. l + i \in 1..Len(all)
    BY <1>1, <1>3
  <2>2. QED BY <1>3, <2>1
<1>12. QED BY <1>9, <1>10, <1>11, Zenon DEF Grafted, l

(* The tables are at most the words, so they are finitely many.            *)
LEMMA TablesForm ==
  ASSUME NEW words, Len(words) \in Nat
  PROVE  \E k \in Nat : DOMAIN TableMentions(words) = 1..k /\ (TableMentions(words) # <<>> => k > 0)
<1> DEFINE at == {i \in 1..Len(words) - 1 :
                    /\ words[i] \in {"from", "join", "update", "into"}
                    /\ words[i + 1] \notin TableNoise}
           names == {words[i + 1] : i \in at}
<1>1. IsFiniteSet(at)
  <2>1. IsFiniteSet(1..Len(words) - 1)
    <3>1. Len(words) - 1 \in Int
      OBVIOUS
    <3>2. QED BY <3>1, FS_Interval
  <2>2. at \in SUBSET (1..Len(words) - 1)
    OBVIOUS
  <2> HIDE DEF at
  <2>3. QED BY <2>1, <2>2, FS_Subset
<1>2. IsFiniteSet(names)
  <2> HIDE DEF at
  <2>1. [i \in at |-> words[i + 1]] \in Surjection(at, names)
    BY DEF Surjection
  <2>2. QED BY <1>1, <2>1, FS_Surjection
<1>3. TableMentions(words) = IF Cardinality(names) <= MaxTables THEN SetToSeq(names)
                             ELSE SubSeq(SetToSeq(names), 1, MaxTables)
  BY Zenon DEF TableMentions
<1> HIDE DEF names
<1>4. /\ Cardinality(names) \in Nat
      /\ SetToSeq(names) \in Seq(names) /\ Len(SetToSeq(names)) = Cardinality(names)
  BY <1>2, SetToSeqForm
<1>5. PICK tables : tables = TableMentions(words)
  OBVIOUS
<1>6. MaxTables \in Nat
  BY PlanAssumption
<1>7. tables \in Seq(names)
  <2>1. CASE Cardinality(names) <= MaxTables
    BY <1>3, <1>4, <1>5, <2>1
  <2>2. CASE ~ Cardinality(names) <= MaxTables
    <3>1. SubSeq(SetToSeq(names), 1, MaxTables) \in Seq(names)
      BY <1>4, <1>6, <2>2, SubSeqProperties
    <3>2. QED BY <1>3, <1>5, <2>2, <3>1
  <2>3. QED BY <2>1, <2>2
<1>8. Len(tables) \in Nat /\ DOMAIN tables = 1..Len(tables) /\ (tables # <<>> => Len(tables) > 0)
  BY <1>7, LenProperties, EmptySeq
<1>9. QED BY <1>5, <1>8

Part(p, k) == IF k = 1 THEN <<Node(<<p, 0>>, Root, 1, FALSE)>> ELSE <<>>
Tables(words) ==
  [i \in DOMAIN TableMentions(words) |-> Node(<<"static-scan", i - 1>>, Root, 1, FALSE)]

LEMMA PartForm ==
  ASSUME NEW p, NEW k \in {0, 1}
  PROVE  Part(p, k) = [i \in 1..k |-> Leaf(p, i - 1)]
<1>1. CASE k = 1
  <2>1. PICK leaf : leaf = Leaf(p, 0)
    OBVIOUS
  <2>2. Part(p, k) = <<leaf>>
    BY <1>1, <2>1, Zenon DEF Part, Leaf
  <2>3. PICK m : m = [i \in 1..1 |-> Leaf(p, i - 1)]
    OBVIOUS
  <2>4. \A i \in 1..1 : i = 1 /\ i - 1 = 0
    OBVIOUS
  <2>5. DOMAIN m = 1..1 /\ m[1] = leaf
    BY <2>1, <2>3, <2>4
  <2>6. m = <<leaf>>
    <3>1. m = [i \in 1..1 |-> m[i]]
      BY <2>3, <2>5
    <3>2. \A i \in 1..1 : m[i] = leaf
      BY <2>4, <2>5
    <3>3. QED BY <3>1, <3>2
  <2>7. QED BY <1>1, <2>2, <2>3, <2>6
<1>2. CASE k = 0
  <2>1. Part(p, k) = <<>>
    BY <1>2 DEF Part
  <2>2. [i \in 1..0 |-> Leaf(p, i - 1)] = <<>>
    OBVIOUS
  <2>3. QED BY <1>2, <2>1, <2>2
<1>3. QED BY <1>1, <1>2

LEMMA StaticParts ==
  ASSUME NEW words
  PROVE  \E k1, k2, k3, k4 \in {0, 1} :
           /\ StaticNodes(words) =
                ((((<<Node(Root, NoNode, 0, FALSE)>> \o Tables(words))
                   \o Part("static-join", k1)) \o Part("static-filter", k2))
                   \o Part("static-aggregate", k3)) \o Part("static-sort", k4)
           /\ Joins(words) > 0 => k1 = 1
           /\ Has(words, {"order"}) => k4 = 1
<1> DEFINE Bit(there) == IF there THEN 1 ELSE 0
           part(id, there) == IF there THEN <<Node(<<id, 0>>, Root, 1, FALSE)>> ELSE <<>>
<1>1. ASSUME NEW there \in BOOLEAN
      PROVE  Bit(there) \in {0, 1} /\ (there => Bit(there) = 1) /\ (~there => Bit(there) # 1)
  OBVIOUS
<1>2. StaticNodes(words) =
        ((((<<Node(Root, NoNode, 0, FALSE)>> \o Tables(words))
           \o part("static-join", Joins(words) > 0)) \o part("static-filter", Has(words, {"where"})))
           \o part("static-aggregate", Has(words, {"group", "distinct"})))
           \o part("static-sort", Has(words, {"order"}))
  BY Zenon DEF StaticNodes, Tables
<1>3. /\ part("static-join", Joins(words) > 0) = Part("static-join", Bit(Joins(words) > 0))
      /\ Bit(Joins(words) > 0) \in {0, 1} /\ (Joins(words) > 0 => Bit(Joins(words) > 0) = 1)
  <2>1. CASE Joins(words) > 0
    BY <2>1, 1 = 1, Zenon DEF Part
  <2>2. CASE ~ (Joins(words) > 0)
    BY <2>2, 0 # 1, Zenon DEF Part
  <2>3. QED BY <2>1, <2>2
<1>4. /\ part("static-filter", Has(words, {"where"})) = Part("static-filter", Bit(Has(words, {"where"})))
      /\ Bit(Has(words, {"where"})) \in {0, 1}
  <2>1. CASE Has(words, {"where"})
    BY <2>1, 1 = 1, Zenon DEF Part
  <2>2. CASE ~ Has(words, {"where"})
    BY <2>2, 0 # 1, Zenon DEF Part
  <2>3. QED BY <2>1, <2>2
<1>5. /\ part("static-aggregate", Has(words, {"group", "distinct"})) =
           Part("static-aggregate", Bit(Has(words, {"group", "distinct"})))
      /\ Bit(Has(words, {"group", "distinct"})) \in {0, 1}
  <2>1. CASE Has(words, {"group", "distinct"})
    BY <2>1, 1 = 1, Zenon DEF Part
  <2>2. CASE ~ Has(words, {"group", "distinct"})
    BY <2>2, 0 # 1, Zenon DEF Part
  <2>3. QED BY <2>1, <2>2
<1>6. /\ part("static-sort", Has(words, {"order"})) = Part("static-sort", Bit(Has(words, {"order"})))
      /\ Bit(Has(words, {"order"})) \in {0, 1} /\ (Has(words, {"order"}) => Bit(Has(words, {"order"})) = 1)
  <2>1. CASE Has(words, {"order"})
    BY <2>1, 1 = 1, Zenon DEF Part
  <2>2. CASE ~ Has(words, {"order"})
    BY <2>2, 0 # 1, Zenon DEF Part
  <2>3. QED BY <2>1, <2>2
<1> HIDE DEF Bit, part
<1>7. QED BY <1>2, <1>3, <1>4, <1>5, <1>6, Zenon

LEMMA BushRoot ==
  ASSUME NEW nodes, nodes = <<Node(Root, NoNode, 0, FALSE)>>
  PROVE  Bush(nodes, {})
<1>1. PICK root \in PlanNode : root = Node(Root, NoNode, 0, FALSE)
  BY RootForm
<1>2. nodes = <<root>>
  BY <1>1
<1>3. nodes \in Seq(PlanNode) /\ Len(nodes) = 1 /\ nodes[1] = root
  <2>1. <<root>> \in Seq(PlanNode)
    OBVIOUS
  <2>2. Len(<<root>>) = 1 /\ <<root>>[1] = root
    OBVIOUS
  <2>3. QED BY <1>2, <2>1, <2>2
<1>4. \A i \in 2..Len(nodes) : \E p \in {} : \E n \in Int : nodes[i] = Leaf(p, n)
  BY <1>3
<1>5. \A i, j \in 1..Len(nodes) : nodes[i].id = nodes[j].id => i = j
  BY <1>3
<1>6. Len(nodes) > 0
  BY <1>3
<1>7. QED BY <1>1, <1>3, <1>4, <1>5, <1>6, Zenon DEF Bush

LEMMA StaticForm ==
  ASSUME NEW words, Len(words) \in Nat, NEW nodes, nodes = StaticNodes(words)
  PROVE  /\ Bush(nodes, LeafPrefixes)
         /\ Joins(words) > 0 => \E j \in 1..Len(nodes) : nodes[j] = Leaf("static-join", 0)
         /\ Has(words, {"order"}) => \E j \in 1..Len(nodes) : nodes[j] = Leaf("static-sort", 0)
<1>1. PICK k1 \in {0, 1}, k2 \in {0, 1}, k3 \in {0, 1}, k4 \in {0, 1} :
           /\ nodes = ((((<<Node(Root, NoNode, 0, FALSE)>> \o Tables(words))
                   \o Part("static-join", k1)) \o Part("static-filter", k2))
                   \o Part("static-aggregate", k3)) \o Part("static-sort", k4)
           /\ Joins(words) > 0 => k1 = 1
           /\ Has(words, {"order"}) => k4 = 1
  BY StaticParts, Zenon
<1>2. k1 \in Nat /\ k2 \in Nat /\ k3 \in Nat /\ k4 \in Nat
  OBVIOUS
<1>3. PICK k0, m0 : /\ k0 \in Nat /\ m0 = Tables(words)
                   /\ m0 = [i \in 1..k0 |-> Leaf("static-scan", i - 1)]
  <2>1. PICK k \in Nat : DOMAIN TableMentions(words) = 1..k
    BY TablesForm
  <2>2. Tables(words) = [i \in 1..k |-> Leaf("static-scan", i - 1)]
    BY <2>1, Zenon DEF Tables, Leaf
  <2>3. QED BY <2>2
<1>4. PICK m1 : m1 = Part("static-join", k1) /\ m1 = [i \in 1..k1 |-> Leaf("static-join", i - 1)]
  BY PartForm, Zenon
<1>5. PICK m2 : m2 = Part("static-filter", k2) /\ m2 = [i \in 1..k2 |-> Leaf("static-filter", i - 1)]
  BY PartForm, Zenon
<1>6. PICK m3 : m3 = Part("static-aggregate", k3) /\ m3 = [i \in 1..k3 |-> Leaf("static-aggregate", i - 1)]
  BY PartForm, Zenon
<1>7. PICK m4 : m4 = Part("static-sort", k4) /\ m4 = [i \in 1..k4 |-> Leaf("static-sort", i - 1)]
  BY PartForm, Zenon
<1>8. PICK b : b = <<Node(Root, NoNode, 0, FALSE)>>
  OBVIOUS
<1>9. PICK b0 : b0 = b \o m0
  OBVIOUS
<1>10. PICK b1 : b1 = b0 \o m1
  OBVIOUS
<1>11. PICK b2 : b2 = b1 \o m2
  OBVIOUS
<1>12. PICK b3 : b3 = b2 \o m3
  OBVIOUS
<1>13. nodes = b3 \o m4
  BY <1>1, <1>3, <1>4, <1>5, <1>6, <1>7, <1>8, <1>9, <1>10, <1>11, <1>12, Zenon
<1>14. Bush(b, {})
  BY <1>8, BushRoot
<1>15. Bush(b0, {"static-scan"})
  <2>1. "static-scan" \in LeafPrefixes \ {} /\ {} \in SUBSET LeafPrefixes
    BY DEF LeafPrefixes
  <2>2. Grafted(b0, b, {} \cup {"static-scan"}, "static-scan", k0)
    BY <1>3, <1>9, <1>14, <2>1, BushMore
  <2>3. {} \cup {"static-scan"} = {"static-scan"}
    OBVIOUS
  <2>4. QED BY <2>2, <2>3 DEF Grafted
<1>16. /\ Bush(b1, {"static-scan", "static-join"})
       /\ \A i \in 1..k1 : \E j \in 1..Len(b1) : b1[j] = Leaf("static-join", i - 1)
  <2>1. PICK P, p : P = {"static-scan"} /\ p = "static-join"
    OBVIOUS
  <2>2. p \in LeafPrefixes \ P /\ P \in SUBSET LeafPrefixes
    BY <2>1 DEF LeafPrefixes
  <2>3. m1 = [i \in 1..k1 |-> Leaf(p, i - 1)] /\ k1 \in Nat /\ Bush(b0, P)
    BY <1>2, <1>4, <1>15, <2>1
  <2>4. Grafted(b1, b0, P \cup {p}, p, k1)
    BY ONLY <1>10, <2>2, <2>3, BushMore
  <2>5. P \cup {p} = {"static-scan", "static-join"}
    BY <2>1 DEF LeafPrefixes
  <2>6. QED BY <2>1, <2>4, <2>5 DEF Grafted
<1>17. /\ Bush(b2, {"static-scan", "static-join", "static-filter"})
       /\ \A i \in 1..Len(b1) : \E j \in 1..Len(b2) : b2[j] = b1[i]
  <2>1. PICK P, p : P = {"static-scan", "static-join"} /\ p = "static-filter"
    OBVIOUS
  <2>2. p \in LeafPrefixes \ P /\ P \in SUBSET LeafPrefixes
    BY <2>1 DEF LeafPrefixes
  <2>3. m2 = [i \in 1..k2 |-> Leaf(p, i - 1)] /\ k2 \in Nat /\ Bush(b1, P)
    BY <1>2, <1>5, <1>16, <2>1
  <2>4. Grafted(b2, b1, P \cup {p}, p, k2)
    BY ONLY <1>11, <2>2, <2>3, BushMore
  <2>5. P \cup {p} = {"static-scan", "static-join", "static-filter"}
    BY <2>1 DEF LeafPrefixes
  <2>6. QED BY <2>1, <2>4, <2>5 DEF Grafted
<1>18. /\ Bush(b3, {"static-scan", "static-join", "static-filter", "static-aggregate"})
       /\ \A i \in 1..Len(b2) : \E j \in 1..Len(b3) : b3[j] = b2[i]
  <2>1. PICK P, p : P = {"static-scan", "static-join", "static-filter"} /\ p = "static-aggregate"
    OBVIOUS
  <2>2. p \in LeafPrefixes \ P /\ P \in SUBSET LeafPrefixes
    BY <2>1 DEF LeafPrefixes
  <2>3. m3 = [i \in 1..k3 |-> Leaf(p, i - 1)] /\ k3 \in Nat /\ Bush(b2, P)
    BY <1>2, <1>6, <1>17, <2>1
  <2>4. Grafted(b3, b2, P \cup {p}, p, k3)
    BY ONLY <1>12, <2>2, <2>3, BushMore
  <2>5. P \cup {p} = {"static-scan", "static-join", "static-filter", "static-aggregate"}
    BY <2>1 DEF LeafPrefixes
  <2>6. QED BY <2>1, <2>4, <2>5 DEF Grafted
<1>19. /\ Bush(nodes, LeafPrefixes)
       /\ \A i \in 1..Len(b3) : \E j \in 1..Len(nodes) : nodes[j] = b3[i]
       /\ \A i \in 1..k4 : \E j \in 1..Len(nodes) : nodes[j] = Leaf("static-sort", i - 1)
  <2>1. PICK P, p : P = {"static-scan", "static-join", "static-filter", "static-aggregate"} /\ p = "static-sort"
    OBVIOUS
  <2>2. p \in LeafPrefixes \ P /\ P \in SUBSET LeafPrefixes
    BY <2>1 DEF LeafPrefixes
  <2>3. m4 = [i \in 1..k4 |-> Leaf(p, i - 1)] /\ k4 \in Nat /\ Bush(b3, P)
    BY <1>2, <1>7, <1>18, <2>1
  <2>4. Grafted(nodes, b3, P \cup {p}, p, k4)
    BY ONLY <1>13, <2>2, <2>3, BushMore
  <2>5. P \cup {p} = LeafPrefixes
    BY <2>1 DEF LeafPrefixes
  <2>6. QED BY <2>1, <2>4, <2>5 DEF Grafted
<1>20. ASSUME Joins(words) > 0
       PROVE  \E j \in 1..Len(nodes) : nodes[j] = Leaf("static-join", 0)
  <2>1. 1 \in 1..k1 /\ 1 - 1 = 0
    BY <1>1, <1>20
  <2>2. PICK j1 \in 1..Len(b1) : b1[j1] = Leaf("static-join", 0)
    BY <1>16, <2>1
  <2>3. PICK j2 \in 1..Len(b2) : b2[j2] = b1[j1]
    BY <1>17
  <2>4. PICK j3 \in 1..Len(b3) : b3[j3] = b2[j2]
    BY <1>18
  <2>5. PICK j4 \in 1..Len(nodes) : nodes[j4] = b3[j3]
    BY <1>19
  <2>6. QED BY <2>2, <2>3, <2>4, <2>5
<1>21. ASSUME Has(words, {"order"})
       PROVE  \E j \in 1..Len(nodes) : nodes[j] = Leaf("static-sort", 0)
  <2>1. 1 \in 1..k4 /\ 1 - 1 = 0
    BY <1>1, <1>21
  <2>2. QED BY <1>19, <2>1
<1>22. QED BY <1>19, <1>20, <1>21

(* The ids of a picture's nodes.                                           *)
Ids(nodes) == {nodes[j].id : j \in 1..Len(nodes)}

LEMMA StaticRisksNamed ==
  ASSUME NEW words \in Seq(STRING), NEW f \in StaticRisks(words)
  PROVE  /\ f.node \in Ids(StaticNodes(words))
         /\ f.title \in {"Broad read candidate", "Wide projection", "Join-heavy query",
                         "Unbounded sort"}
<1>1. PICK nodes : nodes = StaticNodes(words) /\ Len(words) \in Nat
  BY LenProperties
<1>2. /\ Bush(nodes, LeafPrefixes)
      /\ Joins(words) > 0 => \E j \in 1..Len(nodes) : nodes[j] = Leaf("static-join", 0)
      /\ Has(words, {"order"}) => \E j \in 1..Len(nodes) : nodes[j] = Leaf("static-sort", 0)
  BY <1>1, StaticForm
<1>3. Root \in Ids(nodes)
  <2>1. 1 \in 1..Len(nodes) /\ nodes[1] = Node(Root, NoNode, 0, FALSE)
    BY <1>2, LenProperties DEF Bush
  <2>2. nodes[1].id = Root
    BY <2>1, RootForm
  <2>3. QED BY <2>1, <2>2 DEF Ids
<1>4. ASSUME NEW j \in 1..Len(nodes), NEW p \in LeafPrefixes, nodes[j] = Leaf(p, 0)
      PROVE  <<p, 0>> \in Ids(nodes)
  <2>1. nodes[j].id = <<p, 0>>
    BY <1>4, LeafForm
  <2>2. QED BY <2>1 DEF Ids
<1>5. "static-join" \in LeafPrefixes /\ "static-sort" \in LeafPrefixes
  BY DEF LeafPrefixes
<1>6. Joins(words) > 0 => <<"static-join", 0>> \in Ids(nodes)
  BY <1>2, <1>4, <1>5
<1>7. Has(words, {"order"}) => <<"static-sort", 0>> \in Ids(nodes)
  BY <1>2, <1>4, <1>5
<1>8. Joins(words) >= 3 => Joins(words) > 0
  <2>1. Joins(words) \in Nat
    <3> DEFINE at == {i \in DOMAIN words : words[i] = "join"}
    <3>1. IsFiniteSet(1..Len(words))
      <4>1. 1 \in Int /\ Len(words) \in Int
        BY LenProperties
      <4>2. QED BY <4>1, FS_Interval
    <3>2. at \in SUBSET (1..Len(words))
      BY LenProperties
    <3> HIDE DEF at
    <3>3. Cardinality(at) \in Nat
      BY <3>1, <3>2, FS_CardinalityType, FS_Subset
    <3>4. QED BY <3>3 DEF Joins, at
  <2>2. QED BY <2>1
<1>9. \/ f = Finding("Broad read candidate", Root)
      \/ f = Finding("Wide projection", Root)
      \/ Joins(words) >= 3 /\ f = Finding("Join-heavy query", <<"static-join", 0>>)
      \/ Has(words, {"order"}) /\ f = Finding("Unbounded sort", <<"static-sort", 0>>)
  <2>1. ASSUME NEW condition, NEW finding, f \in When(condition, finding)
        PROVE  condition /\ f = finding
    BY <2>1 DEF When
  <2>2. QED BY <2>1, Zenon DEF StaticRisks
<1>10. ASSUME NEW title, NEW id
       PROVE  Finding(title, id).title = title /\ Finding(title, id).node = id
  BY DEF Finding
<1>11. ASSUME NEW title, NEW id, f = Finding(title, id)
       PROVE  f.title = title /\ f.node = id
  BY <1>10, <1>11
<1>12. CASE f = Finding("Broad read candidate", Root)
  BY <1>1, <1>3, <1>11, <1>12
<1>13. CASE f = Finding("Wide projection", Root)
  BY <1>1, <1>3, <1>11, <1>13
<1>14. CASE Joins(words) >= 3 /\ f = Finding("Join-heavy query", <<"static-join", 0>>)
  BY <1>1, <1>6, <1>8, <1>11, <1>14
<1>15. CASE Has(words, {"order"}) /\ f = Finding("Unbounded sort", <<"static-sort", 0>>)
  BY <1>1, <1>7, <1>11, <1>15
<1>16. QED BY <1>9, <1>12, <1>13, <1>14, <1>15, Zenon

-----------------------------------------------------------------------------
(* The chain of rows, and SQLite's rows.                                   *)

LEMMA RowsHang ==
  ASSUME NEW rows, NEW k \in Nat, DOMAIN rows = 1..k, NEW nodes, nodes = RowNodes(rows)
  PROVE  Hangs(nodes, 0)
<1> DEFINE idOf(i) == <<"native-row", i - 1>>
           parentOf(i) == IF i = 1 THEN NoNode ELSE <<"native-row", i - 2>>
<1>1. ASSUME NEW i \in 1..k
      PROVE  /\ nodes[i] \in PlanNode /\ nodes[i].id = idOf(i)
             /\ nodes[i].parent = parentOf(i) /\ nodes[i].depth = i - 1
  <2>1. i - 1 \in Int /\ i - 2 \in Int
    OBVIOUS
  <2>2. PICK id \in NodeIds : id = idOf(i)
    BY <2>1, IdForm
  <2>3. PICK parent \in NodeIds \cup {NoNode} : parent = parentOf(i)
    BY <2>1, IdForm
  <2>4. nodes[i] = Node(id, parent, i - 1, FALSE)
    BY <2>2, <2>3, Zenon DEF RowNodes
  <2> HIDE DEF idOf, parentOf
  <2>5. nodes[i] \in PlanNode /\ nodes[i].id = id /\ nodes[i].parent = parent /\ nodes[i].depth = i - 1
    BY <2>1, <2>4 DEF Node, PlanNode
  <2>6. QED BY <2>2, <2>3, <2>5
<1>2. nodes \in Seq(PlanNode) /\ Len(nodes) = k
  <2>1. nodes = [i \in 1..k |-> nodes[i]]
    BY Zenon DEF RowNodes
  <2> HIDE DEF idOf, parentOf
  <2>2. nodes \in [1..k -> PlanNode]
    BY <1>1, <2>1
  <2>3. QED BY <2>2
<1>3. ASSUME NEW i \in 1..k, NEW j \in 1..k, nodes[i].id = nodes[j].id PROVE i = j
  <2>1. idOf(i) = idOf(j)
    BY <1>1, <1>3
  <2>2. QED BY <2>1
<1>4. ASSUME NEW i \in 1..k, nodes[i].parent # NoNode
      PROVE  \E j \in 1..i - 1 : HangsUnder(nodes, i, j, 0)
  <2>1. i # 1
    BY <1>1, <1>4
  <2>2. i - 1 \in 1..i - 1 /\ i - 1 \in 1..k
    BY <2>1
  <2>3. nodes[i].parent = idOf(i - 1)
    <3>1. (i - 1) - 1 = i - 2
      OBVIOUS
    <3>2. nodes[i].parent = parentOf(i)
      BY <1>1
    <3>3. QED BY <2>1, <3>1, <3>2
  <2>4. nodes[i - 1].id = idOf(i - 1) /\ nodes[i - 1].depth = (i - 1) - 1 /\ nodes[i].depth = i - 1
    BY <1>1, <2>2
  <2> HIDE DEF idOf
  <2>5. HangsUnder(nodes, i, i - 1, 0)
    BY <2>3, <2>4 DEF HangsUnder
  <2>6. QED BY <2>2, <2>5
<1>5. QED BY <1>2, <1>3, <1>4, Zenon DEF Hangs

SqliteRow == [id : Nat \ {0}, parent : Int, risky : BOOLEAN]

LEMMA SqliteHangs ==
  ASSUME NEW rows, PlanForm("sqlite", rows), NEW nodes, nodes = SqliteNodes(rows)
  PROVE  Hangs(nodes, 1)
<1> DEFINE k == Len(rows)
           root == <<"sqlite-root", 0>>
           ids == {row.id : row \in Range(rows)}
           idOf(i) == <<"sqlite", rows[i].id>>
           parentOf(i) == IF rows[i].parent \in ids THEN <<"sqlite", rows[i].parent>>
                          ELSE IF i > 1 THEN root ELSE NoNode
           depthOf(i) == IF rows[i].parent <= 0 THEN 1 ELSE 2
<1>1. /\ rows \in Seq(SqliteRow)
      /\ \A i, j \in DOMAIN rows : /\ rows[i].id = rows[j].id => i = j
                                   /\ rows[i].id = rows[j].parent => i < j
  BY DEF PlanForm, SqliteRow
<1>2. /\ k \in Nat /\ DOMAIN rows = 1..k
      /\ \A i \in 1..k : rows[i].id \in Nat \ {0} /\ rows[i].parent \in Int /\ rows[i].risky \in BOOLEAN
  <2>1. k \in Nat /\ DOMAIN rows = 1..k /\ \A i \in 1..k : rows[i] \in SqliteRow
    BY <1>1, LenProperties, ElementOfSeq
  <2>2. QED BY <2>1 DEF SqliteRow
<1>3. \A i, j \in 1..k : /\ rows[i].id = rows[j].id => i = j
                         /\ rows[i].id = rows[j].parent => i < j
  BY <1>1, <1>2
<1>4. ids = {rows[j].id : j \in 1..k}
  <2>1. Range(rows) = {rows[j] : j \in 1..k}
    BY <1>2 DEF Range
  <2>2. QED BY <2>1
<1> HIDE DEF k, ids
<1>5. PICK first : first = Node(root, NoNode, 0, FALSE)
  OBVIOUS
<1>6. first \in PlanNode /\ first.id = root /\ first.parent = NoNode /\ first.depth = 0
  <2>1. PICK r \in NodeIds : r = root
    <3>1. root \in NodeIds
      BY 0 \in Int, IdForm
    <3>2. QED BY <3>1
  <2>2. first = Node(r, NoNode, 0, FALSE)
    BY <1>5, <2>1
  <2> HIDE DEF root
  <2>3. first \in PlanNode /\ first.id = r /\ first.parent = NoNode /\ first.depth = 0
    BY <2>2 DEF Node, PlanNode
  <2>4. QED BY <2>1, <2>3
<1>7. PICK m : m = [i \in 1..k |-> Node(idOf(i), parentOf(i), depthOf(i), rows[i].risky)]
  OBVIOUS
<1>8. nodes = <<first>> \o m
  BY <1>2, <1>5, <1>7, Zenon DEF SqliteNodes, ids
<1>9. ASSUME NEW i \in 1..k
      PROVE  /\ m[i] \in PlanNode /\ m[i].id = idOf(i)
             /\ m[i].parent = parentOf(i) /\ m[i].depth = depthOf(i)
  <2>1. PICK id \in NodeIds : id = idOf(i)
    <3>1. rows[i].id \in Int
      BY <1>2
    <3>2. QED BY <3>1, IdForm
  <2>2. PICK parent \in NodeIds \cup {NoNode} : parent = parentOf(i)
    <3>1. rows[i].parent \in Int
      BY <1>2
    <3>2. <<"sqlite", rows[i].parent>> \in NodeIds /\ root \in NodeIds
      BY <3>1, IdForm
    <3>3. QED BY <3>2, Zenon
  <2>3. PICK depth \in Int : depth = depthOf(i)
    OBVIOUS
  <2>4. PICK risky \in BOOLEAN : risky = rows[i].risky
    BY <1>2
  <2>5. m[i] = Node(id, parent, depth, risky)
    BY <1>7, <2>1, <2>2, <2>3, <2>4, Zenon
  <2> HIDE DEF idOf, parentOf, depthOf
  <2>6. QED BY <2>1, <2>2, <2>3, <2>5, NodeForm
<1>10. /\ nodes \in Seq(PlanNode) /\ Len(nodes) = 1 + k
       /\ nodes[1] = first
       /\ \A i \in 1..k : nodes[1 + i] = m[i]
  <2> HIDE DEF idOf, parentOf, depthOf
  <2>1. m \in Seq(PlanNode) /\ Len(m) = k
    <3>1. m \in [1..k -> PlanNode]
      BY <1>7, <1>9
    <3>2. QED BY <1>2, <3>1
  <2>2. PICK one \in Seq(PlanNode) : one = <<first>> /\ Len(one) = 1 /\ one[1] = first
    <3>1. first \in PlanNode
      BY <1>6
    <3>2. <<first>> \in Seq(PlanNode) /\ Len(<<first>>) = 1 /\ <<first>>[1] = first
      BY ONLY <3>1
    <3>3. QED BY <3>2
  <2>3. /\ nodes \in Seq(PlanNode) /\ Len(nodes) = 1 + k
        /\ \A i \in 1..(1 + k) : nodes[i] = IF i <= 1 THEN one[i] ELSE m[i - 1]
    BY <1>8, <2>1, <2>2, ConcatProperties
  <2>4. nodes[1] = first
    <3>1. 1 \in 1..(1 + k)
      BY <1>2
    <3>2. QED BY <2>2, <2>3, <3>1
  <2>5. ASSUME NEW i \in 1..k PROVE nodes[1 + i] = m[i]
    <3>1. 1 + i \in 1..(1 + k) /\ ~ 1 + i <= 1 /\ (1 + i) - 1 = i
      BY <1>2
    <3>2. QED BY ONLY <2>3, <3>1
  <2>6. QED BY <2>3, <2>4, <2>5
<1>11. \A i \in 1..Len(nodes) : i = 1 \/ \E a \in 1..k : i = 1 + a
  <2>1. ASSUME NEW i \in 1..Len(nodes), i # 1 PROVE \E a \in 1..k : i = 1 + a
    <3>1. i - 1 \in 1..k /\ i = 1 + (i - 1)
      BY <1>2, <1>10, <2>1
    <3>2. QED BY <3>1
  <2>2. QED BY <2>1
<1>12. ASSUME NEW a \in 1..k
       PROVE  /\ nodes[1 + a].id = idOf(a) /\ nodes[1 + a].parent = parentOf(a)
              /\ nodes[1 + a].depth = depthOf(a)
  BY ONLY <1>9, <1>10, a \in 1..k
<1>13. nodes[1].id = root /\ nodes[1].parent = NoNode /\ nodes[1].depth = 0
  BY ONLY <1>6, <1>10
<1>14. ASSUME NEW i \in 1..Len(nodes), NEW j \in 1..Len(nodes), nodes[i].id = nodes[j].id
       PROVE  i = j
  <2>1. ASSUME NEW a \in 1..k PROVE idOf(a) # root
    OBVIOUS
  <2>2. ASSUME NEW a \in 1..k, NEW b \in 1..k, idOf(a) = idOf(b) PROVE a = b
    <3>1. rows[a].id = rows[b].id
      BY <2>2
    <3>2. QED BY <1>3, <3>1
  <2> HIDE DEF idOf, root
  <2>3. CASE i = 1 /\ j # 1
    BY ONLY <1>11, <1>12, <1>13, <1>14, <2>1, <2>3, i \in 1..Len(nodes), j \in 1..Len(nodes)
  <2>4. CASE i # 1 /\ j = 1
    BY ONLY <1>11, <1>12, <1>13, <1>14, <2>1, <2>4, i \in 1..Len(nodes), j \in 1..Len(nodes)
  <2>5. CASE i # 1 /\ j # 1
    <3>1. PICK a \in 1..k, b \in 1..k : i = 1 + a /\ j = 1 + b
      BY ONLY <1>11, <2>5, i \in 1..Len(nodes), j \in 1..Len(nodes)
    <3>2. nodes[i].id = idOf(a) /\ nodes[j].id = idOf(b)
      BY <1>12, <3>1
    <3>3. a = b
      BY <1>14, <2>2, <3>2
    <3>4. QED BY <3>1, <3>3
  <2>6. QED BY <2>3, <2>4, <2>5
<1>15. ASSUME NEW i \in 1..Len(nodes), nodes[i].parent # NoNode
       PROVE  \E j \in 1..i - 1 : HangsUnder(nodes, i, j, 1)
  <2>1. PICK a \in 1..k : i = 1 + a
    BY ONLY <1>11, <1>13, <1>15, i \in 1..Len(nodes)
  <2>2. nodes[i].parent = parentOf(a) /\ nodes[i].depth = depthOf(a) /\ parentOf(a) # NoNode
    BY ONLY <1>12, <1>15, <2>1
  <2>3. CASE rows[a].parent \in ids
    <3>1. PICK b \in 1..k : rows[b].id = rows[a].parent
      BY <1>4, <2>3
    <3>2. b < a /\ rows[b].id > 0
      BY <1>2, <1>3, <3>1
    <3>3. 1 + b \in 1..i - 1
      BY <2>1, <3>2
    <3>4. nodes[1 + b].id = nodes[i].parent
      BY <1>12, <2>2, <2>3, <3>1
    <3>5. depthOf(a) = 2
      <4>1. ~ (rows[a].parent <= 0)
        BY <1>2, <3>1, <3>2
      <4>2. QED BY <4>1, Zenon
    <3>6. depthOf(b) \in {1, 2}
      OBVIOUS
    <3> HIDE DEF depthOf, parentOf, idOf
    <3>9. nodes[1 + b].depth = depthOf(b) /\ nodes[i].depth = 2
      BY <1>12, <2>2, <3>5
    <3>10. nodes[1 + b].depth < nodes[i].depth + 1
      BY <3>6, <3>9
    <3>7. HangsUnder(nodes, i, 1 + b, 1)
      BY <3>4, <3>10 DEF HangsUnder
    <3>8. QED BY <3>3, <3>7
  <2>4. CASE rows[a].parent \notin ids
    <3>1. nodes[i].parent = root
      BY <2>2, <2>4
    <3>2. depthOf(a) \in {1, 2} /\ 1 \in 1..i - 1
      BY <2>1
    <3>3. nodes[1].depth < nodes[i].depth + 1
      BY <1>13, <2>2, <3>2
    <3>4. HangsUnder(nodes, i, 1, 1)
      BY <1>13, <3>1, <3>3 DEF HangsUnder
    <3>5. QED BY <3>2, <3>4
  <2>5. QED BY <2>3, <2>4
<1>16. QED BY <1>10, <1>14, <1>15, Zenon DEF Hangs

-----------------------------------------------------------------------------
(* The plans that are read by a recursion.                                 *)

Value == [under : Nat, array : BOOLEAN, marked : BOOLEAN, risky : BOOLEAN]
Passed == [parent : NodeIds \cup {NoNode}, depth : Int]
Calls == [nodes : Seq(PlanNode), passed : Seq(Passed)]

(* There is a node for the parent that is passed, and it is drawn higher.  *)
Under(nodes, parent, depth) ==
  parent # NoNode => \E j \in 1..Len(nodes) : nodes[j].id = parent /\ nodes[j].depth < depth
(* The ids number the nodes, and each node hangs under one before it.      *)
Chain(nodes, prefix) ==
  /\ nodes \in Seq(PlanNode)
  /\ \A i \in 1..Len(nodes) : nodes[i].id = <<prefix, i - 1>>
  /\ \A i \in 1..Len(nodes) :
       nodes[i].parent # NoNode => \E j \in 1..i - 1 : HangsUnder(nodes, i, j, 0)
Passes(passed, nodes, k) ==
  /\ passed \in Seq(Passed) /\ Len(passed) = k
  /\ \A v \in 1..k : Under(nodes, passed[v].parent, passed[v].depth)
Grown(calls, prefix, k) ==
  calls \in Calls /\ Chain(calls.nodes, prefix) /\ Passes(calls.passed, calls.nodes, k)

LEMMA ChainHangs ==
  ASSUME NEW nodes, NEW prefix, Chain(nodes, prefix)
  PROVE  Hangs(nodes, 0)
<1>1. ASSUME NEW i \in 1..Len(nodes), NEW j \in 1..Len(nodes), nodes[i].id = nodes[j].id
      PROVE  i = j
  <2>1. <<prefix, i - 1>> = <<prefix, j - 1>>
    BY <1>1 DEF Chain
  <2>2. QED BY <2>1
<1>2. QED BY <1>1, Zenon DEF Hangs, Chain

LEMMA UnderDeeper ==
  ASSUME NEW nodes \in Seq(PlanNode), NEW parent, NEW depth \in Int, Under(nodes, parent, depth)
  PROVE  Under(nodes, parent, depth + 1)
<1>1. ASSUME NEW j \in 1..Len(nodes) PROVE nodes[j].depth \in Int
  <2>1. nodes[j] \in PlanNode
    BY ElementOfSeq
  <2>2. QED BY <2>1 DEF PlanNode
<1>2. QED BY <1>1 DEF Under

(* What one more node, with this id and at this depth, makes of it.        *)
ChainedOn(nodes, more, prefix, id, depth) ==
  /\ Chain(more, prefix)
  /\ \A p, d : Under(nodes, p, d) => Under(more, p, d)
  /\ id \in NodeIds /\ id # NoNode
  /\ Under(more, id, depth + 1)

LEMMA ChainMore ==
  ASSUME NEW prefix \in {"pg", "mysql"}, NEW nodes, Chain(nodes, prefix),
         NEW parent \in NodeIds \cup {NoNode}, NEW depth \in Int, Under(nodes, parent, depth),
         NEW risky \in BOOLEAN, NEW id, id = <<prefix, Len(nodes)>>,
         NEW node, node = Node(id, parent, depth, risky),
         NEW more, more = Append(nodes, node)
  PROVE  ChainedOn(nodes, more, prefix, id, depth)
<1> DEFINE n == Len(nodes)
<1>1. /\ nodes \in Seq(PlanNode) /\ n \in Nat
      /\ \A i \in 1..n : nodes[i].id = <<prefix, i - 1>>
      /\ \A i \in 1..n :
           nodes[i].parent # NoNode => \E j \in 1..i - 1 : HangsUnder(nodes, i, j, 0)
  BY LenProperties DEF Chain
<1>2. id \in NodeIds /\ id # NoNode
  <2>1. n \in Int /\ prefix \in {"static-root", "static-scan", "static-join", "static-filter",
             "static-aggregate", "static-sort", "pg", "mysql", "native-row",
             "sqlite-root", "sqlite"}
    BY <1>1
  <2>2. QED BY <2>1, IdForm
<1>3. node = Node(id, parent, depth, risky)
  OBVIOUS
<1>4. node \in PlanNode /\ node.id = id /\ node.parent = parent /\ node.depth = depth
  BY ONLY <1>2, <1>3, parent \in NodeIds \cup {NoNode}, depth \in Int, risky \in BOOLEAN
  DEF Node, PlanNode
<1>5. /\ more \in Seq(PlanNode) /\ Len(more) = n + 1
      /\ \A i \in 1..n : more[i] = nodes[i]
      /\ more[n + 1] = node
  BY <1>1, <1>3, <1>4, AppendProperties
<1> HIDE DEF n
<1>6. \A i \in 1..Len(more) : i \in 1..n \/ i = n + 1
  BY <1>1, <1>5
<1>7. ASSUME NEW i \in 1..Len(more) PROVE more[i].id = <<prefix, i - 1>>
  <2>1. CASE i \in 1..n
    BY ONLY <1>1, <1>5, <2>1
  <2>2. CASE i = n + 1
    <3>1. i - 1 = n
      BY <1>1, <2>2
    <3>2. QED BY <1>4, <1>5, <2>2, <3>1 DEF n
  <2>3. QED BY <1>6, <2>1, <2>2
<1>8. ASSUME NEW i \in 1..Len(more), more[i].parent # NoNode
      PROVE  \E j \in 1..i - 1 : HangsUnder(more, i, j, 0)
  <2>1. CASE i \in 1..n
    <3>1. PICK j \in 1..i - 1 : HangsUnder(nodes, i, j, 0)
      BY ONLY <1>1, <1>5, <1>8, <2>1
    <3>2. j \in 1..n
      BY <1>1, <2>1
    <3>3. more[i] = nodes[i] /\ more[j] = nodes[j]
      BY <1>5, <2>1, <3>2
    <3>4. HangsUnder(more, i, j, 0)
      BY ONLY <3>1, <3>3, Zenon DEF HangsUnder
    <3>5. QED BY <3>4
  <2>2. CASE i = n + 1
    <3>1. parent # NoNode /\ more[i].parent = parent /\ more[i].depth = depth
      BY ONLY <1>4, <1>5, <1>8, <2>2
    <3>2. PICK j \in 1..n : nodes[j].id = parent /\ nodes[j].depth < depth
      BY <3>1 DEF Under, n
    <3>3. j \in 1..i - 1 /\ more[j] = nodes[j]
      BY ONLY <1>1, <1>5, <2>2, <3>2
    <3>4. more[j].id = more[i].parent /\ more[j].depth < more[i].depth + 0
      BY <3>1, <3>2, <3>3
    <3>5. HangsUnder(more, i, j, 0)
      BY <3>4 DEF HangsUnder
    <3>6. QED BY <3>3, <3>5
  <2>3. QED BY <1>6, <2>1, <2>2
<1>9. Chain(more, prefix)
  BY <1>5, <1>7, <1>8, Zenon DEF Chain
<1>10. ASSUME NEW p, NEW d, Under(nodes, p, d) PROVE Under(more, p, d)
  <2>1. SUFFICES ASSUME p # NoNode
                 PROVE  \E j \in 1..Len(more) : more[j].id = p /\ more[j].depth < d
    BY Zenon DEF Under
  <2>2. PICK j \in 1..n : nodes[j].id = p /\ nodes[j].depth < d
    BY <1>10, <2>1, Zenon DEF Under, n
  <2>3. j \in 1..Len(more) /\ more[j] = nodes[j]
    BY ONLY <1>1, <1>5, <2>2
  <2>4. QED BY <2>2, <2>3, Zenon
<1>11. Under(more, id, depth + 1)
  <2>1. n + 1 \in 1..Len(more)
    BY <1>1, <1>5
  <2>2. more[n + 1].id = id /\ more[n + 1].depth < depth + 1
    BY ONLY <1>4, <1>5, depth \in Int
  <2>3. QED BY <2>1, <2>2 DEF Under
<1>12. QED BY <1>2, <1>9, <1>10, <1>11, Zenon DEF ChainedOn

LEMMA PassesMore ==
  ASSUME NEW k \in Nat, NEW passed, NEW nodes, Passes(passed, nodes, k),
         NEW more, \A p, d : Under(nodes, p, d) => Under(more, p, d),
         NEW parent \in NodeIds \cup {NoNode}, NEW depth \in Int, Under(more, parent, depth)
  PROVE  Passes(Append(passed, [parent |-> parent, depth |-> depth]), more, k + 1)
<1>1. PICK one \in Passed : one = [parent |-> parent, depth |-> depth]
  BY DEF Passed
<1>2. one.parent = parent /\ one.depth = depth
  BY <1>1
<1>3. PICK all : all = Append(passed, one)
  OBVIOUS
<1>4. /\ all \in Seq(Passed) /\ Len(all) = k + 1
      /\ \A v \in 1..k : all[v] = passed[v]
      /\ all[k + 1] = one
  BY <1>1, <1>3, AppendProperties DEF Passes
<1>5. ASSUME NEW v \in 1..(k + 1) PROVE Under(more, all[v].parent, all[v].depth)
  <2>1. CASE v \in 1..k
    <3>1. Under(nodes, passed[v].parent, passed[v].depth)
      BY <2>1 DEF Passes
    <3>2. Under(more, passed[v].parent, passed[v].depth)
      BY <3>1
    <3>3. all[v] = passed[v]
      BY ONLY <1>4, <2>1
    <3>4. QED BY ONLY <3>2, <3>3
  <2>2. CASE v = k + 1
    BY <1>2, <1>4, <2>2
  <2>3. v \in 1..k \/ v = k + 1
    OBVIOUS
  <2>4. QED BY <2>1, <2>2, <2>3
<1>6. Passes(all, more, k + 1)
  BY <1>4, <1>5, Zenon DEF Passes
<1>7. QED BY <1>1, <1>3, <1>6

LEMMA GivenForm ==
  ASSUME NEW prefix, NEW k \in Nat, NEW calls, Grown(calls, prefix, k), NEW value
  PROVE  /\ Given(calls, value).parent \in NodeIds \cup {NoNode}
         /\ Given(calls, value).depth \in Int
         /\ Under(calls.nodes, Given(calls, value).parent, Given(calls, value).depth)
<1>1. PICK passed : passed = calls.passed
  OBVIOUS
<1>2. PICK nodes : nodes = calls.nodes
  OBVIOUS
<1>3. Passes(passed, nodes, k)
  BY <1>1, <1>2 DEF Grown
<1>4. /\ DOMAIN passed = 1..k
      /\ \A v \in 1..k : /\ passed[v].parent \in NodeIds \cup {NoNode} /\ passed[v].depth \in Int
                         /\ Under(nodes, passed[v].parent, passed[v].depth)
  <2>1. passed \in Seq(Passed) /\ DOMAIN passed = 1..k
    BY <1>3, LenProperties DEF Passes
  <2>2. \A v \in 1..k : passed[v] \in Passed
    BY <1>3, <2>1, ElementOfSeq DEF Passes
  <2>3. QED BY <1>3, <2>1, <2>2 DEF Passes, Passed
<1>5. CASE value.under \in DOMAIN passed
  <2>1. Given(calls, value) = passed[value.under]
    BY <1>1, <1>5, Zenon DEF Given
  <2>2. QED BY <1>2, <1>4, <1>5, <2>1
<1>6. CASE value.under \notin DOMAIN passed
  <2>1. PICK g : g = [parent |-> NoNode, depth |-> 0]
    OBVIOUS
  <2>2. Given(calls, value) = g
    BY <1>1, <1>6, <2>1, Zenon DEF Given
  <2>3. g.parent = NoNode /\ g.depth = 0
    BY <2>1
  <2>4. Under(nodes, NoNode, 0)
    BY DEF Under
  <2>5. QED BY <1>2, <2>2, <2>3, <2>4
<1>7. QED BY <1>5, <1>6

LEMMA GrownAgain ==
  ASSUME NEW prefix, NEW k \in Nat, NEW passed, NEW more, Chain(more, prefix),
         Passes(passed, more, k), NEW calls, calls = [nodes |-> more, passed |-> passed]
  PROVE  Grown(calls, prefix, k)
<1>1. more \in Seq(PlanNode) /\ passed \in Seq(Passed)
  BY Zenon DEF Chain, Passes
<1>2. calls \in Calls /\ calls.nodes = more /\ calls.passed = passed
  BY ONLY <1>1, calls = [nodes |-> more, passed |-> passed] DEF Calls
<1>3. QED BY <1>2, Zenon DEF Grown

LEMMA PostgresGrows ==
  ASSUME NEW k \in Nat, NEW calls, Grown(calls, "pg", k), NEW value \in Value
  PROVE  Grown(PostgresCall(calls, value), "pg", k + 1)
<1>1. PICK nodes, passed : nodes = calls.nodes /\ passed = calls.passed
  OBVIOUS
<1>2. Chain(nodes, "pg") /\ Passes(passed, nodes, k)
  BY <1>1, Zenon DEF Grown
<1>3. PICK given : given = Given(calls, value)
  OBVIOUS
<1>4. PICK parent \in NodeIds \cup {NoNode}, depth \in Int :
        parent = given.parent /\ depth = given.depth /\ Under(nodes, parent, depth)
  BY <1>1, <1>3, GivenForm
<1>5. PICK risky \in BOOLEAN : risky = value.risky
  BY DEF Value
<1>6. PICK id : id = <<"pg", Len(nodes)>>
  OBVIOUS
<1>7. PICK node, more : node = Node(id, parent, depth, risky) /\ more = Append(nodes, node)
  OBVIOUS
<1>8. /\ Chain(more, "pg")
      /\ \A p, d : Under(nodes, p, d) => Under(more, p, d)
      /\ id \in NodeIds /\ Under(more, id, depth + 1)
  <2>1. PICK prefix \in {"pg", "mysql"} : prefix = "pg"
    OBVIOUS
  <2>2. Chain(nodes, prefix) /\ id = <<prefix, Len(nodes)>>
    BY <1>2, <1>6, <2>1
  <2>3. ChainedOn(nodes, more, prefix, id, depth)
    BY ONLY <1>4, <1>7, <2>2, ChainMore
  <2>4. QED BY <2>1, <2>3, Zenon DEF ChainedOn
<1>9. PICK all : all = Append(passed, [parent |-> id, depth |-> depth + 1])
  OBVIOUS
<1>10. Passes(all, more, k + 1)
  <2>1. depth + 1 \in Int /\ id \in NodeIds \cup {NoNode}
    BY <1>8
  <2>2. QED BY <1>2, <1>8, <1>9, <2>1, PassesMore
<1>11. PostgresCall(calls, value) = [nodes |-> more, passed |-> all]
  BY <1>1, <1>3, <1>4, <1>5, <1>6, <1>7, <1>9, Zenon DEF PostgresCall, Fresh
<1>12. QED BY <1>8, <1>10, <1>11, k + 1 \in Nat, GrownAgain

LEMMA MysqlGrows ==
  ASSUME NEW k \in Nat, NEW calls, Grown(calls, "mysql", k), NEW value \in Value
  PROVE  Grown(MysqlCall(calls, value), "mysql", k + 1)
<1>1. PICK nodes, passed : nodes = calls.nodes /\ passed = calls.passed
  OBVIOUS
<1>2. Chain(nodes, "mysql") /\ Passes(passed, nodes, k)
  BY <1>1, Zenon DEF Grown
<1>3. PICK given : given = Given(calls, value)
  OBVIOUS
<1>4. PICK parent \in NodeIds \cup {NoNode}, depth \in Int :
        parent = given.parent /\ depth = given.depth /\ Under(nodes, parent, depth)
  BY <1>1, <1>3, GivenForm
<1>5. PICK risky \in BOOLEAN : risky = value.risky
  BY DEF Value
<1>6. CASE ~value.array /\ value.marked
  <2>1. PICK id : id = <<"mysql", Len(nodes)>>
    OBVIOUS
  <2>2. PICK node, more : node = Node(id, parent, depth, risky) /\ more = Append(nodes, node)
    OBVIOUS
  <2>3. /\ Chain(more, "mysql")
        /\ \A p, d : Under(nodes, p, d) => Under(more, p, d)
        /\ id \in NodeIds /\ id # NoNode /\ Under(more, id, depth + 1)
    <3>1. PICK prefix \in {"pg", "mysql"} : prefix = "mysql"
      OBVIOUS
    <3>2. Chain(nodes, prefix) /\ id = <<prefix, Len(nodes)>>
      BY <1>2, <2>1, <3>1
    <3>3. ChainedOn(nodes, more, prefix, id, depth)
      BY ONLY <1>4, <2>2, <3>2, ChainMore
    <3>4. QED BY <3>1, <3>3, Zenon DEF ChainedOn
  <2>4. PICK all : all = Append(passed, [parent |-> id, depth |-> depth + 1])
    OBVIOUS
  <2>5. Passes(all, more, k + 1)
    <3>1. depth + 1 \in Int /\ id \in NodeIds \cup {NoNode}
      BY <2>3
    <3>2. QED BY <1>2, <2>3, <2>4, <3>1, PassesMore
  <2>6. MysqlCall(calls, value) = [nodes |-> more, passed |-> all]
    BY <1>1, <1>3, <1>4, <1>5, <1>6, <2>1, <2>2, <2>3, <2>4, Zenon DEF MysqlCall, Fresh
  <2>7. QED BY <2>3, <2>5, <2>6, k + 1 \in Nat, GrownAgain
<1>7. CASE ~(~value.array /\ value.marked)
  <2>1. PICK deeper : deeper = IF value.array \/ parent = NoNode THEN depth ELSE depth + 1
    OBVIOUS
  <2>2. deeper \in Int /\ Under(nodes, parent, deeper)
    <3>1. nodes \in Seq(PlanNode)
      BY <1>2 DEF Chain
    <3>2. Under(nodes, parent, depth + 1) /\ depth + 1 \in Int
      BY <1>4, <3>1, UnderDeeper
    <3>3. CASE deeper = depth
      BY <1>4, <3>3
    <3>4. CASE deeper = depth + 1
      BY <3>2, <3>4
    <3>5. QED BY <2>1, <3>3, <3>4, Zenon
  <2>3. PICK all : all = Append(passed, [parent |-> parent, depth |-> deeper])
    OBVIOUS
  <2>4. Passes(all, nodes, k + 1)
    BY <1>2, <1>4, <2>2, <2>3, PassesMore
  <2>5. MysqlCall(calls, value) = [nodes |-> nodes, passed |-> all]
    BY <1>1, <1>3, <1>4, <1>7, <2>1, <2>3, Zenon DEF MysqlCall
  <2>6. QED BY <1>2, <2>4, <2>5, k + 1 \in Nat, GrownAgain
<1>8. QED BY <1>6, <1>7

LEMMA NothingGrown ==
  ASSUME NEW prefix
  PROVE  Grown(NoCalls, prefix, 0) /\ NoCalls \in Calls
<1>1. PICK empty : empty = <<>>
  OBVIOUS
<1>2. empty \in Seq(PlanNode) /\ empty \in Seq(Passed) /\ Len(empty) = 0
  BY <1>1
<1>3. Chain(empty, prefix)
  BY <1>2 DEF Chain
<1>4. Passes(empty, empty, 0)
  BY <1>2 DEF Passes
<1>5. NoCalls = [nodes |-> empty, passed |-> empty]
  BY <1>1, Zenon DEF NoCalls
<1>6. NoCalls \in Calls
  BY <1>2, <1>5 DEF Calls
<1>7. QED BY <1>3, <1>4, <1>5, <1>6, 0 \in Nat, GrownAgain

Growing(prefix) == {c \in Calls : \E k \in Nat : Grown(c, prefix, k)}

LEMMA GrowingForm ==
  ASSUME NEW prefix, NEW k \in Nat, NEW c, Grown(c, prefix, k)
  PROVE  c \in Growing(prefix)
BY Zenon DEF Growing, Grown

(* What a fold of calls that grow a picture makes of a plan.               *)
LEMMA FoldGrows ==
  ASSUME NEW prefix, NEW F, NEW plan \in Seq(Value),
         NEW calls, Folded(calls, NoCalls, F, plan),
         \A c \in Growing(prefix), x \in Value, k \in Nat :
           Grown(c, prefix, k) => Grown(F[<<c, x>>], prefix, k + 1)
  PROVE  Grown(calls, prefix, Len(plan))
<1>1. PICK run : Folding(run, NoCalls, F, plan) /\ run[Len(plan)] = calls
  BY Zenon DEF Folded
<1>2. Len(plan) \in Nat /\ \A k \in 1..Len(plan) : plan[k] \in Value
  BY LenProperties, ElementOfSeq
<1> DEFINE S == {k \in Nat : k <= Len(plan) => Grown(run[k], prefix, k)}
<1>3. 0 \in S
  BY <1>1, NothingGrown DEF Folding
<1>4. ASSUME NEW k \in Nat, k \in S
      PROVE  k + 1 \in S
  <2>1. SUFFICES ASSUME k + 1 <= Len(plan)
                 PROVE  Grown(run[k + 1], prefix, k + 1)
    OBVIOUS
  <2>2. k + 1 \in 1..Len(plan) /\ (k + 1) - 1 = k /\ k <= Len(plan)
    BY <1>2, <2>1
  <2>3. Grown(run[k], prefix, k)
    BY <1>4, <2>2
  <2>4. run[k] \in Growing(prefix)
    BY <2>3, GrowingForm
  <2>5. run[k + 1] = F[<<run[k], plan[k + 1]>>]
    BY <1>1, <2>2 DEF Folding
  <2>6. plan[k + 1] \in Value
    BY <1>2, <2>2
  <2>7. QED BY <2>3, <2>4, <2>5, <2>6
<1> HIDE DEF S
<1>5. Nat \subseteq S
  BY <1>3, <1>4, SetInduction
<1>6. QED BY <1>1, <1>2, <1>5 DEF S


(* The calls of collect_postgres_plan_nodes, as a function.               *)
PostgresOne == [x \in Growing("pg") \X Value |-> PostgresCall(x[1], x[2])]

LEMMA PostgresForm ==
  /\ PostgresOne \in [Growing("pg") \X Value -> Growing("pg")]
  /\ \A c \in Growing("pg"), x \in Value : PostgresOne[<<c, x>>] = PostgresCall(c, x)
  /\ \A c \in Growing("pg"), x \in Value, k \in Nat :
       Grown(c, "pg", k) => Grown(PostgresOne[<<c, x>>], "pg", k + 1)
<1>1. PICK A : A = Growing("pg")
  OBVIOUS
<1>2. ASSUME NEW c \in A, NEW x \in Value
      PROVE  PostgresOne[<<c, x>>] = PostgresCall(c, x)
  <2>1. <<c, x>> \in A \X Value /\ <<c, x>>[1] = c /\ <<c, x>>[2] = x
    OBVIOUS
  <2>2. PostgresOne = [y \in A \X Value |-> PostgresCall(y[1], y[2])]
    BY <1>1, Zenon DEF PostgresOne
  <2>3. PostgresOne[<<c, x>>] = PostgresCall(<<c, x>>[1], <<c, x>>[2])
    BY <2>1, <2>2, Zenon
  <2>4. QED BY <2>1, <2>3
<1>3. ASSUME NEW c \in A, NEW x \in Value
      PROVE  PostgresCall(c, x) \in A
  <2>1. PICK k \in Nat : Grown(c, "pg", k)
    BY <1>1 DEF Growing
  <2>2. Grown(PostgresCall(c, x), "pg", k + 1)
    BY <2>1, PostgresGrows
  <2>3. QED BY <1>1, <2>2, k + 1 \in Nat, GrowingForm
<1>4. PostgresOne \in [A \X Value -> A]
  <2>1. \A y \in A \X Value : PostgresCall(y[1], y[2]) \in A
    BY <1>3
  <2>2. QED BY <1>1, <2>1, Zenon DEF PostgresOne
<1>5. ASSUME NEW c \in A, NEW x \in Value, NEW k \in Nat, Grown(c, "pg", k)
      PROVE  Grown(PostgresOne[<<c, x>>], "pg", k + 1)
  <2>1. Grown(PostgresCall(c, x), "pg", k + 1)
    BY <1>5, PostgresGrows
  <2>2. QED BY <1>2, <2>1
<1>6. QED BY <1>1, <1>2, <1>4, <1>5

LEMMA PostgresFolds ==
  ASSUME NEW plan \in Seq(Value)
  PROVE  Folded(FoldLeft(PostgresCall, NoCalls, plan), NoCalls, PostgresOne, plan)
<1> DEFINE n == Len(plan)
<1>0. PICK A : A = Growing("pg")
  OBVIOUS
<1>1. n \in Nat /\ DOMAIN plan = 1..n /\ NoCalls \in A
  <2>1. NoCalls \in A
    BY <1>0, NothingGrown, 0 \in Nat, GrowingForm
  <2>2. QED BY <2>1, LenProperties
<1>2. PostgresOne \in [A \X Value -> A] /\ \A c \in A, x \in Value : PostgresOne[<<c, x>>] = PostgresCall(c, x)
  BY <1>0, PostgresForm
<1>3. PICK g \in [SUBSET (1..n) -> A] : FoldsBy(g, A, Value, NoCalls, PostgresOne, plan)
  BY <1>1, <1>2, FoldHasSteps
<1>4. \A s \in SUBSET (1..n) : g[s] = IF s = {} THEN NoCalls ELSE PostgresCall(g[s \ {Max(s)}], plan[Max(s)])
  BY <1>2, <1>3, Zenon DEF FoldsBy
<1>5. g = [s \in SUBSET (1..n) |-> IF s = {} THEN NoCalls ELSE PostgresCall(g[s \ {Max(s)}], plan[Max(s)])]
  BY <1>4, Zenon
<1>6. PICK h : /\ h = [s \in SUBSET (1..n) |-> IF s = {} THEN NoCalls ELSE PostgresCall(h[s \ {Max(s)}], plan[Max(s)])]
               /\ FoldLeft(PostgresCall, NoCalls, plan) = h[1..n]
  BY <1>1, <1>5, ZenonT(60) DEF FoldLeft, MapThenFoldSet
<1>7. \A s \in SUBSET (1..n) : h[s] = IF s = {} THEN NoCalls ELSE PostgresCall(h[s \ {Max(s)}], plan[Max(s)])
  BY <1>6, Zenon
<1>8. ASSUME NEW s \in SUBSET (1..n)
      PROVE  /\ s = {} => h[s] = NoCalls
             /\ s # {} /\ h[s \ {Max(s)}] \in A => h[s] = PostgresOne[<<h[s \ {Max(s)}], plan[Max(s)]>>]
  BY <1>2, <1>3, <1>7, Zenon DEF FoldsBy
<1>9. FoldsTo(FoldLeft(PostgresCall, NoCalls, plan), A, NoCalls, PostgresOne, plan)
  BY <1>6, <1>8, Zenon DEF FoldsTo
<1>10. QED BY <1>1, <1>2, <1>9, FoldedSteps

LEMMA PostgresHangs ==
  ASSUME NEW plan \in Seq(Value)
  PROVE  Hangs(CollectPostgres(plan), 0)
<1>1. PICK calls : calls = FoldLeft(PostgresCall, NoCalls, plan)
  OBVIOUS
<1>2. Folded(calls, NoCalls, PostgresOne, plan)
  BY <1>1, PostgresFolds
<1>3. Grown(calls, "pg", Len(plan))
  BY <1>2, PostgresForm, FoldGrows
<1>4. Chain(calls.nodes, "pg")
  BY <1>3, Zenon DEF Grown
<1>5. QED BY <1>1, <1>4, ChainHangs DEF CollectPostgres

(* And those of collect_mysql_plan_nodes.                                 *)
Mysql == [x \in Growing("mysql") \X Value |-> MysqlCall(x[1], x[2])]

LEMMA MysqlForm ==
  /\ Mysql \in [Growing("mysql") \X Value -> Growing("mysql")]
  /\ \A c \in Growing("mysql"), x \in Value : Mysql[<<c, x>>] = MysqlCall(c, x)
  /\ \A c \in Growing("mysql"), x \in Value, k \in Nat :
       Grown(c, "mysql", k) => Grown(Mysql[<<c, x>>], "mysql", k + 1)
<1>1. PICK A : A = Growing("mysql")
  OBVIOUS
<1>2. ASSUME NEW c \in A, NEW x \in Value
      PROVE  Mysql[<<c, x>>] = MysqlCall(c, x)
  <2>1. <<c, x>> \in A \X Value /\ <<c, x>>[1] = c /\ <<c, x>>[2] = x
    OBVIOUS
  <2>2. Mysql = [y \in A \X Value |-> MysqlCall(y[1], y[2])]
    BY <1>1, Zenon DEF Mysql
  <2>3. Mysql[<<c, x>>] = MysqlCall(<<c, x>>[1], <<c, x>>[2])
    BY <2>1, <2>2, Zenon
  <2>4. QED BY <2>1, <2>3
<1>3. ASSUME NEW c \in A, NEW x \in Value
      PROVE  MysqlCall(c, x) \in A
  <2>1. PICK k \in Nat : Grown(c, "mysql", k)
    BY <1>1 DEF Growing
  <2>2. Grown(MysqlCall(c, x), "mysql", k + 1)
    BY <2>1, MysqlGrows
  <2>3. QED BY <1>1, <2>2, k + 1 \in Nat, GrowingForm
<1>4. Mysql \in [A \X Value -> A]
  <2>1. \A y \in A \X Value : MysqlCall(y[1], y[2]) \in A
    BY <1>3
  <2>2. QED BY <1>1, <2>1, Zenon DEF Mysql
<1>5. ASSUME NEW c \in A, NEW x \in Value, NEW k \in Nat, Grown(c, "mysql", k)
      PROVE  Grown(Mysql[<<c, x>>], "mysql", k + 1)
  <2>1. Grown(MysqlCall(c, x), "mysql", k + 1)
    BY <1>5, MysqlGrows
  <2>2. QED BY <1>2, <2>1
<1>6. QED BY <1>1, <1>2, <1>4, <1>5

LEMMA MysqlFolds ==
  ASSUME NEW plan \in Seq(Value)
  PROVE  Folded(FoldLeft(MysqlCall, NoCalls, plan), NoCalls, Mysql, plan)
<1> DEFINE n == Len(plan)
<1>0. PICK A : A = Growing("mysql")
  OBVIOUS
<1>1. n \in Nat /\ DOMAIN plan = 1..n /\ NoCalls \in A
  <2>1. NoCalls \in A
    BY <1>0, NothingGrown, 0 \in Nat, GrowingForm
  <2>2. QED BY <2>1, LenProperties
<1>2. Mysql \in [A \X Value -> A] /\ \A c \in A, x \in Value : Mysql[<<c, x>>] = MysqlCall(c, x)
  BY <1>0, MysqlForm
<1>3. PICK g \in [SUBSET (1..n) -> A] : FoldsBy(g, A, Value, NoCalls, Mysql, plan)
  BY <1>1, <1>2, FoldHasSteps
<1>4. \A s \in SUBSET (1..n) : g[s] = IF s = {} THEN NoCalls ELSE MysqlCall(g[s \ {Max(s)}], plan[Max(s)])
  BY <1>2, <1>3, Zenon DEF FoldsBy
<1>5. g = [s \in SUBSET (1..n) |-> IF s = {} THEN NoCalls ELSE MysqlCall(g[s \ {Max(s)}], plan[Max(s)])]
  BY <1>4, Zenon
<1>6. PICK h : /\ h = [s \in SUBSET (1..n) |-> IF s = {} THEN NoCalls ELSE MysqlCall(h[s \ {Max(s)}], plan[Max(s)])]
               /\ FoldLeft(MysqlCall, NoCalls, plan) = h[1..n]
  BY <1>1, <1>5, ZenonT(60) DEF FoldLeft, MapThenFoldSet
<1>7. \A s \in SUBSET (1..n) : h[s] = IF s = {} THEN NoCalls ELSE MysqlCall(h[s \ {Max(s)}], plan[Max(s)])
  BY <1>6, Zenon
<1>8. ASSUME NEW s \in SUBSET (1..n)
      PROVE  /\ s = {} => h[s] = NoCalls
             /\ s # {} /\ h[s \ {Max(s)}] \in A => h[s] = Mysql[<<h[s \ {Max(s)}], plan[Max(s)]>>]
  BY <1>2, <1>3, <1>7, Zenon DEF FoldsBy
<1>9. FoldsTo(FoldLeft(MysqlCall, NoCalls, plan), A, NoCalls, Mysql, plan)
  BY <1>6, <1>8, Zenon DEF FoldsTo
<1>10. QED BY <1>1, <1>2, <1>9, FoldedSteps

LEMMA MysqlHangs ==
  ASSUME NEW plan \in Seq(Value)
  PROVE  Hangs(CollectMysql(plan), 0)
<1>1. PICK calls : calls = FoldLeft(MysqlCall, NoCalls, plan)
  OBVIOUS
<1>2. Folded(calls, NoCalls, Mysql, plan)
  BY <1>1, MysqlFolds
<1>3. Grown(calls, "mysql", Len(plan))
  BY <1>2, MysqlForm, FoldGrows
<1>4. Chain(calls.nodes, "mysql")
  BY <1>3, Zenon DEF Grown
<1>5. QED BY <1>1, <1>4, ChainHangs DEF CollectMysql

-----------------------------------------------------------------------------
(* The analysis.                                                           *)

LEMMA ReaderHangs ==
  ASSUME NEW reader \in {"postgres", "mysql", "rows", "sqlite"}, NEW plan, PlanForm(reader, plan)
  PROVE  Hangs(Nodes(reader, plan), IF reader = "sqlite" THEN 1 ELSE 0)
<1>1. CASE reader = "postgres"
  <2>1. plan \in Seq(Value)
    BY <1>1 DEF PlanForm, Value
  <2>2. Nodes(reader, plan) = CollectPostgres(plan)
    BY <1>1 DEF Nodes
  <2>3. QED BY <1>1, <2>1, <2>2, PostgresHangs
<1>2. CASE reader = "mysql"
  <2>1. plan \in Seq(Value)
    BY <1>2 DEF PlanForm, Value
  <2>2. Nodes(reader, plan) = CollectMysql(plan)
    BY <1>2 DEF Nodes
  <2>3. QED BY <1>2, <2>1, <2>2, MysqlHangs
<1>3. CASE reader = "rows"
  <2>1. plan \in Seq(Range(plan))
    BY <1>3 DEF PlanForm
  <2>2. Len(plan) \in Nat /\ DOMAIN plan = 1..Len(plan)
    BY <2>1, LenProperties
  <2>3. Nodes(reader, plan) = RowNodes(plan)
    BY <1>3 DEF Nodes
  <2>4. Hangs(RowNodes(plan), 0)
    BY <2>2, RowsHang
  <2>5. QED BY <1>3, <2>3, <2>4
<1>4. CASE reader = "sqlite"
  <2>1. Nodes(reader, plan) = SqliteNodes(plan)
    BY <1>4 DEF Nodes
  <2>2. Hangs(SqliteNodes(plan), 1)
    BY <1>4, SqliteHangs
  <2>3. QED BY <1>4, <2>1, <2>2
<1>5. QED BY <1>1, <1>2, <1>3, <1>4

(* What PlanHangsTogether says of an answer.                               *)
Alone == {"No obvious structural risk", "Native plan unavailable"}
Named(findings, nodes, words) ==
  \A f \in findings : f.node \in Ids(nodes) \cup Ids(StaticNodes(words)) \cup {NoNode}
Clear(findings) ==
  \A f, g \in findings : f.title = "No obvious structural risk" => g.title \in Alone
Together(answer, words, slack) ==
  /\ Hangs(answer.nodes, slack)
  /\ answer.edges = Edges(answer.nodes)
  /\ Named(answer.findings, answer.nodes, words)
  /\ Clear(answer.findings)

LEMMA HangsLoosely ==
  ASSUME NEW nodes, Hangs(nodes, 0)
  PROVE  Hangs(nodes, 1)
<1>1. nodes \in Seq(PlanNode) /\ Len(nodes) \in Nat
  BY LenProperties DEF Hangs
<1>2. ASSUME NEW i \in 1..Len(nodes) PROVE nodes[i].depth \in Int
  <2>1. nodes[i] \in PlanNode
    BY <1>1, ElementOfSeq
  <2>2. QED BY <2>1 DEF PlanNode
<1>3. ASSUME NEW i \in 1..Len(nodes), nodes[i].parent # NoNode
      PROVE  \E j \in 1..i - 1 : HangsUnder(nodes, i, j, 1)
  <2>1. PICK j \in 1..i - 1 : HangsUnder(nodes, i, j, 0)
    BY <1>3 DEF Hangs
  <2>2. j \in 1..Len(nodes)
    BY <1>1
  <2>3. nodes[j].depth \in Int /\ nodes[i].depth \in Int
    BY <1>2, <2>2
  <2>4. HangsUnder(nodes, i, j, 1)
    BY <2>1, <2>3 DEF HangsUnder
  <2>5. QED BY <2>4
<1>4. QED BY <1>1, <1>3, Zenon DEF Hangs

LEMMA FindingForm ==
  ASSUME NEW title, NEW id
  PROVE  Finding(title, id).title = title /\ Finding(title, id).node = id
BY DEF Finding

LEMMA StaticTogether ==
  ASSUME NEW words \in Seq(STRING), NEW answer, answer = StaticAnalysis(words)
  PROVE  Together(answer, words, 0)
<1>1. PICK nodes : nodes = StaticNodes(words)
  OBVIOUS
<1>2. PICK findings : findings = IF StaticRisks(words) = {} THEN {AllClear} ELSE StaticRisks(words)
  OBVIOUS
<1>3. answer = [nodes |-> nodes, edges |-> Edges(nodes), findings |-> findings]
  BY <1>1, <1>2, Zenon DEF StaticAnalysis
<1>4. answer.nodes = nodes /\ answer.edges = Edges(nodes) /\ answer.findings = findings
  BY <1>3
<1>5. Hangs(nodes, 0)
  <2>1. Len(words) \in Nat
    BY LenProperties
  <2>2. QED BY <1>1, <2>1, StaticForm, BushHangs
<1>6. AllClear.title = "No obvious structural risk" /\ AllClear.node = NoNode
  BY FindingForm DEF AllClear
<1>7. CASE StaticRisks(words) = {}
  <2>1. findings = {AllClear}
    BY <1>2, <1>7
  <2>2. Named(findings, nodes, words) /\ Clear(findings)
    BY <1>6, <2>1 DEF Named, Clear, Alone
  <2>3. QED BY <1>4, <1>5, <2>2 DEF Together
<1>8. CASE StaticRisks(words) # {}
  <2>1. findings = StaticRisks(words)
    BY <1>2, <1>8
  <2>2. \A f \in findings : /\ f.node \in Ids(nodes)
                            /\ f.title # "No obvious structural risk"
    BY <1>1, <2>1, StaticRisksNamed
  <2>3. Named(findings, nodes, words) /\ Clear(findings)
    BY <2>2, Zenon DEF Named, Clear
  <2>4. QED BY <1>4, <1>5, <2>3 DEF Together
<1>9. QED BY <1>7, <1>8

LEMMA FallbackTogether ==
  ASSUME NEW words \in Seq(STRING), NEW answer, answer = Fallback(words)
  PROVE  Together(answer, words, 0)
<1>1. PICK static : static = StaticAnalysis(words)
  OBVIOUS
<1>2. Together(static, words, 0)
  BY <1>1, StaticTogether
<1>3. PICK unavailable : unavailable = Finding("Native plan unavailable", NoNode)
  OBVIOUS
<1>4. unavailable.title = "Native plan unavailable" /\ unavailable.node = NoNode
  BY <1>3, FindingForm
<1>5. answer = [static EXCEPT !.findings = static.findings \cup {unavailable}]
  BY <1>1, <1>3, Zenon DEF Fallback
<1>6. static = [nodes |-> static.nodes, edges |-> static.edges, findings |-> static.findings]
  BY <1>1 DEF StaticAnalysis
<1>7. /\ answer.nodes = static.nodes /\ answer.edges = static.edges
      /\ answer.findings = static.findings \cup {unavailable}
  BY ONLY <1>5, <1>6
<1>8. Named(answer.findings, answer.nodes, words)
  <2>1. Named(static.findings, static.nodes, words)
    BY <1>2, Zenon DEF Together
  <2>2. QED BY <1>4, <1>7, <2>1 DEF Named
<1>9. Clear(answer.findings)
  <2>1. \A f, g \in static.findings : f.title = "No obvious structural risk" => g.title \in Alone
    BY <1>2, Zenon DEF Together, Clear
  <2>2. unavailable.title # "No obvious structural risk" /\ unavailable.title \in Alone
    BY <1>4 DEF Alone
  <2>3. ASSUME NEW f \in answer.findings, NEW g \in answer.findings,
               f.title = "No obvious structural risk"
        PROVE  g.title \in Alone
    <3>1. f \in static.findings
      BY <1>7, <2>2, <2>3
    <3>2. QED BY <1>7, <2>1, <2>2, <2>3, <3>1
  <2>4. QED BY <2>3, Zenon DEF Clear
<1>10. QED BY <1>2, <1>7, <1>8, <1>9, Zenon DEF Together

LEMMA MergedTogether ==
  ASSUME NEW words \in Seq(STRING), NEW slack, NEW nodes, Hangs(nodes, slack),
         NEW answer, answer = Merged(nodes, words)
  PROVE  Together(answer, words, slack)
<1>1. PICK found : found = NativeFindings(nodes) \cup StaticRisks(words)
  OBVIOUS
<1>2. PICK captured : captured = Finding("Native plan captured", NoNode)
  OBVIOUS
<1>3. PICK findings : findings = IF found = {} THEN {captured} ELSE found
  OBVIOUS
<1>4. answer = [nodes |-> nodes, edges |-> Edges(nodes), findings |-> findings]
  BY <1>1, <1>2, <1>3, Zenon DEF Merged
<1>5. answer.nodes = nodes /\ answer.edges = Edges(nodes) /\ answer.findings = findings
  BY <1>4
<1>6. captured.title = "Native plan captured" /\ captured.node = NoNode
  BY <1>2, FindingForm
<1>7. ASSUME NEW f \in NativeFindings(nodes)
      PROVE  f.node \in Ids(nodes) /\ f.title = "risk"
  <2>1. PICK n \in Range(nodes) : f = Finding("risk", n.id)
    BY DEF NativeFindings
  <2>2. f.title = "risk" /\ f.node = n.id
    BY <2>1, FindingForm
  <2>3. PICK j \in 1..Len(nodes) : n = nodes[j]
    <3>1. DOMAIN nodes = 1..Len(nodes)
      BY LenProperties DEF Hangs
    <3>2. QED BY <3>1 DEF Range
  <2>4. QED BY <2>2, <2>3 DEF Ids
<1>8. ASSUME NEW f \in findings
      PROVE  /\ f.node \in Ids(nodes) \cup Ids(StaticNodes(words)) \cup {NoNode}
             /\ f.title # "No obvious structural risk"
  <2>1. f \in NativeFindings(nodes) \/ f \in StaticRisks(words) \/ f = captured
    BY <1>1, <1>3
  <2>2. CASE f \in NativeFindings(nodes)
    BY <1>7, <2>2
  <2>3. CASE f \in StaticRisks(words)
    BY <2>3, StaticRisksNamed
  <2>4. CASE f = captured
    BY <1>6, <2>4
  <2>5. QED BY <2>1, <2>2, <2>3, <2>4
<1>9. Named(findings, nodes, words) /\ Clear(findings)
  BY <1>8, Zenon DEF Named, Clear
<1>10. QED BY <1>5, <1>9, Zenon DEF Together

LEMMA AnalysisTogether ==
  ASSUME NEW reader \in {"static", "postgres", "mysql", "rows", "sqlite"},
         NEW plan, PlanForm(reader, plan), NEW words \in Seq(STRING)
  PROVE  Together(Analysis(reader, plan, words), words, IF reader = "sqlite" THEN 1 ELSE 0)
<1>1. CASE reader = "static"
  <2>1. Analysis(reader, plan, words) = StaticAnalysis(words)
    BY <1>1, Zenon DEF Analysis
  <2>2. QED BY <1>1, <2>1, StaticTogether
<1>2. CASE reader # "static" /\ Nodes(reader, plan) = <<>>
  <2>1. Analysis(reader, plan, words) = Fallback(words)
    BY <1>2, Zenon DEF Analysis
  <2>2. PICK answer : answer = Fallback(words)
    OBVIOUS
  <2>3. Together(answer, words, 0)
    BY <2>2, FallbackTogether
  <2>4. Together(answer, words, 1)
    BY <2>3, HangsLoosely, Zenon DEF Together
  <2>5. QED BY <2>1, <2>2, <2>3, <2>4
<1>3. CASE reader # "static" /\ Nodes(reader, plan) # <<>>
  <2>1. Analysis(reader, plan, words) = Merged(Nodes(reader, plan), words)
    BY <1>3, Zenon DEF Analysis
  <2>2. reader \in {"postgres", "mysql", "rows", "sqlite"}
    BY <1>3
  <2>3. Hangs(Nodes(reader, plan), IF reader = "sqlite" THEN 1 ELSE 0)
    BY <2>2, ReaderHangs
  <2>4. QED BY <2>1, <2>3, MergedTogether
<1>4. QED BY <1>1, <1>2, <1>3


(* What is drawn of any engine's plan, of whatever size, belongs together  *)
(* (explain.rs).                                                           *)
THEOREM PlansAreWhole == Spec => []PlanHangsTogether
<1>1. Answered => PlanHangsTogether
  <2> SUFFICES ASSUME Answered, Returned("plan")
               PROVE  PlanHangsTogether
    BY Zenon DEF PlanHangsTogether
  <2>1. /\ \E i \in DOMAIN Plans : input \in Plans[i]
        /\ output = Analysis(input.reader, input.plan, input.words)
    BY DEF Answered, Returned
  <2>2. PICK reader, plan, words, slack :
          /\ reader = input.reader /\ plan = input.plan /\ words = input.words
          /\ slack = IF reader = "sqlite" THEN 1 ELSE 0
    OBVIOUS
  <2>3. /\ reader \in {"static", "postgres", "mysql", "rows", "sqlite"}
        /\ PlanForm(reader, plan) /\ words \in Seq(STRING)
    BY <2>1, <2>2, PlanAssumption, Zenon
  <2>4. Together(output, words, slack)
    BY <2>1, <2>2, <2>3, AnalysisTogether
  <2>5. PICK nodes : nodes = output.nodes /\ Hangs(nodes, slack) /\ output.edges = Edges(nodes)
    BY <2>4, Zenon DEF Together
  <2>6. /\ nodes \in Seq(PlanNode) /\ Len(nodes) \in Nat /\ DOMAIN nodes = 1..Len(nodes)
        /\ \A i \in 1..Len(nodes) : nodes[i] \in PlanNode
    BY <2>5, LenProperties, ElementOfSeq DEF Hangs
  <2>7. IsInjective([i \in DOMAIN nodes |-> nodes[i].id])
    <3>1. PICK ids : ids = [i \in DOMAIN nodes |-> nodes[i].id]
      OBVIOUS
    <3>2. DOMAIN ids = 1..Len(nodes) /\ \A i \in 1..Len(nodes) : ids[i] = nodes[i].id
      BY <2>6, <3>1
    <3>3. \A i, j \in 1..Len(nodes) : nodes[i].id = nodes[j].id => i = j
      BY <2>5, Zenon DEF Hangs
    <3>4. IsInjective(ids)
      BY <3>2, <3>3 DEF IsInjective
    <3>5. QED BY <3>1, <3>4
  <2>8. ASSUME NEW i \in DOMAIN nodes, nodes[i].parent # NoNode
        PROVE  /\ <<nodes[i].parent, nodes[i].id>> \in output.edges
               /\ \E j \in 1..i - 1 :
                    /\ nodes[j].id = nodes[i].parent
                    /\ \/ nodes[j].depth < nodes[i].depth
                       \/ input.reader = "sqlite" /\ nodes[j].depth = nodes[i].depth
    <3>1. nodes[i] \in {m \in Range(nodes) : m.parent # NoNode}
      BY <2>8 DEF Range
    <3>2. <<nodes[i].parent, nodes[i].id>> \in Edges(nodes)
      BY <3>1, Zenon DEF Edges
    <3>3. PICK j \in 1..i - 1 : HangsUnder(nodes, i, j, slack)
      BY <2>5, <2>6, <2>8 DEF Hangs
    <3>4. i \in 1..Len(nodes) /\ j \in 1..Len(nodes)
      BY <2>6, <2>8
    <3>5. nodes[i].depth \in Int /\ nodes[j].depth \in Int
      <4>1. nodes[i] \in PlanNode /\ nodes[j] \in PlanNode
        BY <2>6, <3>4
      <4>2. QED BY <4>1 DEF PlanNode
    <3>6. nodes[j].id = nodes[i].parent /\ nodes[j].depth < nodes[i].depth + slack
      BY <3>3, Zenon DEF HangsUnder
    <3>7. \/ nodes[j].depth < nodes[i].depth
          \/ input.reader = "sqlite" /\ nodes[j].depth = nodes[i].depth
      <4>1. CASE reader = "sqlite"
        <5>1. slack = 1
          BY <2>2, <4>1
        <5>2. QED BY <2>2, <3>5, <3>6, <4>1, <5>1
      <4>2. CASE reader # "sqlite"
        <5>1. slack = 0
          BY <2>2, <4>2
        <5>2. QED BY <3>5, <3>6, <5>1
      <4>3. QED BY <4>1, <4>2
    <3>8. QED BY <2>5, <3>2, <3>6, <3>7
  <2>9. ASSUME NEW ns \in Seq(PlanNode)
        PROVE  {n.id : n \in Range(ns)} = Ids(ns)
    <3>1. DOMAIN ns = 1..Len(ns)
      BY LenProperties
    <3>2. QED BY <3>1 DEF Range, Ids
  <2>10. {n.id : n \in Range(nodes)} = Ids(nodes)
    BY <2>6, <2>9
  <2>11. {n.id : n \in Range(StaticNodes(words))} = Ids(StaticNodes(words))
    <3>1. Len(words) \in Nat
      BY <2>3, LenProperties
    <3>2. StaticNodes(words) \in Seq(PlanNode)
      BY <3>1, StaticForm DEF Bush
    <3>3. QED BY <2>9, <3>2
  <2>12. ASSUME NEW f \in output.findings
         PROVE  f.node \in {n.id : n \in Range(nodes)}
                           \cup {n.id : n \in Range(StaticNodes(input.words))} \cup {NoNode}
    <3>1. f.node \in Ids(nodes) \cup Ids(StaticNodes(words)) \cup {NoNode}
      BY <2>4, <2>5, <2>12, Zenon DEF Together, Named
    <3>2. QED BY <2>2, <2>10, <2>11, <3>1
  <2>13. AllClear.title = "No obvious structural risk"
    BY FindingForm DEF AllClear
  <2>14. AllClear.title \in {f.title : f \in output.findings} =>
           {f.title : f \in output.findings} \subseteq {AllClear.title, "Native plan unavailable"}
    <3>1. \A f, g \in output.findings : f.title = "No obvious structural risk" => g.title \in Alone
      BY <2>4, Zenon DEF Together, Clear
    <3>2. QED BY <2>13, <3>1 DEF Alone
  <2>15. QED BY <2>5, <2>7, <2>8, <2>12, <2>14, Zenon DEF PlanHangsTogether
<1>2. QED
  BY <1>1, InitAnswered, NextAnswered, PTL DEF Spec

-----------------------------------------------------------------------------
(* What query.rs makes of a text, symbol by symbol: a lexer like the       *)
(* reference but of no dialect, that knows neither bracketed or            *)
(* back-quoted names nor comments in comments and has dollar quotes        *)
(* everywhere.  The splitter and SqlTokenIter are shown to read what it    *)
(* does, and a reference lexer to read the same as long as it meets        *)
(* nothing that is beyond them.                                            *)

SimpleLexed == [mode |-> "code", prev |-> Absent, tag |-> <<>>, tail |-> <<>>,
          piece |-> <<>>, pieces |-> <<>>, word |-> <<>>, words |-> <<>>]

SimpleEndWord(s) ==
  IF s.word = <<>> THEN s ELSE [s EXCEPT !.words = Append(@, s.word), !.word = <<>>]
SimpleEnter(s, mode) == [SimpleEndWord(s) EXCEPT !.mode = mode, !.prev = Absent, !.tag = <<>>]

SimpleInCode(s, c) ==
  CASE c \in {"'", "dq"} -> SimpleEnter(s, c)
    [] c = "-" /\ s.prev = "-" -> SimpleEnter(s, "line")
    [] c = "*" /\ s.prev = "/" -> SimpleEnter(s, "block")
    [] c = "$" /\ s.tag # <<>> ->
         [s EXCEPT !.mode = "dollar", !.prev = Absent, !.tag = Append(@, c), !.tail = <<>>,
                   !.word = <<>>]
    [] c = "$" /\ s.tag = <<>> -> [SimpleEndWord(s) EXCEPT !.tag = <<c>>, !.prev = c]
    [] c \in WordSymbols ->
         [s EXCEPT !.tag = IF @ = <<>> THEN @ ELSE Append(@, c), !.prev = c,
                   !.word = IF @ # <<>> \/ c \in Letters THEN Append(@, c) ELSE @]
    [] OTHER -> [SimpleEndWord(s) EXCEPT !.tag = <<>>, !.prev = c]

SimpleLex(s, c) ==
  LET next ==
        CASE s.mode = "code" -> SimpleInCode(s, c)
          [] s.mode \in {"'", "dq"} -> IF c = s.mode THEN Leave(s) ELSE s
          [] s.mode = "line" -> IF c = "nl" THEN Leave(s) ELSE s
          [] s.mode = "block" ->
               IF c = "/" /\ s.prev = "*" THEN Leave(s) ELSE [s EXCEPT !.prev = c]
          [] s.mode = "dollar" ->
               IF IsSuffix(s.tag, Append(s.tail, c)) THEN Leave(s)
               ELSE [s EXCEPT !.tail = Append(@, c)]
  IN IF s.mode = "code" /\ c = ";" THEN EndPiece(next)
     ELSE [next EXCEPT !.piece = Append(@, c)]

SimpleReference(text) == EndPiece(SimpleEndWord(FoldLeft(SimpleLex, SimpleLexed, text)))

-----------------------------------------------------------------------------
(* The records of that lexer, over any sets, and the changes that it makes *)
(* to them.                                                                *)

Modes == {"code", "'", "dq", "line", "block", "dollar"}
Previous == Symbols \cup {Absent}
Text == Seq(Symbols)
Parts == Seq(Seq(Symbols))
LexState ==
  [mode : Modes, prev : Previous, tag : Text, tail : Text, piece : Text, pieces : Parts,
   word : Text, words : Parts]
Fields(r, m, p, t, l, u, x, v, w) ==
  /\ r.mode = m /\ r.prev = p /\ r.tag = t /\ r.tail = l
  /\ r.piece = u /\ r.pieces = x /\ r.word = v /\ r.words = w

SetWords(s, w, v) ==
  [s EXCEPT !.words = w, !.word = v]
SetPieces(s, x, u) ==
  [s EXCEPT !.pieces = x, !.piece = u]
SetMode(s, m, p, t) ==
  [s EXCEPT !.mode = m, !.prev = p, !.tag = t]
SetDollar(s, m, p, t, l, v) ==
  [s EXCEPT !.mode = m, !.prev = p, !.tag = t, !.tail = l, !.word = v]
SetTag(s, t, p) ==
  [s EXCEPT !.tag = t, !.prev = p]
SetRead(s, t, p, v) ==
  [s EXCEPT !.tag = t, !.prev = p, !.word = v]
SetPrev(s, p) ==
  [s EXCEPT !.prev = p]
SetTail(s, l) ==
  [s EXCEPT !.tail = l]
SetPiece(s, u) ==
  [s EXCEPT !.piece = u]

LEMMA LexFields ==
  ASSUME NEW s \in LexState
  PROVE  /\ s.mode \in Modes /\ s.prev \in Symbols \cup {Absent}
         /\ s.tag \in Seq(Symbols) /\ s.tail \in Seq(Symbols)
         /\ s.piece \in Seq(Symbols) /\ s.pieces \in Seq(Seq(Symbols))
         /\ s.word \in Seq(Symbols) /\ s.words \in Seq(Seq(Symbols))
BY DEF LexState, Previous, Text, Parts

LEMMA SetWordsForm ==
  ASSUME NEW s \in LexState, NEW w \in Seq(Seq(Symbols)), NEW v \in Seq(Symbols),
         NEW r, r = SetWords(s, w, v)
  PROVE  r \in LexState /\ Fields(r, s.mode, s.prev, s.tag, s.tail, s.piece, s.pieces, v, w)
<1>1. w \in Parts /\ v \in Text
  BY Zenon DEF Parts, Text
<1>2. QED BY <1>1 DEF LexState, Fields, SetWords

LEMMA SetPiecesForm ==
  ASSUME NEW s \in LexState, NEW x \in Seq(Seq(Symbols)), NEW u \in Seq(Symbols),
         NEW r, r = SetPieces(s, x, u)
  PROVE  r \in LexState /\ Fields(r, s.mode, s.prev, s.tag, s.tail, u, x, s.word, s.words)
<1>1. x \in Parts /\ u \in Text
  BY Zenon DEF Parts, Text
<1>2. QED BY <1>1 DEF LexState, Fields, SetPieces

LEMMA SetModeForm ==
  ASSUME NEW s \in LexState, NEW m \in Modes, NEW p \in Symbols \cup {Absent}, NEW t \in Seq(Symbols),
         NEW r, r = SetMode(s, m, p, t)
  PROVE  r \in LexState /\ Fields(r, m, p, t, s.tail, s.piece, s.pieces, s.word, s.words)
<1>1. p \in Previous /\ t \in Text
  BY Zenon DEF Previous, Text
<1>2. QED BY <1>1 DEF LexState, Fields, SetMode

LEMMA SetDollarForm ==
  ASSUME NEW s \in LexState, NEW m \in Modes, NEW p \in Symbols \cup {Absent}, NEW t \in Seq(Symbols),
         NEW l \in Seq(Symbols), NEW v \in Seq(Symbols),
         NEW r, r = SetDollar(s, m, p, t, l, v)
  PROVE  r \in LexState /\ Fields(r, m, p, t, l, s.piece, s.pieces, v, s.words)
<1>1. p \in Previous /\ t \in Text /\ l \in Text /\ v \in Text
  BY Zenon DEF Previous, Text
<1>2. QED BY <1>1 DEF LexState, Fields, SetDollar

LEMMA SetTagForm ==
  ASSUME NEW s \in LexState, NEW t \in Seq(Symbols), NEW p \in Symbols \cup {Absent},
         NEW r, r = SetTag(s, t, p)
  PROVE  r \in LexState /\ Fields(r, s.mode, p, t, s.tail, s.piece, s.pieces, s.word, s.words)
<1>1. t \in Text /\ p \in Previous
  BY Zenon DEF Text, Previous
<1>2. QED BY <1>1 DEF LexState, Fields, SetTag

LEMMA SetReadForm ==
  ASSUME NEW s \in LexState, NEW t \in Seq(Symbols), NEW p \in Symbols \cup {Absent}, NEW v \in Seq(Symbols),
         NEW r, r = SetRead(s, t, p, v)
  PROVE  r \in LexState /\ Fields(r, s.mode, p, t, s.tail, s.piece, s.pieces, v, s.words)
<1>1. t \in Text /\ p \in Previous /\ v \in Text
  BY Zenon DEF Text, Previous
<1>2. QED BY <1>1 DEF LexState, Fields, SetRead

LEMMA SetPrevForm ==
  ASSUME NEW s \in LexState, NEW p \in Symbols \cup {Absent},
         NEW r, r = SetPrev(s, p)
  PROVE  r \in LexState /\ Fields(r, s.mode, p, s.tag, s.tail, s.piece, s.pieces, s.word, s.words)
<1>1. p \in Previous
  BY Zenon DEF Previous
<1>2. QED BY <1>1 DEF LexState, Fields, SetPrev

LEMMA SetTailForm ==
  ASSUME NEW s \in LexState, NEW l \in Seq(Symbols),
         NEW r, r = SetTail(s, l)
  PROVE  r \in LexState /\ Fields(r, s.mode, s.prev, s.tag, l, s.piece, s.pieces, s.word, s.words)
<1>1. l \in Text
  BY Zenon DEF Text
<1>2. QED BY <1>1 DEF LexState, Fields, SetTail

LEMMA SetPieceForm ==
  ASSUME NEW s \in LexState, NEW u \in Seq(Symbols),
         NEW r, r = SetPiece(s, u)
  PROVE  r \in LexState /\ Fields(r, s.mode, s.prev, s.tag, s.tail, u, s.pieces, s.word, s.words)
<1>1. u \in Text
  BY Zenon DEF Text
<1>2. QED BY <1>1 DEF LexState, Fields, SetPiece

-----------------------------------------------------------------------------
(* The reference lexer, a symbol at a time. *)

Is(r, mode, prev, tag) == r.mode = mode /\ r.prev = prev /\ r.tag = tag
SameText(s, r) == r.piece = s.piece /\ r.pieces = s.pieces
SameWords(s, r) == r.word = s.word /\ r.words = s.words
Cut(u) == IF Trim(u) = <<>> THEN <<>> ELSE <<Trim(u)>>

(* A word that was being read is one of the words. *)
WordEnded(s, r) == r.word = <<>> /\ r.words = s.words \o (IF s.word = <<>> THEN <<>> ELSE <<s.word>>)

LEMMA EndWordForm ==
  ASSUME NEW s \in LexState
  PROVE  /\ SimpleEndWord(s) \in LexState /\ WordEnded(s, SimpleEndWord(s)) /\ SameText(s, SimpleEndWord(s))
         /\ Is(SimpleEndWord(s), s.mode, s.prev, s.tag) /\ SimpleEndWord(s).tail = s.tail
<1>1. CASE s.word = <<>>
  <2>1. SimpleEndWord(s) = s
    BY <1>1 DEF SimpleEndWord
  <2>2. s.words \o <<>> = s.words
    BY LexFields
  <2>3. QED BY <1>1, <2>1, <2>2 DEF WordEnded, SameText, Is
<1>2. CASE s.word # <<>>
  <2>1. SimpleEndWord(s) = [s EXCEPT !.words = Append(s.words, s.word), !.word = <<>>]
    BY <1>2 DEF SimpleEndWord
  <2>2. PICK w : w = Append(s.words, s.word)
    OBVIOUS
  <2>3. w \in Seq(Seq(Symbols)) /\ w = s.words \o <<s.word>> /\ <<>> \in Seq(Symbols)
    <3>1. PICK x \in Seq(Seq(Symbols)), v \in Seq(Symbols) : x = s.words /\ v = s.word
      BY LexFields
    <3>2. Append(x, v) \in Seq(Seq(Symbols)) /\ Append(x, v) = x \o <<v>>
      OBVIOUS
    <3>3. QED BY <2>2, <3>1, <3>2
  <2>4. PICK r : r = SetWords(s, w, <<>>)
    OBVIOUS
  <2>5. /\ r \in LexState /\ r.words = w /\ r.word = <<>> /\ r.mode = s.mode /\ r.prev = s.prev
        /\ r.tag = s.tag /\ r.tail = s.tail /\ r.piece = s.piece /\ r.pieces = s.pieces
    <3>1. r \in LexState /\ Fields(r, s.mode, s.prev, s.tag, s.tail, s.piece, s.pieces, <<>>, w)
      BY <2>3, <2>4, SetWordsForm
    <3>2. QED BY <3>1 DEF Fields
  <2>6. r = SimpleEndWord(s)
    BY <2>1, <2>2, <2>4, Zenon DEF SetWords
  <2>7. QED BY <1>2, <2>3, <2>5, <2>6 DEF WordEnded, SameText, Is
<1>3. QED BY <1>1, <1>2

LEMMA EndPieceForm ==
  ASSUME NEW s \in LexState
  PROVE  /\ EndPiece(s) \in LexState /\ SameWords(s, EndPiece(s))
         /\ Is(EndPiece(s), s.mode, s.prev, s.tag) /\ EndPiece(s).tail = s.tail
         /\ EndPiece(s).piece = <<>> /\ EndPiece(s).pieces = s.pieces \o Cut(s.piece)
<1>1. PICK t \in Seq(Symbols) : t = Trim(s.piece)
  <2>1. s.piece \in Seq(Symbols)
    BY LexFields
  <2>2. QED BY <2>1, TrimForm
<1>2. PICK p \in Seq(Seq(Symbols)) : /\ p = IF t = <<>> THEN s.pieces ELSE Append(s.pieces, t)
                                     /\ p = s.pieces \o Cut(s.piece)
  <2>1. s.pieces \in Seq(Seq(Symbols))
    BY LexFields
  <2>2. s.pieces \o <<>> = s.pieces /\ s.pieces \o <<t>> = Append(s.pieces, t)
    BY <2>1
  <2>3. Append(s.pieces, t) \in Seq(Seq(Symbols))
    BY <2>1
  <2>4. Cut(s.piece) = IF t = <<>> THEN <<>> ELSE <<t>>
    BY <1>1 DEF Cut
  <2>5. CASE t = <<>>
    BY <2>1, <2>2, <2>4, <2>5
  <2>6. CASE t # <<>>
    BY <2>2, <2>3, <2>4, <2>6
  <2>7. QED BY <2>5, <2>6
<1>3. EndPiece(s) = [s EXCEPT !.pieces = p, !.piece = <<>>]
  BY <1>1, <1>2, Zenon DEF EndPiece
<1>4. PICK r : r = SetPieces(s, p, <<>>)
  OBVIOUS
<1>5. /\ r \in LexState /\ r.words = s.words /\ r.word = s.word /\ r.mode = s.mode /\ r.prev = s.prev
      /\ r.tag = s.tag /\ r.tail = s.tail /\ r.piece = <<>> /\ r.pieces = p
  <2>1. <<>> \in Seq(Symbols)
    OBVIOUS
  <2>2. QED
    <3>1. r \in LexState /\ Fields(r, s.mode, s.prev, s.tag, s.tail, <<>>, p, s.word, s.words)
      BY <1>2, <1>4, <2>1, SetPiecesForm
    <3>2. QED BY <3>1 DEF Fields
<1>6. r = EndPiece(s)
  BY <1>3, <1>4, Zenon DEF SetPieces
<1>7. QED BY <1>2, <1>5, <1>6 DEF SameWords, Is

(* Inside of something, nothing is a word. *)
Entered(s, r, mode) ==
  r \in LexState /\ Is(r, mode, Absent, <<>>) /\ WordEnded(s, r) /\ SameText(s, r)

LEMMA EnterForm ==
  ASSUME NEW s \in LexState, NEW mode \in Modes
  PROVE  Entered(s, SimpleEnter(s, mode), mode)
<1>1. PICK e \in LexState : /\ e = SimpleEndWord(s) /\ WordEnded(s, e) /\ SameText(s, e)
  BY EndWordForm
<1>2. SimpleEnter(s, mode) = [e EXCEPT !.mode = mode, !.prev = Absent, !.tag = <<>>]
  BY <1>1, Zenon DEF SimpleEnter
<1>3. PICK r : r = SetMode(e, mode, Absent, <<>>)
  OBVIOUS
<1>4. /\ r \in LexState /\ r.words = e.words /\ r.word = e.word /\ r.mode = mode /\ r.prev = Absent
      /\ r.tag = <<>> /\ r.piece = e.piece /\ r.pieces = e.pieces
  <2>1. <<>> \in Seq(Symbols) /\ Absent \in Symbols \cup {Absent}
    OBVIOUS
  <2>2. QED
    <3>1. r \in LexState /\ Fields(r, mode, Absent, <<>>, e.tail, e.piece, e.pieces, e.word, e.words)
      BY <1>1, <1>3, <2>1, SetModeForm
    <3>2. QED BY <3>1 DEF Fields
<1>5. WordEnded(s, r) /\ SameText(s, r) /\ Is(r, mode, Absent, <<>>)
  BY <1>1, <1>4 DEF WordEnded, SameText, Is
<1>6. r = SimpleEnter(s, mode)
  BY <1>2, <1>3, Zenon DEF SetMode
<1>7. QED BY <1>4, <1>5, <1>6 DEF Entered

LEMMA LeaveForm ==
  ASSUME NEW s \in LexState
  PROVE  /\ Leave(s) \in LexState /\ Is(Leave(s), "code", Absent, <<>>)
         /\ SameWords(s, Leave(s)) /\ SameText(s, Leave(s))
<1>1. PICK r : r = SetMode(s, "code", Absent, <<>>)
  OBVIOUS
<1>2. r = Leave(s)
  BY <1>1, Zenon DEF Leave, SetMode
<1>3. "code" \in Modes
  BY DEF Modes
<1>4. /\ r \in LexState /\ r.words = s.words /\ r.word = s.word /\ r.mode = "code" /\ r.prev = Absent
      /\ r.tag = <<>> /\ r.piece = s.piece /\ r.pieces = s.pieces
  <2>1. <<>> \in Seq(Symbols) /\ Absent \in Symbols \cup {Absent}
    OBVIOUS
  <2>2. QED
    <3>1. r \in LexState /\ Fields(r, "code", Absent, <<>>, s.tail, s.piece, s.pieces, s.word, s.words)
      BY <1>1, <1>3, <2>1, SetModeForm
    <3>2. QED BY <3>1 DEF Fields
<1>5. QED BY <1>2, <1>4 DEF SameWords, SameText, Is

(* What a symbol does outside. *)
CodeMode(s, c, r) ==
  /\ c \in {"'", "dq"} => Is(r, c, Absent, <<>>)
  /\ c = "-" /\ s.prev = "-" => Is(r, "line", Absent, <<>>)
  /\ c = "*" /\ s.prev = "/" => Is(r, "block", Absent, <<>>)
  /\ c = "$" /\ s.tag # <<>> => Is(r, "dollar", Absent, Append(s.tag, c)) /\ r.tail = <<>>
  /\ c = "$" /\ s.tag = <<>> => Is(r, "code", c, <<c>>)
  /\ c \in WordSymbols => Is(r, "code", c, IF s.tag = <<>> THEN <<>> ELSE Append(s.tag, c))
  /\ /\ c \notin WordSymbols \cup {"'", "dq", "$"}
     /\ ~ (c = "-" /\ s.prev = "-") /\ ~ (c = "*" /\ s.prev = "/")
     => Is(r, "code", c, <<>>)
CodeWord(s, c, r) ==
  /\ c \in WordSymbols =>
       /\ r.words = s.words
       /\ r.word = IF s.word # <<>> \/ c \in Letters THEN Append(s.word, c) ELSE s.word
  /\ c = "$" /\ s.tag # <<>> => r.words = s.words /\ r.word = <<>>
  /\ c \notin WordSymbols /\ ~ (c = "$" /\ s.tag # <<>>) => WordEnded(s, r)

LEMMA InCodeCases ==
  ASSUME NEW s, NEW c
  PROVE  /\ c \in {"'", "dq"} => SimpleInCode(s, c) = SimpleEnter(s, c)
         /\ c = "-" /\ s.prev = "-" => SimpleInCode(s, c) = SimpleEnter(s, "line")
         /\ c = "*" /\ s.prev = "/" => SimpleInCode(s, c) = SimpleEnter(s, "block")
         /\ c = "$" /\ s.tag # <<>> =>
              SimpleInCode(s, c) = SetDollar(s, "dollar", Absent, Append(s.tag, c), <<>>, <<>>)
         /\ c = "$" /\ s.tag = <<>> => SimpleInCode(s, c) = SetTag(SimpleEndWord(s), <<c>>, c)
         /\ c \in WordSymbols =>
              SimpleInCode(s, c) = SetRead(s, IF s.tag = <<>> THEN s.tag ELSE Append(s.tag, c), c,
                                     IF s.word # <<>> \/ c \in Letters
                                     THEN Append(s.word, c) ELSE s.word)
         /\ /\ c \notin WordSymbols \cup {"'", "dq", "$"}
            /\ ~ (c = "-" /\ s.prev = "-") /\ ~ (c = "*" /\ s.prev = "/")
            => SimpleInCode(s, c) = SetTag(SimpleEndWord(s), <<>>, c)
<1>1. CASE c \in {"'", "dq"}
  <2>1. c \notin WordSymbols /\ c # "-" /\ c # "*" /\ c # "$"
    BY <1>1 DEF WordSymbols, Letters
  <2>2. QED BY <1>1, <2>1, Zenon DEF SimpleInCode, SetDollar, SetTag, SetRead
<1>2. CASE c = "-"
  <2>1. c \notin WordSymbols /\ c \notin {"'", "dq"} /\ c # "*" /\ c # "$"
    BY <1>2 DEF WordSymbols, Letters
  <2>2. QED BY <1>2, <2>1, Zenon DEF SimpleInCode, SetDollar, SetTag, SetRead
<1>3. CASE c = "*"
  <2>1. c \notin WordSymbols /\ c \notin {"'", "dq"} /\ c # "-" /\ c # "$"
    BY <1>3 DEF WordSymbols, Letters
  <2>2. QED BY <1>3, <2>1, Zenon DEF SimpleInCode, SetDollar, SetTag, SetRead
<1>4. CASE c = "$"
  <2>1. c \notin WordSymbols /\ c \notin {"'", "dq"} /\ c # "-" /\ c # "*"
    BY <1>4 DEF WordSymbols, Letters
  <2>2. QED BY <1>4, <2>1, Zenon DEF SimpleInCode, SetDollar, SetTag, SetRead
<1>5. CASE c \in WordSymbols
  <2>1. c \notin {"'", "dq"} /\ c # "-" /\ c # "*" /\ c # "$"
    BY <1>5 DEF WordSymbols, Letters
  <2>2. QED BY <1>5, <2>1, Zenon DEF SimpleInCode, SetDollar, SetTag, SetRead
<1>6. CASE c \notin WordSymbols \cup {"'", "dq", "$", "-", "*"}
  <2>1. c \notin WordSymbols /\ c \notin {"'", "dq"} /\ c # "-" /\ c # "*" /\ c # "$"
    BY <1>6
  <2>2. QED BY <2>1, Zenon DEF SimpleInCode, SetDollar, SetTag, SetRead
<1>7. QED BY <1>1, <1>2, <1>3, <1>4, <1>5, <1>6

Outside(s, c, r) == CodeMode(s, c, r) /\ CodeWord(s, c, r) /\ SameText(s, r)

LEMMA InCodeForm ==
  ASSUME NEW s \in LexState, NEW c \in Symbols
  PROVE  s.mode = "code" => SimpleInCode(s, c) \in LexState /\ Outside(s, c, SimpleInCode(s, c))
<1> SUFFICES ASSUME s.mode = "code"
             PROVE  SimpleInCode(s, c) \in LexState /\ Outside(s, c, SimpleInCode(s, c))
  OBVIOUS
<1>1. PICK r : r = SimpleInCode(s, c)
  OBVIOUS
<1>2. "$" \in Symbols /\ "code" \in Modes /\ "line" \in Modes /\ "block" \in Modes /\ "dollar" \in Modes
  <2>1. "$" \in Symbols
    BY Zenon DEF Symbols
  <2>2. QED BY <2>1 DEF Modes
<1>3. ASSUME NEW mode \in Modes, c \notin WordSymbols, c # "$", r = SimpleEnter(s, mode),
             CodeMode(s, c, r) <=> Is(r, mode, Absent, <<>>)
      PROVE  r \in LexState /\ Outside(s, c, r)
  <2>1. Entered(s, r, mode)
    BY <1>3, EnterForm
  <2>2. r \in LexState /\ WordEnded(s, r) /\ SameText(s, r) /\ Is(r, mode, Absent, <<>>)
    BY <2>1 DEF Entered
  <2>3. CodeWord(s, c, r)
    BY <1>3, <2>2, Zenon DEF CodeWord
  <2>4. QED BY <1>3, <2>2, <2>3 DEF Outside
<1>4. CASE c \in {"'", "dq"}
  <2>1. c \notin WordSymbols /\ c \notin {"-", "*", "$"} /\ c \in Modes
    BY <1>4 DEF WordSymbols, Letters, Modes
  <2>2. r = SimpleEnter(s, c)
    BY <1>1, <1>4, InCodeCases, Zenon
  <2>3. CodeMode(s, c, r) <=> Is(r, c, Absent, <<>>)
    BY <1>4, <2>1, Zenon DEF CodeMode
  <2>4. QED BY <1>1, <1>3, <2>1, <2>2, <2>3
<1>5. CASE c = "-" /\ s.prev = "-"
  <2>1. c \notin WordSymbols /\ c \notin {"'", "dq", "*", "$"}
    BY <1>5 DEF WordSymbols, Letters
  <2>2. r = SimpleEnter(s, "line")
    BY <1>1, <1>5, InCodeCases, Zenon
  <2>3. CodeMode(s, c, r) <=> Is(r, "line", Absent, <<>>)
    BY <1>5, <2>1, Zenon DEF CodeMode
  <2>4. QED BY <1>1, <1>2, <1>3, <2>1, <2>2, <2>3
<1>6. CASE c = "*" /\ s.prev = "/"
  <2>1. c \notin WordSymbols /\ c \notin {"'", "dq", "-", "$"}
    BY <1>6 DEF WordSymbols, Letters
  <2>2. r = SimpleEnter(s, "block")
    BY <1>1, <1>6, InCodeCases, Zenon
  <2>3. CodeMode(s, c, r) <=> Is(r, "block", Absent, <<>>)
    BY <1>6, <2>1, Zenon DEF CodeMode
  <2>4. QED BY <1>1, <1>2, <1>3, <2>1, <2>2, <2>3
<1>7. CASE c = "$" /\ s.tag # <<>>
  <2>1. c \notin WordSymbols /\ c \notin {"'", "dq", "-", "*"}
    BY <1>7 DEF WordSymbols, Letters
  <2>2. PICK t : t = Append(s.tag, c)
    OBVIOUS
  <2>3. t \in Seq(Symbols) /\ <<>> \in Seq(Symbols) /\ Absent \in Symbols \cup {Absent}
    BY <2>2, LexFields
  <2>4. r = SetDollar(s, "dollar", Absent, t, <<>>, <<>>)
    BY <1>1, <1>7, <2>2, InCodeCases, Zenon
  <2>5. /\ r \in LexState /\ r.words = s.words /\ r.word = <<>> /\ r.mode = "dollar"
        /\ r.prev = Absent /\ r.tag = t /\ r.tail = <<>> /\ r.piece = s.piece /\ r.pieces = s.pieces
    <3>1. r \in LexState /\ Fields(r, "dollar", Absent, t, <<>>, s.piece, s.pieces, <<>>, s.words)
      BY <1>2, <2>3, <2>4, SetDollarForm
    <3>2. QED BY <3>1 DEF Fields
  <2>6. Is(r, "dollar", Absent, Append(s.tag, c)) /\ SameText(s, r)
    BY <2>2, <2>5 DEF Is, SameText
  <2>7. CodeMode(s, c, r)
    BY <1>7, <2>1, <2>5, <2>6, Zenon DEF CodeMode
  <2>8. CodeWord(s, c, r)
    BY <1>7, <2>1, <2>5, Zenon DEF CodeWord
  <2>9. QED BY <1>1, <2>5, <2>6, <2>7, <2>8 DEF Outside
<1>8. ASSUME NEW t \in Seq(Symbols), c \notin WordSymbols, ~ (c = "$" /\ s.tag # <<>>),
             r = SetTag(SimpleEndWord(s), t, c),
             CodeMode(s, c, r) <=> Is(r, "code", c, t)
      PROVE  r \in LexState /\ Outside(s, c, r)
  <2>1. PICK e \in LexState : /\ e = SimpleEndWord(s) /\ WordEnded(s, e) /\ SameText(s, e)
                              /\ Is(e, s.mode, s.prev, s.tag)
    BY EndWordForm
  <2>2. r = SetTag(e, t, c)
    BY <1>8, <2>1
  <2>3. e.mode = "code"
    BY <2>1 DEF Is
  <2>4. /\ r \in LexState /\ r.words = e.words /\ r.word = e.word /\ r.mode = "code"
        /\ r.prev = c /\ r.tag = t /\ r.piece = e.piece /\ r.pieces = e.pieces
    <3>1. c \in Symbols \cup {Absent}
      OBVIOUS
    <3>2. QED
      <4>1. r \in LexState /\ Fields(r, e.mode, c, t, e.tail, e.piece, e.pieces, e.word, e.words)
        BY <2>1, <2>2, <2>3, <3>1, SetTagForm
      <4>2. QED BY <2>3, <4>1 DEF Fields
  <2>5. Is(r, "code", c, t) /\ SameText(s, r) /\ WordEnded(s, r)
    BY <2>1, <2>4 DEF Is, SameText, WordEnded
  <2>6. CodeWord(s, c, r)
    BY <1>8, <2>5, Zenon DEF CodeWord
  <2>7. QED BY <1>8, <2>4, <2>5, <2>6 DEF Outside
<1>9. CASE c = "$" /\ s.tag = <<>>
  <2>1. c \notin WordSymbols /\ c \notin {"'", "dq", "-", "*"}
    BY <1>9 DEF WordSymbols, Letters
  <2>2. r = SetTag(SimpleEndWord(s), <<c>>, c)
    BY <1>1, <1>9, InCodeCases, Zenon
  <2>3. CodeMode(s, c, r) <=> Is(r, "code", c, <<c>>)
    BY <1>9, <2>1, Zenon DEF CodeMode
  <2>4. <<c>> \in Seq(Symbols)
    OBVIOUS
  <2>5. QED BY <1>1, <1>8, <1>9, <2>1, <2>2, <2>3, <2>4
<1>10. CASE /\ c \notin WordSymbols \cup {"'", "dq", "$"}
            /\ ~ (c = "-" /\ s.prev = "-") /\ ~ (c = "*" /\ s.prev = "/")
  <2>1. c \notin WordSymbols /\ c \notin {"'", "dq"} /\ c # "$"
    BY <1>10
  <2>2. r = SetTag(SimpleEndWord(s), <<>>, c)
    BY <1>1, <1>10, InCodeCases, Zenon
  <2>3. CodeMode(s, c, r) <=> Is(r, "code", c, <<>>)
    BY <1>10, <2>1, Zenon DEF CodeMode
  <2>4. <<>> \in Seq(Symbols)
    OBVIOUS
  <2>5. QED BY <1>1, <1>8, <2>1, <2>2, <2>3, <2>4
<1>11. CASE c \in WordSymbols
  <2>1. c \notin {"'", "dq"} /\ c # "-" /\ c # "*" /\ c # "$"
    BY <1>11 DEF WordSymbols, Letters
  <2>2. PICK t \in Seq(Symbols) : /\ t = IF s.tag = <<>> THEN s.tag ELSE Append(s.tag, c)
                                  /\ t = IF s.tag = <<>> THEN <<>> ELSE Append(s.tag, c)
    <3>1. PICK a \in Seq(Symbols) : a = s.tag
      BY LexFields
    <3>2. Append(a, c) \in Seq(Symbols)
      OBVIOUS
    <3>3. QED BY <3>1, <3>2
  <2>3. PICK w \in Seq(Symbols) : w = IF s.word # <<>> \/ c \in Letters
                                      THEN Append(s.word, c) ELSE s.word
    <3>1. PICK a \in Seq(Symbols) : a = s.word
      BY LexFields
    <3>2. Append(a, c) \in Seq(Symbols)
      OBVIOUS
    <3>3. QED BY <3>1, <3>2
  <2>4. r = SetRead(s, t, c, w)
    BY <1>1, <1>11, <2>2, <2>3, InCodeCases, Zenon
  <2>5. /\ r \in LexState /\ r.words = s.words /\ r.word = w /\ r.mode = "code"
        /\ r.prev = c /\ r.tag = t /\ r.piece = s.piece /\ r.pieces = s.pieces
    <3>1. c \in Symbols \cup {Absent}
      OBVIOUS
    <3>2. QED
      <4>1. r \in LexState /\ Fields(r, s.mode, c, t, s.tail, s.piece, s.pieces, w, s.words)
        BY <2>4, <3>1, SetReadForm
      <4>2. QED BY <4>1 DEF Fields
  <2>6. Is(r, "code", c, t) /\ SameText(s, r)
    BY <2>5 DEF Is, SameText
  <2>7. CodeMode(s, c, r)
    BY <1>11, <2>1, <2>2, <2>6, Zenon DEF CodeMode
  <2>8. CodeWord(s, c, r)
    BY <1>11, <2>1, <2>3, <2>5, Zenon DEF CodeWord
  <2>9. QED BY <1>1, <2>5, <2>6, <2>7, <2>8 DEF Outside
<1>12. QED BY <1>4, <1>5, <1>6, <1>7, <1>9, <1>10, <1>11

(* What a symbol does inside. *)
Inner(s, c, r) ==
  /\ s.mode \in {"'", "dq"} => Is(r, IF c = s.mode THEN "code" ELSE s.mode, r.prev, r.tag)
  /\ s.mode = "line" => Is(r, IF c = "nl" THEN "code" ELSE s.mode, r.prev, r.tag)
  /\ s.mode = "block" =>
       IF c = "/" /\ s.prev = "*" THEN r.mode = "code" ELSE r.mode = "block" /\ r.prev = c
  /\ s.mode = "dollar" =>
       IF IsSuffix(s.tag, Append(s.tail, c)) THEN r.mode = "code"
       ELSE r.mode = "dollar" /\ r.tag = s.tag /\ r.tail = Append(s.tail, c)
  /\ r.mode = "code" => r.prev = Absent /\ r.tag = <<>>
  /\ SameWords(s, r)

(* Reads(s, c, r): the lexer reads c in s and is in r. *)
Reads(s, c, r) ==
  /\ r \in LexState
  /\ s.mode = "code" => CodeMode(s, c, r) /\ CodeWord(s, c, r)
  /\ s.mode # "code" => Inner(s, c, r)
  /\ IF s.mode = "code" /\ c = ";"
     THEN r.pieces = s.pieces \o Cut(s.piece) /\ r.piece = <<>>
     ELSE r.pieces = s.pieces /\ r.piece = Append(s.piece, c)

Within(s, c) ==
  CASE s.mode = "code" -> SimpleInCode(s, c)
    [] s.mode \in {"'", "dq"} -> IF c = s.mode THEN Leave(s) ELSE s
    [] s.mode = "line" -> IF c = "nl" THEN Leave(s) ELSE s
    [] s.mode = "block" ->
         IF c = "/" /\ s.prev = "*" THEN Leave(s) ELSE [s EXCEPT !.prev = c]
    [] s.mode = "dollar" ->
         IF IsSuffix(s.tag, Append(s.tail, c)) THEN Leave(s)
         ELSE [s EXCEPT !.tail = Append(@, c)]

LEMMA WithinForm ==
  ASSUME NEW s \in LexState, NEW c \in Symbols, s.mode # "code"
  PROVE  Within(s, c) \in LexState /\ Inner(s, c, Within(s, c)) /\ SameText(s, Within(s, c))
<1>1. PICK r : r = Within(s, c)
  OBVIOUS
<1>2. SUFFICES r \in LexState /\ Inner(s, c, r) /\ SameText(s, r)
  BY <1>1
<1>3. s.mode \in {"'", "dq", "line", "block", "dollar"}
  BY LexFields DEF Modes
<1>4. PICK l \in LexState : /\ l = Leave(s) /\ Is(l, "code", Absent, <<>>)
                            /\ SameWords(s, l) /\ SameText(s, l)
  BY LeaveForm
<1>5. /\ l.mode = "code" /\ l.prev = Absent /\ l.tag = <<>>
      /\ SameWords(s, s) /\ SameText(s, s)
  BY <1>4 DEF Is, SameWords, SameText
<1>6. CASE s.mode \in {"'", "dq"}
  <2>1. r = IF c = s.mode THEN l ELSE s
    BY <1>1, <1>4, <1>6, Zenon DEF Within
  <2>2. s.mode \notin {"line", "block", "dollar"}
    BY <1>6
  <2>3. CASE c = s.mode
    <3>1. r = l
      BY <2>1, <2>3
    <3>2. Inner(s, c, r)
      BY <1>4, <1>5, <1>6, <2>2, <2>3, <3>1 DEF Inner, Is
    <3>3. QED BY <1>4, <3>1, <3>2
  <2>4. CASE c # s.mode
    <3>1. r = s
      BY <2>1, <2>4
    <3>2. Inner(s, c, r)
      BY <1>5, <1>6, <2>2, <2>4, <3>1 DEF Inner, Is
    <3>3. QED BY <1>5, <3>1, <3>2
  <2>5. QED BY <2>3, <2>4
<1>7. CASE s.mode = "line"
  <2>1. r = IF c = "nl" THEN l ELSE s
    BY <1>1, <1>4, <1>7, Zenon DEF Within
  <2>3. CASE c = "nl"
    <3>1. r = l
      BY <2>1, <2>3
    <3>2. Inner(s, c, r)
      BY <1>4, <1>5, <1>7, <2>3, <3>1 DEF Inner, Is
    <3>3. QED BY <1>4, <3>1, <3>2
  <2>4. CASE c # "nl"
    <3>1. r = s
      BY <2>1, <2>4
    <3>2. Inner(s, c, r)
      BY <1>5, <1>7, <2>4, <3>1 DEF Inner, Is
    <3>3. QED BY <1>5, <3>1, <3>2
  <2>5. QED BY <2>3, <2>4
<1>8. CASE s.mode = "block"
  <2>1. r = IF c = "/" /\ s.prev = "*" THEN l ELSE [s EXCEPT !.prev = c]
    BY <1>1, <1>4, <1>8, Zenon DEF Within
  <2>3. CASE c = "/" /\ s.prev = "*"
    <3>1. r = l
      BY <2>1, <2>3
    <3>2. Inner(s, c, r)
      BY <1>4, <1>5, <1>8, <2>3, <3>1 DEF Inner, Is
    <3>3. QED BY <1>4, <3>1, <3>2
  <2>4. CASE ~ (c = "/" /\ s.prev = "*")
    <3>1. r = SetPrev(s, c)
      BY <2>1, <2>4, Zenon DEF SetPrev
    <3>2. /\ r \in LexState /\ r.mode = s.mode /\ r.prev = c /\ r.word = s.word
          /\ r.words = s.words /\ r.piece = s.piece /\ r.pieces = s.pieces
      <4>1. c \in Symbols \cup {Absent}
        OBVIOUS
      <4>2. QED
        <5>1. r \in LexState /\ Fields(r, s.mode, c, s.tag, s.tail, s.piece, s.pieces, s.word, s.words)
          BY <3>1, <4>1, SetPrevForm
        <5>2. QED BY <5>1 DEF Fields
    <3>3. SameWords(s, r) /\ SameText(s, r)
      BY <3>2 DEF SameWords, SameText
    <3>4. Inner(s, c, r)
      BY <1>8, <2>4, <3>2, <3>3 DEF Inner
    <3>5. QED BY <3>2, <3>3, <3>4
  <2>5. QED BY <2>3, <2>4
<1>9. CASE s.mode = "dollar"
  <2>1. r = IF IsSuffix(s.tag, Append(s.tail, c)) THEN l ELSE [s EXCEPT !.tail = Append(s.tail, c)]
    BY <1>1, <1>4, <1>9, Zenon DEF Within
  <2>2. PICK suffix : suffix = IsSuffix(s.tag, Append(s.tail, c))
    OBVIOUS
  <2>3. CASE suffix
    <3>1. r = l
      BY <2>1, <2>2, <2>3
    <3>2. Inner(s, c, r)
      BY <1>4, <1>5, <1>9, <2>2, <2>3, <3>1 DEF Inner
    <3>3. QED BY <1>4, <3>1, <3>2
  <2>4. CASE ~ suffix
    <3>0. PICK t : t = Append(s.tail, c)
      OBVIOUS
    <3>1. t \in Seq(Symbols) /\ r = SetTail(s, t)
      <4>1. t \in Seq(Symbols)
        BY <3>0, LexFields
      <4>2. QED BY <2>1, <2>2, <2>4, <3>0, <4>1, Zenon DEF SetTail
    <3>2. /\ r \in LexState /\ r.mode = s.mode /\ r.tag = s.tag /\ r.word = s.word /\ r.tail = t
          /\ r.words = s.words /\ r.piece = s.piece /\ r.pieces = s.pieces
      <4>1. r \in LexState /\ Fields(r, s.mode, s.prev, s.tag, t, s.piece, s.pieces, s.word, s.words)
        BY <3>1, SetTailForm
      <4>2. QED BY <4>1 DEF Fields
    <3>3. SameWords(s, r) /\ SameText(s, r)
      BY <3>2 DEF SameWords, SameText
    <3>4. Inner(s, c, r)
      BY <1>9, <2>2, <2>4, <3>0, <3>2, <3>3 DEF Inner
    <3>5. QED BY <3>2, <3>3, <3>4
  <2>5. QED BY <2>3, <2>4
<1>10. QED BY <1>3, <1>6, <1>7, <1>8, <1>9

LEMMA LexIs ==
  ASSUME NEW s, NEW c
  PROVE  SimpleLex(s, c) = IF s.mode = "code" /\ c = ";" THEN EndPiece(Within(s, c))
                     ELSE SetPiece(Within(s, c), Append(Within(s, c).piece, c))
BY Zenon DEF SimpleLex, Within, SetPiece

LEMMA LexReads ==
  ASSUME NEW s \in LexState, NEW c \in Symbols
  PROVE  Reads(s, c, SimpleLex(s, c))
<1>1. PICK x : x = Within(s, c)
  OBVIOUS
<1>2. SimpleLex(s, c) = IF s.mode = "code" /\ c = ";" THEN EndPiece(x)
                  ELSE SetPiece(x, Append(x.piece, c))
  BY <1>1, LexIs
<1>3. s.mode = "code" => x = SimpleInCode(s, c)
  BY <1>1, Zenon DEF Within
<1>4. /\ x \in LexState /\ SameText(s, x)
      /\ s.mode = "code" => CodeMode(s, c, x) /\ CodeWord(s, c, x)
      /\ s.mode # "code" => Inner(s, c, x)
  <2>1. CASE s.mode = "code"
    <3>1. x \in LexState /\ Outside(s, c, x)
      BY <1>3, <2>1, InCodeForm
    <3>2. QED BY <2>1, <3>1 DEF Outside
  <2>2. CASE s.mode # "code"
    BY <1>1, <2>2, WithinForm
  <2>3. QED BY <2>1, <2>2
<1>5. ASSUME NEW r \in LexState, r.mode = x.mode, r.prev = x.prev, r.tag = x.tag, r.tail = x.tail,
             r.word = x.word, r.words = x.words
      PROVE  /\ s.mode = "code" => CodeMode(s, c, r) /\ CodeWord(s, c, r)
             /\ s.mode # "code" => Inner(s, c, r)
  <2>1. s.mode = "code" => CodeMode(s, c, r)
    BY <1>4, <1>5 DEF CodeMode, Is
  <2>2. s.mode = "code" => CodeWord(s, c, r)
    BY <1>4, <1>5 DEF CodeWord, WordEnded
  <2>3. s.mode # "code" => Inner(s, c, r)
    BY <1>4, <1>5 DEF Inner, Is, SameWords
  <2>4. QED BY <2>1, <2>2, <2>3
<1>6. CASE s.mode = "code" /\ c = ";"
  <2>1. PICK r \in LexState : /\ r = EndPiece(x) /\ SameWords(x, r)
                              /\ Is(r, x.mode, x.prev, x.tag) /\ r.tail = x.tail
                              /\ r.piece = <<>> /\ r.pieces = x.pieces \o Cut(x.piece)
    BY <1>4, EndPieceForm
  <2>2. SimpleLex(s, c) = r
    BY <1>2, <1>6, <2>1
  <2>3. /\ s.mode = "code" => CodeMode(s, c, r) /\ CodeWord(s, c, r)
        /\ s.mode # "code" => Inner(s, c, r)
    BY <1>5, <2>1 DEF Is, SameWords
  <2>4. r.pieces = s.pieces \o Cut(s.piece)
    BY <1>4, <2>1 DEF SameText
  <2>5. QED BY <1>6, <2>1, <2>2, <2>3, <2>4, Zenon DEF Reads
<1>7. CASE ~ (s.mode = "code" /\ c = ";")
  <2>1. PICK u : u = Append(x.piece, c)
    OBVIOUS
  <2>2. u \in Seq(Symbols)
    BY <1>4, <2>1, LexFields
  <2>3. PICK r : r = SetPiece(x, u)
    OBVIOUS
  <2>4. /\ r \in LexState /\ r.mode = x.mode /\ r.prev = x.prev /\ r.tag = x.tag /\ r.tail = x.tail
        /\ r.word = x.word /\ r.words = x.words /\ r.piece = u /\ r.pieces = x.pieces
    <3>1. r \in LexState /\ Fields(r, x.mode, x.prev, x.tag, x.tail, u, x.pieces, x.word, x.words)
      BY <1>4, <2>2, <2>3, SetPieceForm
    <3>2. QED BY <3>1 DEF Fields
  <2>5. SimpleLex(s, c) = r
    BY <1>2, <1>7, <2>1, <2>3, Zenon
  <2>6. /\ s.mode = "code" => CodeMode(s, c, r) /\ CodeWord(s, c, r)
        /\ s.mode # "code" => Inner(s, c, r)
    BY <1>5, <2>4
  <2>7. r.pieces = s.pieces /\ r.piece = Append(s.piece, c)
    BY <1>4, <2>1, <2>4 DEF SameText
  <2>8. QED BY <1>7, <2>4, <2>5, <2>6, <2>7, Zenon DEF Reads
<1>8. QED BY <1>6, <1>7

LexOne == [x \in LexState \X Symbols |-> SimpleLex(x[1], x[2])]

LEMMA LexForm ==
  /\ LexOne \in [LexState \X Symbols -> LexState]
  /\ \A s \in LexState, c \in Symbols : LexOne[<<s, c>>] = SimpleLex(s, c)
<1>1. PICK A : A = LexState
  OBVIOUS
<1>2. ASSUME NEW s \in A, NEW c \in Symbols
      PROVE  SimpleLex(s, c) \in A
  BY <1>1, LexReads DEF Reads
<1>3. ASSUME NEW x \in A \X Symbols
      PROVE  SimpleLex(x[1], x[2]) \in A
  <2>1. x[1] \in A /\ x[2] \in Symbols
    OBVIOUS
  <2>2. QED BY <1>2, <2>1
<1>4. LexOne = [x \in A \X Symbols |-> SimpleLex(x[1], x[2])]
  BY <1>1, Zenon DEF LexOne
<1>5. ASSUME NEW s \in A, NEW c \in Symbols
      PROVE  LexOne[<<s, c>>] = SimpleLex(s, c)
  <2>1. PICK x : x = <<s, c>>
    OBVIOUS
  <2>2. x \in A \X Symbols /\ x[1] = s /\ x[2] = c
    BY <2>1
  <2>3. LexOne[x] = SimpleLex(x[1], x[2])
    BY <1>4, <2>2, Zenon
  <2>4. QED BY <2>1, <2>2, <2>3
<1>6. LexOne \in [A \X Symbols -> A]
  BY <1>3, <1>4, Zenon
<1>7. QED BY <1>1, <1>5, <1>6

LEMMA LexedForm ==
  /\ SimpleLexed \in LexState /\ Is(SimpleLexed, "code", Absent, <<>>)
  /\ SimpleLexed.piece = <<>> /\ SimpleLexed.pieces = <<>> /\ SimpleLexed.word = <<>> /\ SimpleLexed.words = <<>>
<1>1. PICK e : e = <<>>
  OBVIOUS
<1>2. e \in Seq(Symbols) /\ e \in Seq(Seq(Symbols))
  BY <1>1
<1>3. PICK r : r = [mode |-> "code", prev |-> Absent, tag |-> e, tail |-> e,
                    piece |-> e, pieces |-> e, word |-> e, words |-> e]
  OBVIOUS
<1>4. r = SimpleLexed
  BY <1>1, <1>3 DEF SimpleLexed
<1>5. "code" \in Modes
  BY DEF Modes
<1>6. /\ r \in LexState /\ r.mode = "code" /\ r.prev = Absent /\ r.tag = e
      /\ r.piece = e /\ r.pieces = e /\ r.word = e /\ r.words = e
  <2>1. Absent \in Previous /\ e \in Text /\ e \in Parts
    BY <1>2, Zenon DEF Previous, Text, Parts
  <2>2. QED BY ONLY <1>3, <1>5, <2>1 DEF LexState
<1>7. QED BY <1>1, <1>4, <1>6 DEF Is

LEMMA LexFolds ==
  ASSUME NEW text \in Seq(Symbols)
  PROVE  Folded(FoldLeft(SimpleLex, SimpleLexed, text), SimpleLexed, LexOne, text)
<1> DEFINE n == Len(text)
<1>0. PICK A : A = LexState
  OBVIOUS
<1>1. n \in Nat /\ DOMAIN text = 1..n /\ SimpleLexed \in A
  BY <1>0, LexedForm, LenProperties
<1>2. LexOne \in [A \X Symbols -> A] /\ \A s \in A, x \in Symbols : LexOne[<<s, x>>] = SimpleLex(s, x)
  BY <1>0, LexForm
<1>3. PICK g \in [SUBSET (1..n) -> A] : FoldsBy(g, A, Symbols, SimpleLexed, LexOne, text)
  BY <1>1, <1>2, FoldHasSteps
<1>4. \A s \in SUBSET (1..n) : g[s] = IF s = {} THEN SimpleLexed ELSE SimpleLex(g[s \ {Max(s)}], text[Max(s)])
  BY <1>2, <1>3, Zenon DEF FoldsBy
<1>5. g = [s \in SUBSET (1..n) |-> IF s = {} THEN SimpleLexed ELSE SimpleLex(g[s \ {Max(s)}], text[Max(s)])]
  BY <1>4, Zenon
<1>6. PICK h : /\ h = [s \in SUBSET (1..n) |-> IF s = {} THEN SimpleLexed ELSE SimpleLex(h[s \ {Max(s)}], text[Max(s)])]
               /\ FoldLeft(SimpleLex, SimpleLexed, text) = h[1..n]
  BY <1>1, <1>5, ZenonT(60) DEF FoldLeft, MapThenFoldSet
<1>7. \A s \in SUBSET (1..n) : h[s] = IF s = {} THEN SimpleLexed ELSE SimpleLex(h[s \ {Max(s)}], text[Max(s)])
  BY <1>6, Zenon
<1>8. ASSUME NEW s \in SUBSET (1..n)
      PROVE  /\ s = {} => h[s] = SimpleLexed
             /\ s # {} /\ h[s \ {Max(s)}] \in A => h[s] = LexOne[<<h[s \ {Max(s)}], text[Max(s)]>>]
  BY <1>2, <1>3, <1>7, Zenon DEF FoldsBy
<1>9. FoldsTo(FoldLeft(SimpleLex, SimpleLexed, text), A, SimpleLexed, LexOne, text)
  BY <1>6, <1>8, Zenon DEF FoldsTo
<1>10. QED BY <1>1, <1>2, <1>9, FoldedSteps

(* The lexer's states on a text: run[k] is the one behind k symbols.       *)
LexRun(run, text) ==
  /\ run[0] = SimpleLexed
  /\ \A k \in 0..Len(text) : run[k] \in LexState
  /\ \A k \in 1..Len(text) : Reads(run[k - 1], text[k], run[k])

LEMMA LexRuns ==
  ASSUME NEW text \in Seq(Symbols)
  PROVE  \E run : LexRun(run, text) /\ run[Len(text)] = FoldLeft(SimpleLex, SimpleLexed, text)
<1>0. PICK n \in Nat : n = Len(text)
  BY TextForm
<1>1. PICK run : Folding(run, SimpleLexed, LexOne, text) /\ run[Len(text)] = FoldLeft(SimpleLex, SimpleLexed, text)
  BY LexFolds DEF Folded
<1>2. PICK A : A = LexState /\ LexOne \in [A \X Symbols -> A] /\ SimpleLexed \in A
  BY LexForm, LexedForm
<1>3. \A k \in 0..Len(text) : run[k] \in A
  BY <1>1, <1>2, FoldingTyped
<1>4. ASSUME NEW k \in 1..Len(text)
      PROVE  Reads(run[k - 1], text[k], run[k])
  <2>1. run[k] = LexOne[<<run[k - 1], text[k]>>]
    BY <1>1 DEF Folding
  <2>2. k - 1 \in 0..Len(text)
    BY <1>0
  <2>3. PICK s \in LexState : s = run[k - 1]
    BY <1>2, <1>3, <2>2
  <2>4. PICK c \in Symbols : c = text[k]
    BY TextForm
  <2>5. run[k] = SimpleLex(s, c)
    BY <2>1, <2>3, <2>4, LexForm
  <2>6. QED BY <2>3, <2>4, <2>5, LexReads
<1>5. run[0] = SimpleLexed
  BY <1>1 DEF Folding
<1>6. QED BY <1>1, <1>2, <1>3, <1>4, <1>5 DEF LexRun

(* What comes out at the end. *)
Ended(s) == s.words \o (IF s.word = <<>> THEN <<>> ELSE <<s.word>>)

LEMMA ReferenceIs ==
  ASSUME NEW text \in Seq(Symbols), NEW run, LexRun(run, text),
         run[Len(text)] = FoldLeft(SimpleLex, SimpleLexed, text)
  PROVE  /\ SimpleReference(text).mode = run[Len(text)].mode
         /\ SimpleReference(text).pieces = run[Len(text)].pieces \o Cut(run[Len(text)].piece)
         /\ SimpleReference(text).words = Ended(run[Len(text)])
<1>0. PICK n \in Nat : n = Len(text)
  BY TextForm
<1>1. PICK s \in LexState : s = run[Len(text)]
  <2>1. n \in 0..Len(text)
    BY <1>0
  <2>2. QED BY <1>0, <2>1 DEF LexRun
<1>2. PICK e \in LexState : /\ e = SimpleEndWord(s) /\ WordEnded(s, e) /\ SameText(s, e)
                            /\ Is(e, s.mode, s.prev, s.tag)
  BY EndWordForm
<1>3. PICK r \in LexState : /\ r = EndPiece(e) /\ SameWords(e, r) /\ Is(r, e.mode, e.prev, e.tag)
                            /\ r.pieces = e.pieces \o Cut(e.piece)
  BY EndPieceForm
<1>4. SimpleReference(text) = r
  BY <1>1, <1>2, <1>3 DEF SimpleReference
<1>5. r.mode = s.mode /\ r.pieces = s.pieces \o Cut(s.piece)
  BY <1>2, <1>3 DEF Is, SameText
<1>6. r.words = Ended(s)
  BY <1>2, <1>3 DEF SameWords, WordEnded, Ended
<1>7. QED BY <1>1, <1>4, <1>5, <1>6

-----------------------------------------------------------------------------
(* From a to k the lexer cuts nothing off: what it has of the statement    *)
(* grows by what it reads.                                                 *)
Stays(text, run, a, k) ==
  /\ run[k].pieces = run[a].pieces
  /\ \A start \in 1..(a + 1) :
       run[a].piece = SubSeq(text, start, a) => run[k].piece = SubSeq(text, start, k)
(* And no word begins. *)
Still(text, run, a, k) ==
  /\ Stays(text, run, a, k)
  /\ run[a].word = <<>> /\ run[k].word = <<>> /\ run[k].words = run[a].words

LEMMA StaysOne ==
  ASSUME NEW text \in Seq(Symbols), NEW run, LexRun(run, text), NEW k \in 1..Len(text),
         ~ (run[k - 1].mode = "code" /\ text[k] = ";")
  PROVE  Stays(text, run, k - 1, k)
<1>1. PICK s, c, r : s = run[k - 1] /\ c = text[k] /\ r = run[k]
  OBVIOUS
<1>2. Reads(s, c, r)
  BY <1>1 DEF LexRun
<1>3. ~ (s.mode = "code" /\ c = ";")
  BY <1>1
<1>4. r.pieces = s.pieces /\ r.piece = Append(s.piece, c)
  BY <1>2, <1>3, Zenon DEF Reads
<1>5. ASSUME NEW start \in 1..((k - 1) + 1), s.piece = SubSeq(text, start, k - 1)
      PROVE  r.piece = SubSeq(text, start, k)
  <2>1. start \in 1..k
    <3>0. PICK n \in Nat : n = Len(text)
      BY TextForm
    <3>1. k \in Nat
      BY ONLY <3>0, k \in 1..Len(text)
    <3>2. (k - 1) + 1 = k
      BY ONLY <3>1
    <3>3. QED BY <1>5, <3>2
  <2>2. QED BY <1>1, <1>4, <1>5, <2>1, AppendSub
<1>6. QED BY <1>1, <1>4, <1>5, Zenon DEF Stays

LEMMA StaysOn ==
  ASSUME NEW text, NEW run, NEW a \in Nat, NEW b \in Nat, NEW k \in Nat, a <= b,
         Stays(text, run, a, b), Stays(text, run, b, k)
  PROVE  Stays(text, run, a, k)
<1>1. \A start \in 1..(a + 1) : start \in 1..(b + 1)
  OBVIOUS
<1>2. QED BY <1>1, Zenon DEF Stays

LEMMA StillOn ==
  ASSUME NEW text, NEW run, NEW a \in Nat, NEW b \in Nat, NEW k \in Nat, a <= b,
         Still(text, run, a, b), Still(text, run, b, k)
  PROVE  Still(text, run, a, k)
BY StaysOn DEF Still

LEMMA StillItself ==
  ASSUME NEW text, NEW run, NEW k, run[k].word = <<>>
  PROVE  Still(text, run, k, k)
BY DEF Still, Stays

(* A symbol inside of something. *)
LEMMA StillOne ==
  ASSUME NEW text \in Seq(Symbols), NEW run, LexRun(run, text), NEW k \in 1..Len(text),
         run[k - 1].mode # "code", run[k - 1].word = <<>>
  PROVE  Still(text, run, k - 1, k) /\ Inner(run[k - 1], text[k], run[k])
<1>1. Stays(text, run, k - 1, k)
  BY StaysOne
<1>2. Reads(run[k - 1], text[k], run[k])
  BY DEF LexRun
<1>3. Inner(run[k - 1], text[k], run[k])
  BY <1>2 DEF Reads
<1>4. SameWords(run[k - 1], run[k])
  BY <1>3 DEF Inner
<1>5. QED BY <1>1, <1>3, <1>4 DEF Still, SameWords

(* A symbol outside. *)
LEMMA CodeOne ==
  ASSUME NEW text \in Seq(Symbols), NEW run, LexRun(run, text), NEW k \in 1..Len(text),
         run[k - 1].mode = "code"
  PROVE  /\ CodeMode(run[k - 1], text[k], run[k]) /\ CodeWord(run[k - 1], text[k], run[k])
         /\ text[k] # ";" => Stays(text, run, k - 1, k)
<1>1. Reads(run[k - 1], text[k], run[k])
  BY DEF LexRun
<1>2. text[k] # ";" => Stays(text, run, k - 1, k)
  BY StaysOne
<1>3. QED BY <1>1, <1>2 DEF Reads

(* The lexer is outside again behind z, or the text ends before; since the *)
(* splitter came to i nothing was cut off, and no word is left behind.     *)
Lands(text, run, i, z) ==
  LET b == IF z <= Len(text) THEN z ELSE Len(text) IN
    /\ z <= Len(text) => Is(run[z], "code", Absent, <<>>)
    /\ Stays(text, run, i - 1, b)
    /\ WordEnded(run[i - 1], run[b])

(* Entering at a, and nothing but what is inside from there on. *)
LEMMA LandsBy ==
  ASSUME NEW text \in Seq(Symbols), NEW run, NEW i \in 1..Len(text), NEW a \in i..Len(text),
         NEW z, NEW b \in a..Len(text), b = IF z <= Len(text) THEN z ELSE Len(text),
         Stays(text, run, i - 1, a), WordEnded(run[i - 1], run[a]), Still(text, run, a, b),
         z <= Len(text) => Is(run[z], "code", Absent, <<>>)
  PROVE  Lands(text, run, i, z)
<1>1. PICK n \in Nat : n = Len(text)
  BY TextForm
<1>2. i - 1 \in Nat /\ a \in Nat /\ b \in Nat /\ i - 1 <= a
  BY <1>1
<1>3. Stays(text, run, i - 1, b)
  BY <1>2, StaysOn DEF Still
<1>4. WordEnded(run[i - 1], run[b])
  BY DEF Still, WordEnded
<1>5. QED BY <1>3, <1>4, Zenon DEF Lands

(* Two that end words are as one. *)
LEMMA EndedTwice ==
  ASSUME NEW s \in LexState, NEW e, NEW r, WordEnded(s, e), WordEnded(e, r)
  PROVE  WordEnded(s, r)
<1>1. s.word \in Seq(Symbols) /\ s.words \in Seq(Seq(Symbols))
  BY LexFields
<1>2. e.words \in Seq(Seq(Symbols)) /\ e.word = <<>>
  <2>1. CASE s.word = <<>>
    BY <1>1, <2>1 DEF WordEnded
  <2>2. CASE s.word # <<>>
    <3>1. PICK w \in Seq(Symbols) : w = s.word
      BY <1>1
    <3>2. <<w>> \in Seq(Seq(Symbols))
      OBVIOUS
    <3>3. e.words = s.words \o <<w>>
      BY <2>2, <3>1 DEF WordEnded
    <3>4. QED BY <1>1, <3>2, <3>3 DEF WordEnded
  <2>3. QED BY <2>1, <2>2
<1>3. e.words \o <<>> = e.words
  BY <1>2
<1>4. r.word = <<>> /\ r.words = e.words
  BY <1>2, <1>3 DEF WordEnded
<1>5. QED BY <1>4 DEF WordEnded

(* A quote: past doubled quotes to the one that closes, or to the end.     *)
LEMMA QuoteLands ==
  ASSUME NEW text \in Seq(Symbols), NEW run, LexRun(run, text), NEW i \in 1..Len(text),
         run[i - 1].mode = "code", text[i] \in {"'", "dq"}
  PROVE  Lands(text, run, i, SkipRepeatedQuote(text, i))
<1>0. PICK n \in Nat : n = Len(text)
  BY TextForm
<1>1. PICK f : Closes(f, text, text[i]) /\ SkipRepeatedQuote(text, i) = f[i + 1]
  BY CloseForm
<1>2. PICK q \in {"'", "dq"} : q = text[i]
  OBVIOUS
<1>3. q # "code" /\ q # ";" /\ q \notin WordSymbols /\ q # "$"
  BY <1>2 DEF WordSymbols, Letters
<1>4. \A k \in 1..n : run[k - 1] \in LexState /\ run[k] \in LexState
  <2>1. \A k \in 1..n : k - 1 \in 0..Len(text) /\ k \in 0..Len(text)
    BY <1>0
  <2>2. QED BY <2>1 DEF LexRun
<1> DEFINE Out(a, z) == LET b == IF z <= n THEN z ELSE n IN
                          /\ z <= n => Is(run[z], "code", Absent, <<>>)
                          /\ Still(text, run, a, b)
                          /\ b \in a..n
           G == {j \in 1..(n + 2) : j <= n + 1 /\ run[j - 1].mode = q /\ run[j - 1].word = <<>>
                                    => Out(j - 1, f[j])}
<1>5. n + 1 \in G /\ n + 2 \in G
  <2>1. SUFFICES ASSUME run[(n + 1) - 1].word = <<>>
                 PROVE  Out((n + 1) - 1, f[n + 1])
    OBVIOUS
  <2>2. f[n + 1] = n + 1
    BY <1>0, <1>1, CloseSteps
  <2>3. (n + 1) - 1 = n /\ ~ (n + 1 <= n) /\ n \in n..n
    OBVIOUS
  <2>4. Still(text, run, n, n)
    BY <2>1, <2>3, StillItself
  <2>5. QED BY <2>2, <2>3, <2>4
<1>6. ASSUME NEW j \in 1..n, j + 1 \in G, j + 2 \in G
      PROVE  j \in G
  <2>1. SUFFICES ASSUME run[j - 1].mode = q, run[j - 1].word = <<>>
                 PROVE  Out(j - 1, f[j])
    OBVIOUS
  <2>2. Still(text, run, j - 1, j) /\ Inner(run[j - 1], text[j], run[j])
    BY <1>0, <1>3, <2>1, StillOne
  <2>3. /\ run[j].mode = IF text[j] = q THEN "code" ELSE q
        /\ run[j].mode = "code" => run[j].prev = Absent /\ run[j].tag = <<>>
    BY <1>2, <2>1, <2>2 DEF Inner, Is
  <2>4. run[j].word = <<>>
    BY <2>2 DEF Still
  <2>5. j - 1 \in Nat /\ j \in Nat /\ j - 1 <= j /\ (j + 1) - 1 = j
    OBVIOUS
  <2>6. ASSUME NEW a \in j..(n + 1), NEW z, Still(text, run, j - 1, a), Out(a, z)
        PROVE  Out(j - 1, z)
    <3>1. PICK b \in a..n : b = IF z <= n THEN z ELSE n
      BY <2>6
    <3>2. Still(text, run, a, b)
      BY <2>6, <3>1
    <3>3. a \in Nat /\ b \in Nat /\ j - 1 <= a /\ b \in (j - 1)..n
      BY <3>1
    <3>4. Still(text, run, j - 1, b)
      BY <2>5, <2>6, <3>2, <3>3, StillOn
    <3>5. QED BY <2>6, <3>1, <3>3, <3>4
  <2>7. CASE text[j] # q
    <3>1. f[j] = f[j + 1]
      BY <1>0, <1>1, <1>2, <2>7, CloseSteps
    <3>2. run[j].mode = q
      BY <2>3, <2>7
    <3>3. Out(j, f[j + 1])
      BY <1>6, <2>4, <2>5, <3>2
    <3>4. QED BY <2>2, <2>6, <3>1, <3>3
  <2>8. CASE text[j] = q /\ At(text, j + 1) = q
    <3>1. f[j] = f[j + 2]
      BY <1>0, <1>1, <1>2, <2>8, CloseSteps
    <3>2. j + 1 \in 1..n /\ text[j + 1] = q
      <4>1. q # Absent
        <5>1. q \in Symbols
          BY <1>2, TextForm
        <5>2. QED BY <5>1, TextForm
      <4>2. j + 1 \in 1..Len(text)
        BY <2>8, <4>1, TextForm
      <4>3. QED BY <1>0, <2>8, <4>2, TextForm
    <3>3. run[(j + 1) - 1].mode = "code"
      BY <2>3, <2>5, <2>8
    <3>4. /\ CodeMode(run[j], q, run[j + 1]) /\ CodeWord(run[j], q, run[j + 1])
          /\ Stays(text, run, j, j + 1)
      BY <1>0, <1>3, <2>5, <3>2, <3>3, CodeOne
    <3>5. run[j + 1].mode = q
      BY <1>2, <3>4 DEF CodeMode, Is
    <3>6. WordEnded(run[j], run[j + 1])
      BY <1>3, <3>4, Zenon DEF CodeWord
    <3>7. run[j].words \in Seq(Seq(Symbols))
      <4>1. run[j] \in LexState
        BY <1>4
      <4>2. QED BY <4>1, LexFields
    <3>8. run[j + 1].word = <<>> /\ run[j + 1].words = run[j].words
      <4>1. run[j].words \o <<>> = run[j].words
        BY <3>7
      <4>2. QED BY <2>4, <3>6, <4>1 DEF WordEnded
    <3>9. Still(text, run, j, j + 1)
      BY <2>4, <3>4, <3>8 DEF Still
    <3>10. Still(text, run, j - 1, j + 1)
      BY <2>2, <2>5, <3>9, StillOn
    <3>11. Out(j + 1, f[j + 2])
      <4>1. (j + 2) - 1 = j + 1 /\ j + 2 <= n + 1
        BY <3>2
      <4>2. QED BY <1>6, <3>5, <3>8, <4>1
    <3>12. j + 1 \in j..(n + 1)
      BY <3>2
    <3>13. QED BY <2>6, <3>1, <3>10, <3>11, <3>12
  <2>9. CASE text[j] = q /\ At(text, j + 1) # q
    <3>1. f[j] = j
      BY <1>0, <1>1, <1>2, <2>9, CloseSteps
    <3>2. Is(run[j], "code", Absent, <<>>)
      BY <2>3, <2>9 DEF Is
    <3>3. j <= n /\ j \in (j - 1)..n
      OBVIOUS
    <3>4. QED BY <2>2, <3>1, <3>2, <3>3
  <2>10. QED BY <2>7, <2>8, <2>9
<1> HIDE DEF G
<1>7. \A j \in 1..(n + 2) : j \in G
  BY <1>5, <1>6, Downwards
<1>8. /\ CodeMode(run[i - 1], q, run[i]) /\ CodeWord(run[i - 1], q, run[i])
      /\ Stays(text, run, i - 1, i)
  BY <1>2, <1>3, CodeOne
<1>9. run[i].mode = q
  BY <1>2, <1>8 DEF CodeMode, Is
<1>10. WordEnded(run[i - 1], run[i])
  BY <1>3, <1>8, Zenon DEF CodeWord
<1>11. run[i].word = <<>>
  BY <1>10 DEF WordEnded
<1>12. Out(i, f[i + 1])
  <2>1. i + 1 \in 1..(n + 2) /\ i + 1 <= n + 1 /\ (i + 1) - 1 = i
    BY <1>0
  <2>2. QED BY <1>7, <1>9, <1>11, <2>1 DEF G
<1>13. PICK b \in i..Len(text) : b = IF f[i + 1] <= Len(text) THEN f[i + 1] ELSE Len(text)
  BY <1>0, <1>12
<1>14. Still(text, run, i, b) /\ (f[i + 1] <= Len(text) => Is(run[f[i + 1]], "code", Absent, <<>>))
  BY <1>0, <1>12, <1>13
<1>15. i \in i..Len(text)
  OBVIOUS
<1>16. Lands(text, run, i, f[i + 1])
  BY <1>8, <1>10, <1>13, <1>14, <1>15, LandsBy
<1>17. QED BY <1>1, <1>16

(* A line comment: to the end of the line. *)
LEMMA LineLands ==
  ASSUME NEW text \in Seq(Symbols), NEW run, LexRun(run, text), NEW i \in 1..Len(text),
         run[i - 1].mode = "code", run[i - 1].prev # "-",
         i + 1 \in 1..Len(text), text[i] = "-", text[i + 1] = "-"
  PROVE  Lands(text, run, i, SkipLineComment(text, i))
<1>0. PICK n \in Nat : n = Len(text)
  BY TextForm
<1>1. PICK z : z = SkipLineComment(text, i)
  OBVIOUS
<1>2. /\ z \in (i + 2)..(n + 1) /\ (\A j \in (i + 2)..(z - 1) : text[j] # "nl")
      /\ z # n + 1 => text[z] = "nl"
  <2>1. PICK P : P = {j \in 1..n : text[j] = "nl"}
    OBVIOUS
  <2>2. {j \in (i + 2)..Len(text) : text[j] = "nl"} = {j \in (i + 2)..n : j \in P}
    BY <1>0, <2>1
  <2>3. IsFirst(z, {j \in (i + 2)..n : j \in P}, n)
    BY <1>0, <1>1, <2>2, LineComment
  <2>4. i + 2 \in Nat /\ i + 2 <= n + 1
    BY <1>0
  <2>5. z \in (i + 2)..(n + 1) /\ (\A j \in (i + 2)..(z - 1) : j \notin P) /\ (z # n + 1 => z \in P)
    BY <2>3, <2>4, FirstMeans
  <2>6. \A j \in (i + 2)..(z - 1) : j \in 1..n
    BY <2>5
  <2>7. QED BY <2>1, <2>5, <2>6
<1>3. /\ text[i] \notin WordSymbols \cup {"'", "dq", "$", "*", ";"}
      /\ text[i + 1] \notin WordSymbols \cup {"$", ";"}
  BY DEF WordSymbols, Letters
<1>4. /\ CodeMode(run[i - 1], text[i], run[i]) /\ CodeWord(run[i - 1], text[i], run[i])
      /\ Stays(text, run, i - 1, i)
  BY <1>3, CodeOne
<1>5. Is(run[i], "code", "-", <<>>)
  BY <1>3, <1>4, Zenon DEF CodeMode
<1>6. WordEnded(run[i - 1], run[i])
  BY <1>3, <1>4, Zenon DEF CodeWord
<1>7. (i + 1) - 1 = i /\ run[i].mode = "code" /\ run[i].prev = "-"
  BY <1>5 DEF Is
<1>8. /\ CodeMode(run[i], text[i + 1], run[i + 1]) /\ CodeWord(run[i], text[i + 1], run[i + 1])
      /\ Stays(text, run, i, i + 1)
  BY <1>3, <1>7, CodeOne
<1>9. Is(run[i + 1], "line", Absent, <<>>)
  BY <1>7, <1>8, Zenon DEF CodeMode
<1>10. WordEnded(run[i], run[i + 1])
  BY <1>3, <1>8, Zenon DEF CodeWord
<1>11. WordEnded(run[i - 1], run[i + 1]) /\ run[i + 1].word = <<>>
  <2>1. i - 1 \in 0..Len(text)
    BY <1>0
  <2>2. run[i - 1] \in LexState
    BY <2>1 DEF LexRun
  <2>3. QED BY <1>6, <1>10, <2>2, EndedTwice DEF WordEnded
<1>12. Stays(text, run, i - 1, i + 1)
  <2>1. i - 1 \in Nat /\ i \in Nat /\ i + 1 \in Nat /\ i - 1 <= i
    BY <1>0
  <2>2. QED BY <1>4, <1>8, <2>1, StaysOn
<1> DEFINE G == {k \in (i + 1)..(z - 1) : run[k].mode = "line" /\ Still(text, run, i + 1, k)}
<1>13. i + 1 \in G
  <2>1. Still(text, run, i + 1, i + 1)
    BY <1>11, StillItself
  <2>2. i + 1 \in (i + 1)..(z - 1)
    BY <1>0, <1>2
  <2>3. QED BY <1>9, <2>1, <2>2 DEF Is
<1>14. ASSUME NEW k \in (i + 1)..(z - 1), k \in G
       PROVE  /\ k + 1 <= n => Still(text, run, i + 1, k + 1)
              /\ k + 1 <= n => Inner(run[k], text[k + 1], run[k + 1])
              /\ k + 1 <= n /\ text[k + 1] # "nl" => run[k + 1].mode = "line"
              /\ k + 1 <= n /\ text[k + 1] = "nl" => Is(run[k + 1], "code", Absent, <<>>)
  <2> SUFFICES ASSUME k + 1 <= n
               PROVE  /\ Still(text, run, i + 1, k + 1)
                      /\ Inner(run[k], text[k + 1], run[k + 1])
                      /\ text[k + 1] # "nl" => run[k + 1].mode = "line"
                      /\ text[k + 1] = "nl" => Is(run[k + 1], "code", Absent, <<>>)
    OBVIOUS
  <2>1. k + 1 \in 1..Len(text) /\ (k + 1) - 1 = k /\ i + 1 \in Nat /\ k \in Nat /\ k + 1 \in Nat /\ i + 1 <= k
    BY <1>0, <1>2
  <2>2. run[k].mode = "line" /\ Still(text, run, i + 1, k) /\ run[k].word = <<>>
    BY <1>14 DEF Still
  <2>3. Still(text, run, k, k + 1) /\ Inner(run[k], text[k + 1], run[k + 1])
    <3>1. run[(k + 1) - 1].mode # "code" /\ run[(k + 1) - 1].word = <<>>
      BY <2>1, <2>2
    <3>2. Still(text, run, (k + 1) - 1, k + 1) /\ Inner(run[(k + 1) - 1], text[k + 1], run[k + 1])
      BY <2>1, <3>1, StillOne
    <3>3. QED BY <2>1, <3>2
  <2>4. Still(text, run, i + 1, k + 1)
    BY <2>1, <2>2, <2>3, StillOn
  <2>5. /\ text[k + 1] # "nl" => run[k + 1].mode = "line"
        /\ text[k + 1] = "nl" => Is(run[k + 1], "code", Absent, <<>>)
    BY <2>2, <2>3 DEF Inner, Is
  <2>6. QED BY <2>3, <2>4, <2>5
<1>15. \A k \in (i + 1)..(z - 1) : k \in G /\ k < z - 1 => k + 1 \in G
  <2> SUFFICES ASSUME NEW k \in (i + 1)..(z - 1), k \in G, k < z - 1
               PROVE  k + 1 \in G
    OBVIOUS
  <2>1. k + 1 \in (i + 2)..(z - 1) /\ k + 1 <= n /\ k + 1 \in (i + 1)..(z - 1)
    BY <1>0, <1>2
  <2>2. text[k + 1] # "nl"
    BY <1>2, <2>1
  <2>3. Still(text, run, i + 1, k + 1) /\ run[k + 1].mode = "line"
    BY <1>14, <2>1, <2>2
  <2>4. QED BY <2>1, <2>3
<1> HIDE DEF G
<1>16. \A k \in (i + 1)..(z - 1) : k \in G
  <2>1. i + 1 \in Nat /\ z - 1 \in Int
    BY <1>0, <1>2
  <2>2. QED BY <1>13, <1>15, <2>1, Climb
<1>17. z - 1 \in (i + 1)..(z - 1) /\ z - 1 \in G /\ (z - 1) + 1 = z
  <2>1. z - 1 \in (i + 1)..(z - 1) /\ (z - 1) + 1 = z
    BY <1>0, <1>2
  <2>2. QED BY <1>16, <2>1
<1>18. i + 1 \in i..Len(text)
  BY <1>0
<1>19. CASE z = n + 1
  <2>1. Still(text, run, i + 1, n)
    <3>1. z - 1 = n
      BY <1>19
    <3>2. QED BY <1>17, <3>1 DEF G
  <2>2. n \in (i + 1)..Len(text) /\ ~ (z <= Len(text))
    BY <1>0, <1>19
  <2>3. n = IF z <= Len(text) THEN z ELSE Len(text)
    BY <1>0, <2>2
  <2>4. Lands(text, run, i, z)
    BY <1>11, <1>12, <1>18, <2>1, <2>2, <2>3, LandsBy
  <2>5. QED BY <1>1, <2>4
<1>20. CASE z # n + 1
  <2>1. z <= n /\ text[z] = "nl"
    BY <1>0, <1>2, <1>20
  <2>2. Still(text, run, i + 1, z) /\ Is(run[z], "code", Absent, <<>>)
    BY <1>14, <1>17, <2>1
  <2>3. z \in (i + 1)..Len(text) /\ z = IF z <= Len(text) THEN z ELSE Len(text)
    BY <1>0, <1>2, <2>1
  <2>4. Lands(text, run, i, z)
    BY <1>11, <1>12, <1>18, <2>2, <2>3, LandsBy
  <2>5. QED BY <1>1, <2>4
<1>21. QED BY <1>19, <1>20

(* A block comment: to its end. *)
LEMMA BlockLands ==
  ASSUME NEW text \in Seq(Symbols), NEW run, LexRun(run, text), NEW i \in 1..Len(text),
         run[i - 1].mode = "code",
         i + 1 \in 1..Len(text), text[i] = "/", text[i + 1] = "*"
  PROVE  Lands(text, run, i, SkipBlockComment(text, i))
<1>0. PICK n \in Nat : n = Len(text)
  BY TextForm
<1>1. PICK f : /\ SkipBlockComment(text, i) = f + 1
               /\ IsFirst(f, {j \in (i + 2)..Len(text) : Begins(text, j, <<"*", "/">>)}, Len(text))
  BY BlockComment
<1>1a. \A j \in 1..n : Begins(text, j, <<"*", "/">>) <=> j + 1 <= n /\ text[j] = "*" /\ text[j + 1] = "/"
  <2>1. "*" \in Symbols /\ "/" \in Symbols
    BY Zenon DEF Symbols
  <2>2. \A j \in 1..n : j \in Nat /\ j > 0
    OBVIOUS
  <2>3. QED BY <1>0, <2>1, <2>2, BeginsTwo
<1>2. /\ f \in (i + 2)..(n + 1)
      /\ \A j \in (i + 2)..(f - 1) : ~ (j + 1 <= n /\ text[j] = "*" /\ text[j + 1] = "/")
      /\ f # n + 1 => f + 1 <= n /\ text[f] = "*" /\ text[f + 1] = "/"
  <2>1. PICK P : P = {j \in 1..n : Begins(text, j, <<"*", "/">>)}
    OBVIOUS
  <2>2. {j \in (i + 2)..Len(text) : Begins(text, j, <<"*", "/">>)} = {j \in (i + 2)..n : j \in P}
    BY <1>0, <2>1
  <2>3. IsFirst(f, {j \in (i + 2)..n : j \in P}, n)
    BY <1>0, <1>1, <2>2
  <2>4. i + 2 \in Nat /\ i + 2 <= n + 1
    BY <1>0
  <2>5. f \in (i + 2)..(n + 1) /\ (\A j \in (i + 2)..(f - 1) : j \notin P) /\ (f # n + 1 => f \in P)
    BY <2>3, <2>4, FirstMeans
  <2>6. \A j \in (i + 2)..(f - 1) : j \in 1..n
    BY <2>5
  <2>7. f # n + 1 => f \in 1..n
    BY <2>5
  <2>8. QED BY <1>1a, <2>1, <2>5, <2>6, <2>7
<1>3. /\ text[i] \notin WordSymbols \cup {"'", "dq", "$", "*", "-", ";"}
      /\ text[i + 1] \notin WordSymbols \cup {"$", ";"}
  BY DEF WordSymbols, Letters
<1>4. /\ CodeMode(run[i - 1], text[i], run[i]) /\ CodeWord(run[i - 1], text[i], run[i])
      /\ Stays(text, run, i - 1, i)
  BY <1>3, CodeOne
<1>5. Is(run[i], "code", "/", <<>>)
  BY <1>3, <1>4, Zenon DEF CodeMode
<1>6. WordEnded(run[i - 1], run[i])
  BY <1>3, <1>4, Zenon DEF CodeWord
<1>7. (i + 1) - 1 = i /\ run[i].mode = "code" /\ run[i].prev = "/"
  BY <1>5 DEF Is
<1>8. /\ CodeMode(run[i], text[i + 1], run[i + 1]) /\ CodeWord(run[i], text[i + 1], run[i + 1])
      /\ Stays(text, run, i, i + 1)
  BY <1>3, <1>7, CodeOne
<1>9. Is(run[i + 1], "block", Absent, <<>>)
  BY <1>7, <1>8, Zenon DEF CodeMode
<1>10. WordEnded(run[i], run[i + 1])
  BY <1>3, <1>8, Zenon DEF CodeWord
<1>11. WordEnded(run[i - 1], run[i + 1]) /\ run[i + 1].word = <<>>
  <2>1. i - 1 \in 0..Len(text)
    BY <1>0
  <2>2. run[i - 1] \in LexState
    BY <2>1 DEF LexRun
  <2>3. QED BY <1>6, <1>10, <2>2, EndedTwice DEF WordEnded
<1>12. Stays(text, run, i - 1, i + 1)
  <2>1. i - 1 \in Nat /\ i \in Nat /\ i + 1 \in Nat /\ i - 1 <= i
    BY <1>0
  <2>2. QED BY <1>4, <1>8, <2>1, StaysOn
<1>12a. PICK b \in (i + 1)..n : b = IF f = n + 1 THEN n ELSE f
  BY <1>0, <1>2
<1> DEFINE G == {k \in (i + 1)..b : /\ run[k].mode = "block" /\ Still(text, run, i + 1, k)
                                    /\ run[k].prev = IF k = i + 1 THEN Absent ELSE text[k]}
<1>13. i + 1 \in G
  <2>1. Still(text, run, i + 1, i + 1)
    BY <1>11, StillItself
  <2>2. i + 1 \in (i + 1)..b
    BY <1>0, <1>12a
  <2>3. QED BY <1>9, <2>1, <2>2 DEF Is
<1>14. ASSUME NEW k \in (i + 1)..b, k \in G, k + 1 <= n
       PROVE  /\ Still(text, run, i + 1, k + 1)
              /\ IF text[k + 1] = "/" /\ run[k].prev = "*" THEN Is(run[k + 1], "code", Absent, <<>>)
                 ELSE run[k + 1].mode = "block" /\ run[k + 1].prev = text[k + 1]
  <2>1. k + 1 \in 1..Len(text) /\ (k + 1) - 1 = k /\ i + 1 \in Nat /\ k \in Nat /\ k + 1 \in Nat /\ i + 1 <= k
    BY <1>0, <1>12a, <1>14
  <2>2. run[k].mode = "block" /\ Still(text, run, i + 1, k) /\ run[k].word = <<>>
    BY <1>14 DEF Still
  <2>3. Still(text, run, k, k + 1) /\ Inner(run[k], text[k + 1], run[k + 1])
    <3>1. run[(k + 1) - 1].mode # "code" /\ run[(k + 1) - 1].word = <<>>
      BY <2>1, <2>2
    <3>2. Still(text, run, (k + 1) - 1, k + 1) /\ Inner(run[(k + 1) - 1], text[k + 1], run[k + 1])
      BY <2>1, <3>1, StillOne
    <3>3. QED BY <2>1, <3>2
  <2>4. Still(text, run, i + 1, k + 1)
    BY <2>1, <2>2, <2>3, StillOn
  <2>5. IF text[k + 1] = "/" /\ run[k].prev = "*" THEN Is(run[k + 1], "code", Absent, <<>>)
        ELSE run[k + 1].mode = "block" /\ run[k + 1].prev = text[k + 1]
    BY <2>2, <2>3 DEF Inner, Is
  <2>6. QED BY <2>4, <2>5
<1>15. \A k \in (i + 1)..b : k \in G /\ k < b => k + 1 \in G
  <2> SUFFICES ASSUME NEW k \in (i + 1)..b, k \in G, k < b
               PROVE  k + 1 \in G
    OBVIOUS
  <2>1. k + 1 <= n /\ k + 1 \in (i + 1)..b /\ k + 1 # i + 1 /\ k \in (i + 1)..(f - 1)
    BY <1>0, <1>2, <1>12a
  <2>2. ~ (text[k + 1] = "/" /\ run[k].prev = "*")
    <3>1. CASE k = i + 1
      <4>1. run[k].prev = Absent
        BY <3>1
      <4>2. Absent # "*"
        <5>1. "*" \in Symbols
          BY Zenon DEF Symbols
        <5>2. QED BY <5>1, TextForm
      <4>3. QED BY <4>1, <4>2
    <3>2. CASE k # i + 1
      <4>1. run[k].prev = text[k] /\ k \in (i + 2)..(f - 1)
        BY <1>0, <1>2, <2>1, <3>2
      <4>2. QED BY <1>2, <2>1, <4>1
    <3>3. QED BY <3>1, <3>2
  <2>3. Still(text, run, i + 1, k + 1) /\ run[k + 1].mode = "block" /\ run[k + 1].prev = text[k + 1]
    BY <1>14, <2>1, <2>2
  <2>4. QED BY <2>1, <2>3
<1> HIDE DEF G
<1>16. b \in G
  <2>1. i + 1 \in Nat /\ b \in Int /\ b \in (i + 1)..b
    BY <1>0, <1>12a
  <2>2. \A k \in (i + 1)..b : k \in G
    BY <1>13, <1>15, <2>1, Climb
  <2>3. QED BY <2>1, <2>2
<1>17. i + 1 \in i..Len(text)
  BY <1>0
<1>18. CASE f = n + 1
  <2>1. b = n
    BY <1>12a, <1>18
  <2>2. Still(text, run, i + 1, n)
    BY <1>16, <2>1 DEF G
  <2>3. n \in (i + 1)..Len(text) /\ ~ (f + 1 <= Len(text))
    BY <1>0, <1>18
  <2>4. n = IF f + 1 <= Len(text) THEN f + 1 ELSE Len(text)
    BY <1>0, <2>3
  <2>5. Lands(text, run, i, f + 1)
    BY <1>11, <1>12, <1>17, <2>2, <2>3, <2>4, LandsBy
  <2>6. QED BY <1>1, <2>5
<1>19. CASE f # n + 1
  <2>1. b = f /\ f + 1 <= n /\ text[f] = "*" /\ text[f + 1] = "/" /\ f # i + 1 /\ f \in (i + 1)..b
    BY <1>0, <1>2, <1>12a, <1>19
  <2>2. f \in G
    BY <1>16, <2>1
  <2>3. run[f].prev = "*"
    BY <2>1, <2>2 DEF G
  <2>4. Still(text, run, i + 1, f + 1) /\ Is(run[f + 1], "code", Absent, <<>>)
    BY <1>14, <2>1, <2>2, <2>3
  <2>5. f + 1 \in (i + 1)..Len(text) /\ f + 1 = IF f + 1 <= Len(text) THEN f + 1 ELSE Len(text)
    BY <1>0, <1>2, <2>1
  <2>6. Lands(text, run, i, f + 1)
    BY <1>11, <1>12, <1>17, <2>4, <2>5, LandsBy
  <2>7. QED BY <1>1, <2>6
<1>20. QED BY <1>18, <1>19

(* The end of a word. *)
LEMMA WordEndMeans ==
  ASSUME NEW text \in Seq(Symbols), NEW i \in 1..(Len(text) + 1)
  PROVE  /\ WordEnd(text, i) \in i..(Len(text) + 1)
         /\ \A j \in i..(WordEnd(text, i) - 1) : text[j] \in WordSymbols
         /\ WordEnd(text, i) # Len(text) + 1 => text[WordEnd(text, i)] \notin WordSymbols
<1>0. PICK n \in Nat : n = Len(text)
  BY TextForm
<1>1. PICK z : z = WordEnd(text, i)
  OBVIOUS
<1>2. PICK P : P = {j \in 1..n : text[j] \notin WordSymbols}
  OBVIOUS
<1>3. {j \in i..Len(text) : text[j] \notin WordSymbols} = {j \in i..n : j \in P}
  BY <1>0, <1>2
<1>4. IsFirst(z, {j \in i..n : j \in P}, n)
  BY <1>0, <1>1, <1>3, WordEndIs
<1>5. i \in Nat /\ i <= n + 1
  BY <1>0
<1>6. z \in i..(n + 1) /\ (\A j \in i..(z - 1) : j \notin P) /\ (z # n + 1 => z \in P)
  BY <1>4, <1>5, FirstMeans
<1>7. \A j \in i..(z - 1) : j \in 1..n
  BY <1>6
<1>8. QED BY <1>0, <1>1, <1>2, <1>6, <1>7

LEMMA WordEndOn ==
  ASSUME NEW text \in Seq(Symbols), NEW i \in 1..Len(text)
  PROVE  /\ text[i] \in WordSymbols => WordEnd(text, i) = WordEnd(text, i + 1)
         /\ text[i] \notin WordSymbols => WordEnd(text, i) = i
<1>0. PICK n \in Nat : n = Len(text)
  BY TextForm
<1>1. PICK z, y : z = WordEnd(text, i) /\ y = WordEnd(text, i + 1)
  OBVIOUS
<1>2. i \in 1..(Len(text) + 1) /\ i + 1 \in 1..(Len(text) + 1)
  BY <1>0
<1>3. /\ z \in i..(n + 1) /\ \A j \in i..(z - 1) : text[j] \in WordSymbols
      /\ z # n + 1 => text[z] \notin WordSymbols
  BY <1>0, <1>1, <1>2, WordEndMeans
<1>4. /\ y \in (i + 1)..(n + 1) /\ \A j \in (i + 1)..(y - 1) : text[j] \in WordSymbols
      /\ y # n + 1 => text[y] \notin WordSymbols
  BY <1>0, <1>1, <1>2, WordEndMeans
<1>5. ASSUME text[i] \in WordSymbols
      PROVE  z = y
  <2>1. z # i
    BY <1>0, <1>3, <1>5
  <2>2. CASE z < y
    <3>1. z \in (i + 1)..(y - 1) /\ z # n + 1
      BY <1>3, <1>4, <2>1, <2>2
    <3>2. QED BY <1>3, <1>4, <3>1
  <2>3. CASE y < z
    <3>1. y \in i..(z - 1) /\ y # n + 1
      BY <1>3, <1>4, <2>3
    <3>2. QED BY <1>3, <1>4, <3>1
  <2>4. z \in Int /\ y \in Int
    BY <1>3, <1>4
  <2>5. QED BY <2>2, <2>3, <2>4
<1>6. ASSUME text[i] \notin WordSymbols
      PROVE  z = i
  <2>1. CASE i < z
    <3>1. i \in i..(z - 1)
      BY <1>3, <2>1
    <3>2. QED BY <1>3, <1>6, <3>1
  <2>2. QED BY <1>3, <2>1
<1>7. QED BY <1>1, <1>5, <1>6

(* A dollar tag that occurs again: to the end of that.  If it does not     *)
(* occur again, the lexer is still looking for it at the end.              *)
LEMMA DollarLands ==
  ASSUME NEW text \in Seq(Symbols), NEW run, LexRun(run, text), NEW i \in 1..Len(text),
         run[i - 1].mode = "code", run[i - 1].tag = <<>>, text[i] = "$",
         NEW e, e = WordEnd(text, i + 1), NEW tag, tag = Tagged(text, i, e),
         NEW g, g = TagAfter(text, i, tag),
         At(text, e) = "$", run[Len(text)].mode # "dollar"
  PROVE  g # Len(text) + 1 /\ Lands(text, run, i, SkipDollarQuoted(text, i))
<1>0. PICK n \in Nat : n = Len(text)
  BY TextForm
<1>1. /\ e \in (i + 1)..n /\ tag \in Seq(Symbols) /\ Len(tag) = e - i + 1
      /\ g \in (e + 1)..(n + 1)
      /\ IsFirst(g, {j \in (e + 1)..n : Begins(text, j, tag)}, n)
      /\ g # n + 1 => /\ SkipDollarQuoted(text, i) = g + (e - i)
                      /\ g + (e - i) <= n /\ Begins(text, g, tag)
  <2>1. OnDollar(text, i, e, tag, g)
    BY DollarSkips
  <2>2. /\ e \in (i + 1)..(Len(text) + 1) /\ e <= Len(text) /\ tag \in Seq(Symbols)
        /\ Len(tag) = e - i + 1 /\ g \in (e + 1)..(Len(text) + 1)
        /\ IsFirst(g, {j \in (e + 1)..Len(text) : Begins(text, j, tag)}, Len(text))
        /\ g # Len(text) + 1 => /\ SkipDollarQuoted(text, i) = g + (e - i)
                                /\ g + (e - i) <= Len(text) /\ Begins(text, g, tag)
    BY <2>1, Zenon DEF OnDollar
  <2>3. e \in (i + 1)..n
    BY <1>0, <2>2
  <2>4. QED BY <1>0, <2>2, <2>3
<1>1a. /\ i \in Nat /\ e \in Nat /\ g \in Nat /\ i > 0 /\ i < e /\ e < g /\ e <= n /\ g <= n + 1
       /\ g # n + 1 => g + (e - i) <= n
  BY <1>0, <1>1
<1>2. /\ \A j \in (i + 1)..(e - 1) : text[j] \in WordSymbols
      /\ text[e] = "$"
  <2>1. i + 1 \in 1..(Len(text) + 1)
    BY <1>0
  <2>2. e \in 1..Len(text)
    BY <1>0, <1>1
  <2>3. QED BY <2>1, <2>2, WordEndMeans, TextForm
<1> DEFINE Ends(m) == IsSuffix(tag, SubSeq(text, e + 1, m)) <=>
                         m - (e - i) >= e + 1 /\ Begins(text, m - (e - i), tag)
<1>3. ASSUME NEW k \in (e + 1)..n
      PROVE  Ends(k)
  <2>1. PICK u : u = SubSeq(text, e + 1, k)
    OBVIOUS
  <2>1a. k \in Nat /\ e < k /\ k <= n
    BY ONLY <1>0, <1>1a, k \in (e + 1)..n
  <2>2. u \in Seq(Symbols) /\ Len(u) = k - e /\ \A m \in 1..(k - e) : u[m] = text[e + m]
    <3>0. e + 1 \in Nat /\ e + 1 > 0 /\ e + 1 <= k /\ k <= Len(text)
      BY <1>0, <1>1a, <2>1a
    <3>1. /\ u \in Seq(Symbols) /\ Len(u) = k - (e + 1) + 1
          /\ \A m \in 1..(k - (e + 1) + 1) : u[m] = text[(e + 1) + m - 1]
      BY <2>1, <2>1a, <3>0, SubForm
    <3>2. k - (e + 1) + 1 = k - e /\ \A m \in 1..(k - e) : (e + 1) + m - 1 = e + m
      BY ONLY <1>1a, <2>1a
    <3>3. QED BY ONLY <3>1, <3>2, Zenon
  <2>3. IsSuffix(tag, u) <=> /\ Len(tag) <= Len(u)
                             /\ \A m \in 1..Len(tag) : tag[m] = u[Len(u) - Len(tag) + m]
    <3>1. tag \in Seq(Symbols)
      BY <1>1
    <3>2. QED BY ONLY <2>2, <3>1, SuffixIs, Zenon
  <2>4. PICK l \in Nat : l = e - i + 1
    BY ONLY <1>1a
  <2>5. PICK p \in Int : p = k - (e - i) /\ p = k - l + 1
    BY ONLY <1>1a, <2>1a, <2>4
  <2>6. l <= k - e <=> p >= e + 1
    BY ONLY <1>1a, <2>1a, <2>4, <2>5
  <2>6a. IsSuffix(tag, u) <=> p >= e + 1 /\ \A m \in 1..l : tag[m] = u[(k - e) - l + m]
    <3>1. Len(tag) = l /\ Len(u) = k - e
      BY <1>1, <2>2, <2>4
    <3>2. QED BY ONLY <2>3, <2>6, <3>1
  <2>7. SUFFICES ASSUME p >= e + 1
                 PROVE  Begins(text, p, tag) <=>
                          \A m \in 1..l : tag[m] = u[(k - e) - l + m]
    BY <2>1, <2>5, <2>6a, Zenon
  <2>8. p \in Nat /\ p > 0 /\ p + l - 1 <= n
    BY ONLY <1>0, <1>1a, <2>1a, <2>4, <2>5, <2>7
  <2>9. Begins(text, p, tag) <=> \A m \in 1..l : text[p + m - 1] = tag[m]
    <3>1. Begins(text, p, tag) <=> /\ p + Len(tag) - 1 <= Len(text)
                                   /\ \A m \in 1..Len(tag) : text[p + m - 1] = tag[m]
      BY <1>1, <2>8, BeginsIs
    <3>2. Len(tag) = l
      BY <1>1, <2>4
    <3>3. QED BY ONLY <1>0, <2>8, <3>1, <3>2
  <2>10. ASSUME NEW m \in 1..l
         PROVE  u[(k - e) - l + m] = text[p + m - 1]
    <3>1. (k - e) - l + m \in 1..(k - e) /\ e + ((k - e) - l + m) = p + m - 1
      BY ONLY <1>1a, <2>1a, <2>4, <2>5, <2>7, m \in 1..l
    <3>2. QED BY <2>2, <3>1
  <2>11. QED BY <2>9, <2>10
<1> HIDE DEF Ends
<1>4. /\ text[i] \notin WordSymbols \cup {"'", "dq", "-", "*", ";"}
      /\ \A c \in WordSymbols : c \notin {"'", "dq", "-", "*", "$", ";"}
  BY DEF WordSymbols, Letters
<1>5. /\ CodeMode(run[i - 1], text[i], run[i]) /\ CodeWord(run[i - 1], text[i], run[i])
      /\ Stays(text, run, i - 1, i)
  BY <1>4, CodeOne
<1>6. Is(run[i], "code", "$", <<"$">>)
  BY <1>4, <1>5, Zenon DEF CodeMode
<1>7. WordEnded(run[i - 1], run[i])
  BY <1>4, <1>5, Zenon DEF CodeWord
(* The tag's letters. *)
<1> DEFINE G == {k \in i..(e - 1) : /\ run[k].mode = "code" /\ run[k].tag = SubSeq(text, i, k)
                                    /\ run[k].words = run[i].words
                                    /\ Stays(text, run, i - 1, k)}
<1>8. i \in G
  <2>1. SubSeq(text, i, i) = <<"$">>
    <3>1. Append(SubSeq(text, i, i - 1), text[i]) = SubSeq(text, i, i)
      BY AppendSub
    <3>2. SubSeq(text, i, i - 1) = <<>>
      BY <1>0
    <3>3. Append(<<>>, "$") = <<"$">>
      OBVIOUS
    <3>4. QED BY <3>1, <3>2, <3>3
  <2>2. i \in i..(e - 1)
    BY <1>0, <1>1
  <2>3. QED BY <1>5, <1>6, <2>1, <2>2 DEF Is
<1>9. ASSUME NEW k \in i..(e - 1), k \in G
      PROVE  /\ run[k].tag # <<>> /\ run[k].tag \in Seq(Symbols)
             /\ Append(run[k].tag, text[k + 1]) = SubSeq(text, i, k + 1)
             /\ k + 1 \in 1..Len(text) /\ (k + 1) - 1 = k
  <2>1. k + 1 \in 1..Len(text) /\ i \in 1..(k + 1) /\ (k + 1) - 1 = k
    BY <1>0, <1>1
  <2>2. Append(SubSeq(text, i, k), text[k + 1]) = SubSeq(text, i, k + 1)
    BY <2>1, AppendSub
  <2>3. SubSeq(text, i, k) \in Seq(Symbols) /\ Len(SubSeq(text, i, k)) = k - i + 1
    BY <1>0, <1>1
  <2>4. k - i + 1 # 0
    BY <1>0
  <2>5. SubSeq(text, i, k) # <<>>
    BY <2>3, <2>4
  <2>6. QED BY <1>9, <2>1, <2>2, <2>3, <2>5
<1>10. \A k \in i..(e - 1) : k \in G /\ k < e - 1 => k + 1 \in G
  <2> SUFFICES ASSUME NEW k \in i..(e - 1), k \in G, k < e - 1
               PROVE  k + 1 \in G
    OBVIOUS
  <2>1. /\ run[k].tag # <<>> /\ Append(run[k].tag, text[k + 1]) = SubSeq(text, i, k + 1)
        /\ k + 1 \in 1..Len(text) /\ (k + 1) - 1 = k
    BY <1>9
  <2>2. k + 1 \in (i + 1)..(e - 1) /\ k + 1 \in i..(e - 1)
    BY <1>0, <1>1
  <2>3. text[k + 1] \in WordSymbols
    BY <1>2, <2>2
  <2>4. text[k + 1] # ";"
    BY <1>4, <2>3
  <2>5. run[(k + 1) - 1].mode = "code"
    BY <2>1
  <2>6. /\ CodeMode(run[k], text[k + 1], run[k + 1]) /\ CodeWord(run[k], text[k + 1], run[k + 1])
        /\ Stays(text, run, k, k + 1)
    BY <2>1, <2>4, <2>5, CodeOne
  <2>7. Is(run[k + 1], "code", text[k + 1], Append(run[k].tag, text[k + 1]))
    <3>1. Is(run[k + 1], "code", text[k + 1],
             IF run[k].tag = <<>> THEN <<>> ELSE Append(run[k].tag, text[k + 1]))
      BY <2>3, <2>6, Zenon DEF CodeMode
    <3>2. QED BY <2>1, <3>1
  <2>8. run[k + 1].words = run[k].words
    BY <2>3, <2>6, Zenon DEF CodeWord
  <2>9. Stays(text, run, i - 1, k + 1)
    <3>1. i - 1 \in Nat /\ k \in Nat /\ k + 1 \in Nat /\ i - 1 <= k
      BY <1>0
    <3>2. QED BY <2>6, <3>1, StaysOn
  <2>10. QED BY <2>1, <2>2, <2>7, <2>8, <2>9 DEF Is
<1> HIDE DEF G
<1>11. PICK k \in i..(e - 1) : k \in G /\ k + 1 = e
  <2>1. i \in Nat /\ e - 1 \in Int /\ e - 1 \in i..(e - 1) /\ (e - 1) + 1 = e
    BY <1>0, <1>1
  <2>2. \A k \in i..(e - 1) : k \in G
    BY <1>8, <1>10, <2>1, Climb
  <2>3. QED BY <2>1, <2>2
(* The tag is complete. *)
<1>12. /\ run[e].mode = "dollar" /\ run[e].tag = tag /\ run[e].tail = <<>>
       /\ run[e].word = <<>> /\ run[e].words = run[i].words /\ Stays(text, run, i - 1, e)
  <2>1. /\ run[k].tag # <<>> /\ Append(run[k].tag, text[e]) = SubSeq(text, i, e)
        /\ e \in 1..Len(text) /\ e - 1 = k
    BY <1>9, <1>11
  <2>2. /\ run[k].mode = "code" /\ run[k].words = run[i].words /\ Stays(text, run, i - 1, k)
    BY <1>11 DEF G
  <2>3. text[e] # ";" /\ text[e] \notin WordSymbols
    BY <1>2 DEF WordSymbols, Letters
  <2>4. run[e - 1].mode = "code"
    BY <2>1, <2>2
  <2>5. /\ CodeMode(run[k], text[e], run[e]) /\ CodeWord(run[k], text[e], run[e])
        /\ Stays(text, run, k, e)
    BY <2>1, <2>3, <2>4, CodeOne
  <2>6. Is(run[e], "dollar", Absent, Append(run[k].tag, text[e])) /\ run[e].tail = <<>>
    BY <1>2, <2>1, <2>5, Zenon DEF CodeMode
  <2>7. run[e].words = run[k].words /\ run[e].word = <<>>
    BY <1>2, <2>1, <2>5, Zenon DEF CodeWord
  <2>8. Stays(text, run, i - 1, e)
    <3>1. i - 1 \in Nat /\ k \in Nat /\ e \in Nat /\ i - 1 <= k
      BY <1>0, <1>1
    <3>2. QED BY <2>2, <2>5, <3>1, StaysOn
  <2>9. QED BY <2>1, <2>2, <2>6, <2>7, <2>8 DEF Is, Tagged
<1>13. WordEnded(run[i - 1], run[e])
  BY <1>7, <1>12 DEF WordEnded
(* Until the tag occurs again. *)
<1>14. PICK b : b = IF g = n + 1 THEN n ELSE g + (e - i) - 1
  OBVIOUS
<1>14a. b \in Nat /\ e <= b /\ b <= n /\ b \in e..n
  <2>1. CASE g = n + 1
    BY ONLY <1>0, <1>1a, <1>14, <2>1
  <2>2. CASE g # n + 1
    BY ONLY <1>0, <1>1a, <1>14, <2>2
  <2>3. QED BY <2>1, <2>2
<1>15. \A j \in (e + 1)..(g - 1) : ~ Begins(text, j, tag)
  <2>1. PICK P : P = {j \in 1..n : Begins(text, j, tag)}
    OBVIOUS
  <2>2. {j \in (e + 1)..n : Begins(text, j, tag)} = {j \in (e + 1)..n : j \in P}
    BY <1>0, <1>1, <2>1
  <2>3. IsFirst(g, {j \in (e + 1)..n : j \in P}, n)
    BY <1>1, <2>2
  <2>4. e + 1 \in Nat /\ e + 1 <= n + 1
    BY <1>0, <1>1
  <2>5. \A j \in (e + 1)..(g - 1) : j \notin P
    BY <2>3, <2>4, FirstMeans
  <2>6. \A j \in (e + 1)..(g - 1) : j \in 1..n
    BY ONLY <1>0, <1>1a
  <2>7. QED BY <2>1, <2>5, <2>6
<1> DEFINE H == {j \in e..b : /\ run[j].mode = "dollar" /\ run[j].tag = tag
                              /\ run[j].tail = SubSeq(text, e + 1, j) /\ Still(text, run, e, j)}
<1>16. e \in H
  <2>1. Still(text, run, e, e)
    BY <1>12, StillItself
  <2>2. SubSeq(text, e + 1, e) = <<>>
    BY <1>0, <1>1
  <2>3. e \in e..b
    BY <1>0, <1>1a, <1>14, <1>14a
  <2>4. QED BY <1>12, <2>1, <2>2, <2>3
<1>17. ASSUME NEW j \in e..b, j \in H, j + 1 <= n
       PROVE  /\ Still(text, run, e, j + 1)
              /\ IF (j + 1) - (e - i) >= e + 1 /\ Begins(text, (j + 1) - (e - i), tag)
                 THEN Is(run[j + 1], "code", Absent, <<>>)
                 ELSE /\ run[j + 1].mode = "dollar" /\ run[j + 1].tag = tag
                      /\ run[j + 1].tail = SubSeq(text, e + 1, j + 1)
  <2>1. /\ j + 1 \in 1..Len(text) /\ (j + 1) - 1 = j /\ e \in Nat /\ j \in Nat /\ j + 1 \in Nat
        /\ e <= j /\ j + 1 \in (e + 1)..n /\ e + 1 \in 1..(j + 1)
    BY ONLY <1>0, <1>1a, <1>14a, <1>17
  <2>2. /\ run[j].mode = "dollar" /\ run[j].tag = tag /\ run[j].tail = SubSeq(text, e + 1, j)
        /\ Still(text, run, e, j) /\ run[j].word = <<>>
    BY <1>17 DEF Still
  <2>3. Still(text, run, j, j + 1) /\ Inner(run[j], text[j + 1], run[j + 1])
    <3>1. run[(j + 1) - 1].mode # "code" /\ run[(j + 1) - 1].word = <<>>
      BY <2>1, <2>2
    <3>2. Still(text, run, (j + 1) - 1, j + 1) /\ Inner(run[(j + 1) - 1], text[j + 1], run[j + 1])
      BY <2>1, <3>1, StillOne
    <3>3. QED BY <2>1, <3>2
  <2>4. Still(text, run, e, j + 1)
    BY <2>1, <2>2, <2>3, StillOn
  <2>5. Append(run[j].tail, text[j + 1]) = SubSeq(text, e + 1, j + 1)
    BY <2>1, <2>2, AppendSub
  <2>6. IsSuffix(tag, SubSeq(text, e + 1, j + 1)) <=>
          (j + 1) - (e - i) >= e + 1 /\ Begins(text, (j + 1) - (e - i), tag)
    <3>1. Ends(j + 1)
      BY <1>3, <2>1
    <3>2. QED BY <3>1, Zenon DEF Ends
  <2>7. IsSuffix(tag, SubSeq(text, e + 1, j + 1)) <=>
          IsSuffix(run[j].tag, Append(run[j].tail, text[j + 1]))
    BY <2>2, <2>5, Zenon
  <2>8. CASE IsSuffix(tag, SubSeq(text, e + 1, j + 1))
    <3>1. run[j + 1].mode = "code" /\ run[j + 1].prev = Absent /\ run[j + 1].tag = <<>>
      BY <2>2, <2>3, <2>7, <2>8 DEF Inner
    <3>2. QED BY <2>4, <2>6, <2>8, <3>1 DEF Is
  <2>9. CASE ~ IsSuffix(tag, SubSeq(text, e + 1, j + 1))
    <3>1. /\ run[j + 1].mode = "dollar" /\ run[j + 1].tag = run[j].tag
          /\ run[j + 1].tail = Append(run[j].tail, text[j + 1])
      BY <2>2, <2>3, <2>7, <2>9 DEF Inner
    <3>2. QED BY <2>2, <2>4, <2>5, <2>6, <2>9, <3>1
  <2>10. QED BY <2>8, <2>9
<1>18. \A j \in e..b : j \in H /\ j < b => j + 1 \in H
  <2> SUFFICES ASSUME NEW j \in e..b, j \in H, j < b
               PROVE  j + 1 \in H
    OBVIOUS
  <2>1. j + 1 <= n /\ j + 1 \in e..b
    BY ONLY <1>0, <1>1a, <1>14a, j \in e..b, j < b
  <2>2. ~ ((j + 1) - (e - i) >= e + 1 /\ Begins(text, (j + 1) - (e - i), tag))
    <3>1. SUFFICES ASSUME (j + 1) - (e - i) >= e + 1
                   PROVE  ~ Begins(text, (j + 1) - (e - i), tag)
      OBVIOUS
    <3>2. (j + 1) - (e - i) \in (e + 1)..(g - 1)
      BY ONLY <1>0, <1>1a, <1>14, <1>14a, <3>1, j \in e..b, j < b
    <3>3. QED BY <1>15, <3>2
  <2>3. /\ Still(text, run, e, j + 1) /\ run[j + 1].mode = "dollar" /\ run[j + 1].tag = tag
        /\ run[j + 1].tail = SubSeq(text, e + 1, j + 1)
    BY <1>17, <2>1, <2>2
  <2>4. QED BY <2>1, <2>3
<1> HIDE DEF H
<1>19. b \in H /\ b \in e..b
  <2>1. e \in Nat /\ b \in Int /\ b \in e..b
    BY <1>0, <1>1a, <1>14, <1>14a
  <2>2. \A j \in e..b : j \in H
    BY <1>16, <1>18, <2>1, Climb
  <2>3. QED BY <2>1, <2>2
<1>20. g # n + 1
  <2>1. SUFFICES ASSUME g = n + 1
                 PROVE  FALSE
    OBVIOUS
  <2>2. b = n
    BY <1>14, <2>1
  <2>3. run[n].mode = "dollar"
    BY <1>19, <2>2 DEF H
  <2>4. QED BY <1>0, <2>3
<1>21. PICK z : z = SkipDollarQuoted(text, i)
  OBVIOUS
<1>22. z = g + (e - i) /\ z <= n /\ Begins(text, g, tag) /\ b + 1 = z /\ z - (e - i) = g /\ z \in e..n
  <2>1. z = g + (e - i) /\ z <= n /\ Begins(text, g, tag)
    BY <1>1, <1>20, <1>21
  <2>2. QED BY ONLY <1>0, <1>1a, <1>14, <1>14a, <1>20, <2>1
<1>23. Still(text, run, e, z) /\ Is(run[z], "code", Absent, <<>>)
  <2>1. b + 1 <= n /\ (b + 1) - (e - i) >= e + 1 /\ (b + 1) - (e - i) = g
    BY ONLY <1>0, <1>1a, <1>14a, <1>22
  <2>2. Begins(text, (b + 1) - (e - i), tag)
    BY <1>22, <2>1
  <2>3. Still(text, run, e, b + 1) /\ Is(run[b + 1], "code", Absent, <<>>)
    BY <1>17, <1>19, <2>1, <2>2
  <2>4. QED BY <1>22, <2>3
<1>24. z \in e..Len(text) /\ z = (IF z <= Len(text) THEN z ELSE Len(text)) /\ e \in i..Len(text)
  BY <1>0, <1>1, <1>22
<1>25. Lands(text, run, i, z)
  BY <1>12, <1>13, <1>23, <1>24, LandsBy
<1>26. QED BY <1>0, <1>20, <1>21, <1>25

-----------------------------------------------------------------------------
(* The splitter and the lexer, side by side. *)

(* Where the splitter looks, the lexer is not in the middle of an opening. *)
Boundary(text, i, s) ==
  /\ s.mode = "code"
  /\ s.prev = "-" => At(text, i) # "-"
  /\ s.prev = "/" => At(text, i) # "*"
  /\ s.tag # <<>> => At(text, WordEnd(text, i)) # "$"

LEMMA BoundaryFresh ==
  ASSUME NEW text \in Seq(Symbols), NEW i, NEW s, Is(s, "code", Absent, <<>>)
  PROVE  Boundary(text, i, s)
<1>1. s.mode = "code" /\ s.prev = Absent /\ s.tag = <<>>
  BY DEF Is
<1>2. Absent # "-" /\ Absent # "/"
  BY TextForm DEF Symbols
<1>3. QED BY <1>1, <1>2 DEF Boundary

(* A symbol that opens nothing. *)
OpensNothing(text, i) ==
  \/ text[i] = "$" /\ At(text, WordEnd(text, i + 1)) # "$"
  \/ /\ text[i] \notin {"'", "dq", "$"}
     /\ text[i] = "-" => At(text, i + 1) # "-"
     /\ text[i] = "/" => At(text, i + 1) # "*"

LEMMA NothingOpens ==
  ASSUME NEW text \in Seq(Symbols), NEW run, LexRun(run, text), NEW i \in 1..Len(text),
         Boundary(text, i, run[i - 1]), OpensNothing(text, i)
  PROVE  Boundary(text, i + 1, run[i])
<1>1. At(text, i) = text[i]
  BY TextForm, Zenon
<1>2. PICK s, c, r : s = run[i - 1] /\ c = text[i] /\ r = run[i]
  OBVIOUS
<1>2a. \/ c = "$" /\ At(text, WordEnd(text, i + 1)) # "$"
       \/ /\ c \notin {"'", "dq", "$"}
          /\ c = "-" => At(text, i + 1) # "-"
          /\ c = "/" => At(text, i + 1) # "*"
  BY <1>2, Zenon DEF OpensNothing
<1>3. /\ s.mode = "code" /\ (s.prev = "-" => c # "-") /\ (s.prev = "/" => c # "*")
      /\ s.tag # <<>> => At(text, WordEnd(text, i)) # "$"
  BY <1>1, <1>2 DEF Boundary
<1>4. CodeMode(s, c, r)
  <2>1. run[i - 1].mode = "code"
    BY <1>2, <1>3
  <2>2. QED BY <1>2, <2>1, CodeOne
<1>5. CASE c \in WordSymbols
  <2>1. Is(r, "code", c, IF s.tag = <<>> THEN <<>> ELSE Append(s.tag, c))
    BY <1>4, <1>5, Zenon DEF CodeMode
  <2>2. c # "-" /\ c # "/"
    BY <1>5 DEF WordSymbols, Letters
  <2>3. r.mode = "code" /\ r.prev = c /\ (r.tag # <<>> => s.tag # <<>>)
    BY <2>1 DEF Is
  <2>4. WordEnd(text, i) = WordEnd(text, i + 1)
    BY <1>2, <1>5, WordEndOn
  <2>5. QED BY <1>2, <1>3, <2>2, <2>3, <2>4 DEF Boundary
<1>6. CASE c = "$"
  <2>1. c \notin WordSymbols
    BY <1>6 DEF WordSymbols, Letters
  <2>2. WordEnd(text, i) = i
    BY <1>2, <2>1, WordEndOn
  <2>3. s.tag = <<>>
    BY <1>1, <1>2, <1>3, <1>6, <2>2
  <2>4. Is(r, "code", c, <<c>>)
    BY <1>4, <1>6, <2>3, Zenon DEF CodeMode
  <2>5. r.mode = "code" /\ r.prev = "$"
    BY <1>6, <2>4 DEF Is
  <2>6. At(text, WordEnd(text, i + 1)) # "$"
    BY <1>2a, <1>6
  <2>7. QED BY <1>2, <2>5, <2>6 DEF Boundary
<1>7. CASE c \notin WordSymbols /\ c # "$"
  <2>1. /\ c \notin WordSymbols \cup {"'", "dq", "$"}
        /\ c = "-" => At(text, i + 1) # "-"
        /\ c = "/" => At(text, i + 1) # "*"
    BY <1>2a, <1>7
  <2>2. ~ (c = "-" /\ s.prev = "-") /\ ~ (c = "*" /\ s.prev = "/")
    BY <1>3
  <2>3. Is(r, "code", c, <<>>)
    BY <1>4, <2>1, <2>2, Zenon DEF CodeMode
  <2>4. r.mode = "code" /\ r.prev = c /\ r.tag = <<>>
    BY <2>3 DEF Is
  <2>5. QED BY <1>2, <2>1, <2>4 DEF Boundary
<1>8. QED BY <1>5, <1>6, <1>7

(* The last of z and the text's end. *)
UpTo(text, z) == IF z <= Len(text) THEN z ELSE Len(text)

(* Behind what the splitter skips, the two are together again.             *)
Aligned(text, run, i, z) ==
  /\ z <= Len(text) => Boundary(text, z + 1, run[z])
  /\ text[i] # ";" => Stays(text, run, i - 1, UpTo(text, z))

LEMMA LandsAligned ==
  ASSUME NEW text \in Seq(Symbols), NEW run, NEW i, NEW z, Lands(text, run, i, z)
  PROVE  Aligned(text, run, i, z)
<1>1. z <= Len(text) => Is(run[z], "code", Absent, <<>>)
  BY Zenon DEF Lands
<1>2. z <= Len(text) => Boundary(text, z + 1, run[z])
  BY <1>1, BoundaryFresh
<1>3. Stays(text, run, i - 1, UpTo(text, z))
  BY Zenon DEF Lands, UpTo
<1>4. QED BY <1>2, <1>3 DEF Aligned

LEMMA PassedAligned ==
  ASSUME NEW text \in Seq(Symbols), NEW run, LexRun(run, text), NEW i \in 1..Len(text),
         Boundary(text, i, run[i - 1]), Boundary(text, i + 1, run[i])
  PROVE  Aligned(text, run, i, i)
<1>1. UpTo(text, i) = i
  BY DEF UpTo
<1>2. text[i] # ";" => Stays(text, run, i - 1, i)
  BY StaysOne
<1>3. QED BY <1>1, <1>2 DEF Aligned

LEMMA SkipAligned ==
  ASSUME NEW text \in Seq(Symbols), NEW run, LexRun(run, text), NEW i \in 1..Len(text),
         Boundary(text, i, run[i - 1]), run[Len(text)].mode # "dollar"
  PROVE  Aligned(text, run, i, Skip(text, i))
<1>1. At(text, i) = text[i]
  BY TextForm, Zenon
<1>2. /\ run[i - 1].mode = "code"
      /\ run[i - 1].prev = "-" => text[i] # "-"
      /\ run[i - 1].tag # <<>> => At(text, WordEnd(text, i)) # "$"
  BY <1>1 DEF Boundary
<1>3. CASE text[i] \in {"'", "dq"} /\ Skip(text, i) = SkipRepeatedQuote(text, i)
  BY <1>2, <1>3, QuoteLands, LandsAligned
<1>4. CASE /\ i + 1 \in 1..Len(text) /\ text[i] = "-" /\ text[i + 1] = "-"
           /\ Skip(text, i) = SkipLineComment(text, i)
  <2>1. run[i - 1].prev # "-"
    BY <1>2, <1>4
  <2>2. Lands(text, run, i, SkipLineComment(text, i))
    BY <1>2, <1>4, <2>1, LineLands
  <2>3. QED BY <1>4, <2>2, LandsAligned
<1>5. CASE /\ i + 1 \in 1..Len(text) /\ text[i] = "/" /\ text[i + 1] = "*"
           /\ Skip(text, i) = SkipBlockComment(text, i)
  <2>1. Lands(text, run, i, SkipBlockComment(text, i))
    BY <1>2, <1>5, BlockLands
  <2>2. QED BY <1>5, <2>1, LandsAligned
<1>6. CASE text[i] = "$" /\ Skip(text, i) = SkipDollarQuoted(text, i)
  <2>1. PICK e, tag, g : /\ e = WordEnd(text, i + 1) /\ tag = Tagged(text, i, e)
                         /\ g = TagAfter(text, i, tag)
    OBVIOUS
  <2>2. CASE At(text, e) = "$"
    <3>1. text[i] \notin WordSymbols
      BY <1>6 DEF WordSymbols, Letters
    <3>2. WordEnd(text, i) = i
      BY <3>1, WordEndOn
    <3>3. run[i - 1].tag = <<>>
      BY <1>1, <1>2, <1>6, <3>2
    <3>4. Lands(text, run, i, SkipDollarQuoted(text, i))
      BY <1>2, <1>6, <2>1, <2>2, <3>3, DollarLands
    <3>5. QED BY <1>6, <3>4, LandsAligned
  <2>3. CASE At(text, e) # "$"
    <3>1. OnDollar(text, i, e, tag, g)
      BY <2>1, DollarSkips
    <3>2. Skip(text, i) = i
      BY <1>6, <2>3, <3>1, Zenon DEF OnDollar
    <3>3. OpensNothing(text, i)
      BY <1>6, <2>1, <2>3, Zenon DEF OpensNothing
    <3>4. Boundary(text, i + 1, run[i])
      BY <3>3, NothingOpens
    <3>5. QED BY <3>2, <3>4, PassedAligned
  <2>4. QED BY <2>2, <2>3
<1>7. CASE /\ text[i] \notin {"'", "dq", "$"} /\ Skip(text, i) = i
           /\ text[i] = "-" => At(text, i + 1) # "-"
           /\ text[i] = "/" => At(text, i + 1) # "*"
  <2>1. OpensNothing(text, i)
    BY <1>7, Zenon DEF OpensNothing
  <2>2. Boundary(text, i + 1, run[i])
    BY <2>1, NothingOpens
  <2>3. QED BY <1>7, <2>2, PassedAligned
<1>8. QED BY <1>3, <1>4, <1>5, <1>6, <1>7, SkipCases

LEMMA StatementIsCut ==
  ASSUME NEW text, NEW from, NEW to
  PROVE  Statement(text, from, to) = Cut(SubSeq(text, from, to))
BY Zenon DEF Statement, Cut

LEMMA ConcatTwice ==
  \A a, b, c \in Seq(Seq(Symbols)) : a \o (b \o c) = (a \o b) \o c
OBVIOUS

(* The splitter is at i, the lexer behind the symbol before or, when the   *)
(* splitter is beyond the end, at the end.                                 *)
Before(text, i) == UpTo(text, i - 1)
Ready(text, run, i, start) ==
  /\ start <= i
  /\ run[Before(text, i)].piece = SubSeq(text, start, Before(text, i))
  /\ i <= Len(text) => Boundary(text, i, run[i - 1])

(* What the lexer will have in the end. *)
Total(text, run) == run[Len(text)].pieces \o Cut(run[Len(text)].piece)

LEMMA SplitsAsLexed ==
  ASSUME NEW text \in Seq(Symbols), NEW run, LexRun(run, text), run[Len(text)].mode # "dollar",
         NEW f, Splits(f, text)
  PROVE  f[<<1, 1>>] = Total(text, run)
<1> PICK n \in Nat : n = Len(text)
  BY TextForm
<1> DEFINE G == {i \in 1..(n + 3) : \A start \in 1..(n + 1) :
                   Ready(text, run, i, start) =>
                     run[Before(text, i)].pieces \o f[<<i, start>>] = Total(text, run)}
<1>1. \A k \in 0..n : run[k] \in LexState
  BY DEF LexRun
<1>2. ASSUME NEW i \in 1..(n + 3), \A k \in (i + 1)..(n + 3) : k \in G
      PROVE  i \in G
  <2>1. SUFFICES ASSUME NEW start \in 1..(n + 1), Ready(text, run, i, start)
                 PROVE  run[Before(text, i)].pieces \o f[<<i, start>>] = Total(text, run)
    OBVIOUS
  <2> HIDE DEF G
  <2>2. CASE i > n
    <3>1. f[<<i, start>>] = Statement(text, start, n)
      BY <2>2, SplitSteps
    <3>2. Before(text, i) = n
      <4>1. i = n + 1 => i - 1 = n
        OBVIOUS
      <4>2. i # n + 1 => ~ (i - 1 <= n)
        BY <2>2
      <4>3. n <= n
        OBVIOUS
      <4>4. QED BY <4>1, <4>2, <4>3 DEF Before, UpTo
    <3>3. run[n].piece = SubSeq(text, start, n)
      BY <2>1, <3>2 DEF Ready
    <3>4. f[<<i, start>>] = Cut(run[n].piece)
      BY <3>1, <3>3, StatementIsCut
    <3>5. QED BY <3>2, <3>4 DEF Total
  <2>3. CASE i <= n
    <3>1. /\ i \in 1..n /\ i - 1 \in 0..n /\ i \in 0..n /\ i - 1 <= n /\ (i + 1) - 1 = i
          /\ i + 1 \in (i + 1)..(n + 3) /\ i + 1 \in 1..(n + 1) /\ i + 1 \in 1..(n + 3)
          /\ start \in 1..((i - 1) + 1)
      <4>1. start <= i
        BY <2>1 DEF Ready
      <4>2. QED BY <2>3, <4>1
    <3>2. Before(text, i) = i - 1
      BY <3>1 DEF Before, UpTo
    <3>3. run[i - 1].piece = SubSeq(text, start, i - 1) /\ Boundary(text, i, run[i - 1])
      BY <2>1, <2>3, <3>2 DEF Ready
    <3>4. PICK z : z = Skip(text, i)
      OBVIOUS
    <3>5. z \in i..(n + 2)
      BY <3>1, <3>4, SkipForward
    <3>6. Aligned(text, run, i, z)
      BY <3>1, <3>3, <3>4, SkipAligned
    <3>7. CASE text[i] = ";"
      <4>1. z = i
        <5>1. text[i] \notin {"'", "dq", "-", "/", "$"}
          BY <3>7
        <5>2. QED BY <3>1, <3>4, <5>1, SkipCases
      <4>2. run[i - 1].mode = "code" /\ Reads(run[i - 1], text[i], run[i])
        BY <3>1, <3>3 DEF Boundary, LexRun
      <4>3. run[i].pieces = run[i - 1].pieces \o Cut(run[i - 1].piece) /\ run[i].piece = <<>>
        BY <3>7, <4>2, Zenon DEF Reads
      <4>4. Before(text, i + 1) = i
        BY <2>3, <3>1 DEF Before, UpTo
      <4>5. SubSeq(text, i + 1, i) = <<>>
        BY <3>1
      <4>6. i <= Len(text) => Boundary(text, i + 1, run[i])
        BY <3>6, <4>1 DEF Aligned
      <4>7. Ready(text, run, i + 1, i + 1)
        <5>1. i + 1 <= i + 1
          BY <3>1
        <5>2. i + 1 <= Len(text) => Boundary(text, i + 1, run[(i + 1) - 1])
          BY <2>3, <3>1, <4>6
        <5>3. QED BY <4>3, <4>4, <4>5, <5>1, <5>2 DEF Ready
      <4>8. run[i].pieces \o f[<<i + 1, i + 1>>] = Total(text, run)
        BY <1>2, <3>1, <4>4, <4>7 DEF G
      <4>9. f[<<i, start>>] = Statement(text, start, i - 1) \o f[<<i + 1, i + 1>>]
        <5>1. ~ (i > Len(text))
          BY <2>3
        <5>2. QED BY <3>7, <5>1, SplitSteps
      <4>10. Statement(text, start, i - 1) = Cut(run[i - 1].piece)
        BY <3>3, StatementIsCut
      <4>11. PICK a \in Seq(Seq(Symbols)) : a = run[i - 1].pieces
        BY <1>1, <3>1, LexFields
      <4>12. PICK b \in Seq(Seq(Symbols)) : b = Cut(run[i - 1].piece)
        <5>1. i - 1 \in 0..Len(text) /\ start \in 1..(Len(text) + 1)
          BY <3>1
        <5>2. QED BY <4>10, <5>1, StatementForm
      <4>13. PICK c \in Seq(Seq(Symbols)) : c = f[<<i + 1, i + 1>>]
        BY <3>1, SplitsForm
      <4>14. a \o (b \o c) = (a \o b) \o c
        BY ConcatTwice
      <4>15. QED BY <3>2, <4>3, <4>8, <4>9, <4>10, <4>11, <4>12, <4>13, <4>14
    <3>8. CASE text[i] # ";"
      <4>1. f[<<i, start>>] = f[<<z + 1, start>>]
        <5>1. ~ (i > Len(text))
          BY <2>3
        <5>2. QED BY <3>4, <3>8, <5>1, SplitSteps
      <4>2. z + 1 \in (i + 1)..(n + 3) /\ (z + 1) - 1 = z
        BY <3>5
      <4>3. PICK b : b = UpTo(text, z)
        OBVIOUS
      <4>4. Before(text, z + 1) = b
        BY <4>2, <4>3 DEF Before
      <4>5. Stays(text, run, i - 1, b)
        BY <3>6, <3>8, <4>3 DEF Aligned
      <4>6. run[b].pieces = run[i - 1].pieces /\ run[b].piece = SubSeq(text, start, b)
        BY <3>1, <3>3, <4>5 DEF Stays
      <4>7. Ready(text, run, z + 1, start)
        <5>1. start <= z + 1
          BY <3>1, <3>5
        <5>2. z + 1 <= Len(text) => Boundary(text, z + 1, run[(z + 1) - 1])
          <6>1. z + 1 <= Len(text) => z <= Len(text)
            BY <3>5
          <6>2. QED BY <3>6, <4>2, <6>1 DEF Aligned
        <5>3. QED BY <4>4, <4>6, <5>1, <5>2 DEF Ready
      <4>8. run[b].pieces \o f[<<z + 1, start>>] = Total(text, run)
        BY <1>2, <4>2, <4>4, <4>7 DEF G
      <4>9. QED BY <3>2, <4>1, <4>6, <4>8
    <3>9. QED BY <3>7, <3>8
  <2>4. i > n \/ i <= n
    OBVIOUS
  <2>5. QED BY <2>2, <2>3, <2>4
<1> HIDE DEF G
<1>3. 1 \in G
  <2>1. n + 3 \in Nat /\ 1 \in 1..(n + 3)
    OBVIOUS
  <2>2. \A i \in 1..(n + 3) : i \in G
    BY <1>2, <2>1, DownFrom
  <2>3. QED BY <2>1, <2>2
<1>4. Before(text, 1) = 0 /\ run[0] = SimpleLexed /\ 1 - 1 = 0
  <2>1. 1 - 1 = 0 /\ 0 <= n
    OBVIOUS
  <2>2. QED BY <2>1 DEF Before, UpTo, LexRun
<1>5. Ready(text, run, 1, 1)
  <2>1. SubSeq(text, 1, 0) = <<>>
    OBVIOUS
  <2>2. Boundary(text, 1, SimpleLexed)
    BY LexedForm, BoundaryFresh
  <2>3. 1 <= 1
    OBVIOUS
  <2>4. QED BY <1>4, <2>1, <2>2, <2>3, LexedForm DEF Ready
<1>6. SimpleLexed.pieces \o f[<<1, 1>>] = Total(text, run)
  <2>1. 1 \in 1..(n + 1)
    OBVIOUS
  <2>2. QED BY <1>3, <1>4, <1>5, <2>1 DEF G
<1>7. PICK c \in Seq(Seq(Symbols)) : c = f[<<1, 1>>]
  <2>1. 1 \in 1..(Len(text) + 3) /\ 1 \in 1..(Len(text) + 1)
    OBVIOUS
  <2>2. QED BY <2>1, SplitsForm
<1>8. <<>> \o c = c
  OBVIOUS
<1>9. QED BY <1>6, <1>7, <1>8, LexedForm

LEMMA SplitsByReference ==
  ASSUME NEW text \in Seq(Symbols), SimpleReference(text).mode # "dollar"
  PROVE  SplitSqlStatements(text) = SimpleReference(text).pieces
<1>1. PICK run : LexRun(run, text) /\ run[Len(text)] = FoldLeft(SimpleLex, SimpleLexed, text)
  BY LexRuns
<1>2. PICK f : Splits(f, text) /\ SplitSqlStatements(text) = f[<<1, 1>>]
  BY SplitIsFirst
<1>3. run[Len(text)].mode # "dollar" /\ SimpleReference(text).pieces = Total(text, run)
  BY <1>1, ReferenceIs DEF Total
<1>4. QED BY <1>1, <1>2, <1>3, SplitsAsLexed

-----------------------------------------------------------------------------
(* SqlTokenIter. *)

(* Where it goes from i. *)
TokenStep(text, i) ==
  CASE Begins(text, i, <<"-", "-">>) -> TokenSkipLine(text, i)
    [] Begins(text, i, <<"/", "*">>) -> TokenSkipBlock(text, i)
    [] text[i] \in {"'", "dq", "bq"} -> TokenSkipQuoted(text, i)
    [] text[i] = "$" -> TokenSkipDollar(text, i)
    [] text[i] \in Letters -> WordEnd(text, i)
    [] OTHER -> i + 1

LEMMA TokenCases ==
  ASSUME NEW text \in Seq(Symbols), NEW i \in 1..Len(text)
  PROVE  \/ text[i] \in {"'", "dq", "bq"} /\ TokenStep(text, i) = SkipRepeatedQuote(text, i) + 1
         \/ /\ i + 1 \in 1..Len(text) /\ text[i] = "-" /\ text[i + 1] = "-"
            /\ TokenStep(text, i) = TokenSkipLine(text, i)
         \/ /\ i + 1 \in 1..Len(text) /\ text[i] = "/" /\ text[i + 1] = "*"
            /\ TokenStep(text, i) = SkipBlockComment(text, i) + 1
         \/ text[i] = "$" /\ TokenStep(text, i) = TokenSkipDollar(text, i)
         \/ text[i] \in Letters /\ TokenStep(text, i) = WordEnd(text, i)
         \/ /\ text[i] \notin {"'", "dq", "bq", "$"} \cup Letters /\ TokenStep(text, i) = i + 1
            /\ text[i] = "-" => At(text, i + 1) # "-"
            /\ text[i] = "/" => At(text, i + 1) # "*"
<1>1. PICK n \in Nat : n = Len(text)
  BY TextForm
<1>2. i \in Nat /\ i > 0 /\ i + 1 \in Nat /\ "-" \in Symbols /\ "/" \in Symbols /\ "*" \in Symbols
  <2>1. i \in Nat /\ i > 0 /\ i + 1 \in Nat
    BY <1>1
  <2>2. "-" \in Symbols /\ "/" \in Symbols /\ "*" \in Symbols
    BY Zenon DEF Symbols
  <2>3. QED BY <2>1, <2>2
<1>3. /\ Begins(text, i, <<"-", "-">>) <=> i + 1 <= Len(text) /\ text[i] = "-" /\ text[i + 1] = "-"
      /\ Begins(text, i, <<"/", "*">>) <=> i + 1 <= Len(text) /\ text[i] = "/" /\ text[i + 1] = "*"
  BY <1>2, BeginsTwo
<1>4. i + 1 <= Len(text) => i + 1 \in 1..Len(text) /\ At(text, i + 1) = text[i + 1]
  <2>1. i + 1 <= Len(text) => i + 1 \in 1..Len(text)
    BY <1>1, <1>2
  <2>2. QED BY <2>1, TextForm
<1>5. ~ (i + 1 <= Len(text)) => At(text, i + 1) = Absent
  <2>1. ~ (i + 1 <= Len(text)) => i + 1 \notin 1..Len(text)
    BY <1>1, <1>2
  <2>2. QED BY <2>1, TextForm
<1>6. Absent # "-" /\ Absent # "*"
  BY TextForm DEF Symbols
<1>7. CASE Begins(text, i, <<"-", "-">>)
  <2>1. text[i] = "-"
    BY <1>3, <1>7
  <2>2. ~ Begins(text, i, <<"/", "*">>) /\ text[i] \notin {"'", "dq", "bq", "$"} \cup Letters
    BY <1>3, <2>1 DEF Letters
  <2>3. TokenStep(text, i) = TokenSkipLine(text, i)
    BY <1>7, <2>2, Zenon DEF TokenStep
  <2>4. QED BY <1>3, <1>4, <1>7, <2>3
<1>8. CASE Begins(text, i, <<"/", "*">>)
  <2>1. text[i] = "/"
    BY <1>3, <1>8
  <2>2. ~ Begins(text, i, <<"-", "-">>) /\ text[i] \notin {"'", "dq", "bq", "$"} \cup Letters
    BY <1>3, <2>1 DEF Letters
  <2>3. TokenStep(text, i) = SkipBlockComment(text, i) + 1
    BY <1>8, <2>2, Zenon DEF TokenStep, TokenSkipBlock
  <2>4. QED BY <1>3, <1>4, <1>8, <2>3
<1>9. CASE text[i] \in {"'", "dq", "bq"}
  <2>1. /\ ~ Begins(text, i, <<"/", "*">>) /\ ~ Begins(text, i, <<"-", "-">>)
        /\ text[i] \notin {"$"} \cup Letters
    BY <1>3, <1>9 DEF Letters
  <2>2. TokenStep(text, i) = SkipRepeatedQuote(text, i) + 1
    BY <1>9, <2>1, Zenon DEF TokenStep, TokenSkipQuoted
  <2>3. QED BY <1>9, <2>2
<1>10. CASE text[i] = "$"
  <2>1. /\ ~ Begins(text, i, <<"/", "*">>) /\ ~ Begins(text, i, <<"-", "-">>)
        /\ text[i] \notin {"'", "dq", "bq"} \cup Letters
    BY <1>3, <1>10 DEF Letters
  <2>2. TokenStep(text, i) = TokenSkipDollar(text, i)
    BY <1>10, <2>1, Zenon DEF TokenStep
  <2>3. QED BY <1>10, <2>2
<1>11. CASE text[i] \in Letters
  <2>1. /\ ~ Begins(text, i, <<"/", "*">>) /\ ~ Begins(text, i, <<"-", "-">>)
        /\ text[i] \notin {"'", "dq", "bq", "$"}
    BY <1>3, <1>11 DEF Letters
  <2>2. TokenStep(text, i) = WordEnd(text, i)
    BY <1>11, <2>1, Zenon DEF TokenStep
  <2>3. QED BY <1>11, <2>2
<1>12. CASE /\ text[i] \notin {"'", "dq", "bq", "$"} /\ text[i] \notin Letters
            /\ ~ Begins(text, i, <<"-", "-">>) /\ ~ Begins(text, i, <<"/", "*">>)
  <2>1. TokenStep(text, i) = i + 1
    BY <1>12, Zenon DEF TokenStep
  <2>2. (text[i] = "-" => At(text, i + 1) # "-") /\ (text[i] = "/" => At(text, i + 1) # "*")
    BY <1>3, <1>4, <1>5, <1>6, <1>12
  <2>3. text[i] \notin {"'", "dq", "bq", "$"} \cup Letters
    BY <1>12
  <2>4. QED BY <2>1, <2>2, <2>3
<1>13. QED BY <1>7, <1>8, <1>9, <1>10, <1>11, <1>12

(* A comment to the end of the line, where no other line end is known.     *)
LEMMA TokenLine ==
  ASSUME NEW text \in Seq(Symbols), \A m \in 1..Len(text) : text[m] # "cr",
         NEW i \in 1..Len(text)
  PROVE  TokenSkipLine(text, i) = SkipLineComment(text, i)
<1>1. PICK n \in Nat : n = Len(text)
  BY TextForm
<1>2. \A j \in (i + 2)..Len(text) : j \in 1..Len(text)
  BY <1>1
<1>3. {j \in (i + 2)..Len(text) : text[j] \in {"nl", "cr"}}
        = {j \in (i + 2)..Len(text) : text[j] = "nl"}
  BY <1>2
<1>4. QED BY <1>3, Zenon DEF TokenSkipLine, SkipLineComment

LEMMA TokenLineForward ==
  ASSUME NEW text \in Seq(Symbols), NEW i \in 1..Len(text), i + 1 \in 1..Len(text)
  PROVE  TokenSkipLine(text, i) \in (i + 2)..(Len(text) + 1)
<1>1. PICK n \in Nat : n = Len(text)
  BY TextForm
<1>2. PICK found : found = {j \in (i + 2)..n : text[j] \in {"nl", "cr"}}
  OBVIOUS
<1>3. TokenSkipLine(text, i) = IF found = {} THEN n + 1 ELSE Min(found)
  BY <1>1, <1>2, Zenon DEF TokenSkipLine, First
<1>4. CASE found = {}
  BY <1>1, <1>3, <1>4
<1>5. CASE found # {}
  <2>1. found \subseteq Nat
    BY <1>1, <1>2
  <2>2. \E x \in found : \A y \in found : x <= y
    BY <1>5, <2>1, SmallestOf
  <2>3. Min(found) \in found
    BY <2>2, Zenon DEF Min
  <2>4. QED BY <1>1, <1>2, <1>3, <1>5, <2>3
<1>6. QED BY <1>4, <1>5

LEMMA TokenForward ==
  ASSUME NEW text \in Seq(Symbols), NEW i \in 1..Len(text)
  PROVE  TokenStep(text, i) \in (i + 1)..(2 * Len(text) + 3)
<1>1. PICK n \in Nat : n = Len(text)
  BY TextForm
<1>2. CASE TokenStep(text, i) = SkipRepeatedQuote(text, i) + 1
  <2>1. PICK f : Closes(f, text, text[i]) /\ SkipRepeatedQuote(text, i) = f[i + 1]
    BY CloseForm
  <2>2. f[i + 1] \in (i + 1)..(n + 2)
    <3>1. i + 1 \in 1..(n + 2)
      BY <1>1
    <3>2. QED BY <1>1, <2>1, <3>1, CloseRange
  <2>3. QED BY <1>1, <1>2, <2>1, <2>2
<1>3. CASE i + 1 \in 1..Len(text) /\ TokenStep(text, i) = TokenSkipLine(text, i)
  BY <1>1, <1>3, TokenLineForward
<1>4. CASE i + 1 \in 1..Len(text) /\ TokenStep(text, i) = SkipBlockComment(text, i) + 1
  <2>1. PICK f : /\ SkipBlockComment(text, i) = f + 1
                 /\ IsFirst(f, {j \in (i + 2)..Len(text) : Begins(text, j, <<"*", "/">>)}, Len(text))
    BY BlockComment
  <2>2. f = Len(text) + 1 \/ f \in {j \in (i + 2)..Len(text) : Begins(text, j, <<"*", "/">>)}
    BY <2>1, Zenon DEF IsFirst
  <2>3. f \in (i + 2)..(n + 1)
    BY <1>1, <1>4, <2>2
  <2>4. QED BY <1>1, <1>4, <2>1, <2>3
<1>5. CASE TokenStep(text, i) = TokenSkipDollar(text, i)
  <2>1. PICK e, tag, g : /\ e = WordEnd(text, i + 1) /\ tag = Tagged(text, i, e)
                         /\ g = TagAfter(text, i, tag)
    OBVIOUS
  <2>2. OnDollar(text, i, e, tag, g)
    BY <2>1, DollarSkips
  <2>3. \/ DollarTagAt(text, i) = Absent
        \/ /\ DollarTagAt(text, i) = tag /\ tag # Absent /\ Len(tag) = e - i + 1
           /\ e \in (i + 1)..(Len(text) + 1) /\ e <= Len(text) /\ g \in (e + 1)..(Len(text) + 1)
    <3>1. tag \in Seq(Symbols) => tag # Absent
      BY TextForm
    <3>2. QED BY <2>2, <3>1, Zenon DEF OnDollar
  <2>4. \/ TokenSkipDollar(text, i) = i + 1
        \/ /\ TokenSkipDollar(text, i) = g + Len(tag) /\ Len(tag) = e - i + 1
           /\ e \in (i + 1)..(Len(text) + 1) /\ e <= Len(text) /\ g \in (e + 1)..(Len(text) + 1)
    BY <2>1, <2>3, Zenon DEF TokenSkipDollar
  <2>5. QED BY <1>1, <1>5, <2>4
<1>6. CASE TokenStep(text, i) = WordEnd(text, i) /\ text[i] \in Letters
  <2>1. WordEnd(text, i) = WordEnd(text, i + 1)
    BY <1>6, WordEndOn DEF WordSymbols
  <2>2. i + 1 \in 1..(Len(text) + 1)
    BY <1>1
  <2>3. WordEnd(text, i + 1) \in (i + 1)..(Len(text) + 1)
    BY <2>2, WordEndMeans
  <2>4. QED BY <1>1, <1>6, <2>1, <2>3
<1>7. CASE TokenStep(text, i) = i + 1
  BY <1>1, <1>7
<1>8. QED BY <1>2, <1>3, <1>4, <1>5, <1>6, <1>7, TokenCases

(* tokens[i] is what the loop still finds from position i. *)
Tokenizes(f, text) ==
  f = [i \in 1..(2 * Len(text) + 3) |->
        IF i > Len(text) THEN <<>>
        ELSE CASE Begins(text, i, <<"-", "-">>) -> f[TokenSkipLine(text, i)]
               [] Begins(text, i, <<"/", "*">>) -> f[TokenSkipBlock(text, i)]
               [] text[i] \in {"'", "dq", "bq"} -> f[TokenSkipQuoted(text, i)]
               [] text[i] = "$" -> f[TokenSkipDollar(text, i)]
               [] text[i] \in Letters ->
                    <<SubSeq(text, i, WordEnd(text, i) - 1)>> \o f[WordEnd(text, i)]
               [] OTHER -> f[i + 1]]
WordAt(text, i) == <<SubSeq(text, i, WordEnd(text, i) - 1)>>

LEMMA TokensMove ==
  ASSUME NEW text \in Seq(Symbols), NEW i \in 1..Len(text), NEW f
  PROVE  (CASE Begins(text, i, <<"-", "-">>) -> f[TokenSkipLine(text, i)]
            [] Begins(text, i, <<"/", "*">>) -> f[TokenSkipBlock(text, i)]
            [] text[i] \in {"'", "dq", "bq"} -> f[TokenSkipQuoted(text, i)]
            [] text[i] = "$" -> f[TokenSkipDollar(text, i)]
            [] text[i] \in Letters ->
                 <<SubSeq(text, i, WordEnd(text, i) - 1)>> \o f[WordEnd(text, i)]
            [] OTHER -> f[i + 1])
         = IF text[i] \notin Letters THEN f[TokenStep(text, i)]
           ELSE WordAt(text, i) \o f[TokenStep(text, i)]
<1>1. PICK n \in Nat : n = Len(text)
  BY TextForm
<1>2. /\ Begins(text, i, <<"-", "-">>) => text[i] = "-"
      /\ Begins(text, i, <<"/", "*">>) => text[i] = "/"
  <2>1. i \in Nat /\ i > 0
    BY <1>1
  <2>2. "-" \in Symbols /\ "/" \in Symbols /\ "*" \in Symbols
    BY Zenon DEF Symbols
  <2>3. QED BY <2>1, <2>2, BeginsTwo
<1>3. CASE text[i] \in Letters
  <2>1. /\ ~ Begins(text, i, <<"/", "*">>) /\ ~ Begins(text, i, <<"-", "-">>)
        /\ text[i] \notin {"'", "dq", "bq"} /\ text[i] # "$"
    BY <1>2, <1>3 DEF Letters
  <2>2. QED BY <1>3, <2>1, Zenon DEF TokenStep, WordAt
<1>4. CASE Begins(text, i, <<"-", "-">>)
  <2>1. text[i] \notin Letters
    BY <1>2, <1>4 DEF Letters
  <2>2. ~ Begins(text, i, <<"/", "*">>) /\ text[i] \notin {"'", "dq", "bq"} /\ text[i] # "$"
    BY <1>2, <1>4
  <2>3. QED BY <1>4, <2>1, <2>2, Zenon DEF TokenStep
<1>5. CASE Begins(text, i, <<"/", "*">>)
  <2>1. text[i] \notin Letters
    BY <1>2, <1>5 DEF Letters
  <2>2. ~ Begins(text, i, <<"-", "-">>) /\ text[i] \notin {"'", "dq", "bq"} /\ text[i] # "$"
    BY <1>2, <1>5
  <2>3. QED BY <1>5, <2>1, <2>2, Zenon DEF TokenStep
<1>6. CASE text[i] \in {"'", "dq", "bq"}
  <2>1. text[i] \notin Letters /\ text[i] # "$"
    BY <1>6 DEF Letters
  <2>2. ~ Begins(text, i, <<"-", "-">>) /\ ~ Begins(text, i, <<"/", "*">>)
    BY <1>2, <1>6
  <2>3. QED BY <1>6, <2>1, <2>2, Zenon DEF TokenStep
<1>7. CASE text[i] = "$"
  <2>1. text[i] \notin Letters /\ text[i] \notin {"'", "dq", "bq"}
    BY <1>7 DEF Letters
  <2>2. ~ Begins(text, i, <<"-", "-">>) /\ ~ Begins(text, i, <<"/", "*">>)
    BY <1>2, <1>7
  <2>3. QED BY <1>7, <2>1, <2>2, Zenon DEF TokenStep
<1>8. CASE /\ text[i] \notin Letters /\ text[i] \notin {"'", "dq", "bq"} /\ text[i] # "$"
           /\ ~ Begins(text, i, <<"-", "-">>) /\ ~ Begins(text, i, <<"/", "*">>)
  BY <1>8, Zenon DEF TokenStep
<1>9. QED BY <1>3, <1>4, <1>5, <1>6, <1>7, <1>8

LEMMA TokensExist ==
  ASSUME NEW text \in Seq(Symbols)
  PROVE  \E f : Tokenizes(f, text)
<1> PICK n \in Nat : n = Len(text)
  BY TextForm
<1> DEFINE I == 1..(2 * n + 3)
           stop == {i \in I : i > n}
           plain == {i \in I : text[i] \notin Letters}
           next == [i \in I |-> TokenStep(text, i)]
           rank == [i \in I |-> 2 * n + 3 - i]
           base == [i \in I |-> <<>>]
           prefix == [i \in I |-> WordAt(text, i)]
<1>1. \A i \in I : /\ i \in stop <=> i > n
                   /\ i \in plain <=> text[i] \notin Letters
                   /\ base[i] = <<>> /\ prefix[i] = WordAt(text, i)
                   /\ rank[i] = 2 * n + 3 - i /\ next[i] = TokenStep(text, i)
  OBVIOUS
<1> HIDE DEF stop, plain, next, rank, base, prefix
<1>2. \A i \in I : rank[i] \in Nat /\ rank[i] < 2 * n + 4
  BY <1>1
<1>3. ASSUME NEW i \in I, i \notin stop
      PROVE  next[i] \in I /\ rank[next[i]] < rank[i]
  <2>1. i \in 1..n
    BY <1>1, <1>3
  <2>2. PICK j \in (i + 1)..(2 * n + 3) : j = TokenStep(text, i)
    BY <2>1, TokenForward
  <2>3. j \in I /\ 2 * n + 3 - j < 2 * n + 3 - i
    BY <2>1, <2>2
  <2>4. QED BY <1>1, <2>2, <2>3
<1>4. 2 * n + 4 \in Nat
  OBVIOUS
<1>5. I = 1..(2 * Len(text) + 3)
  OBVIOUS
<1>6. \A i \in I : ~ (i > Len(text)) => i \in 1..Len(text)
  OBVIOUS
<1> HIDE DEF I
<1>7. PICK f : Jumps(f, I, stop, base, plain, prefix, next)
  BY <1>2, <1>3, <1>4, JumpsExist
<1>8. f = [i \in I |-> IF i \in stop THEN base[i]
                       ELSE IF i \in plain THEN f[next[i]] ELSE prefix[i] \o f[next[i]]]
  BY <1>7, Zenon DEF Jumps
<1> DEFINE R(i) ==
        IF i > Len(text) THEN <<>>
        ELSE CASE Begins(text, i, <<"-", "-">>) -> f[TokenSkipLine(text, i)]
               [] Begins(text, i, <<"/", "*">>) -> f[TokenSkipBlock(text, i)]
               [] text[i] \in {"'", "dq", "bq"} -> f[TokenSkipQuoted(text, i)]
               [] text[i] = "$" -> f[TokenSkipDollar(text, i)]
               [] text[i] \in Letters ->
                    <<SubSeq(text, i, WordEnd(text, i) - 1)>> \o f[WordEnd(text, i)]
               [] OTHER -> f[i + 1]
<1>9. ASSUME NEW i \in I
      PROVE  (IF i \in stop THEN base[i]
              ELSE IF i \in plain THEN f[next[i]] ELSE prefix[i] \o f[next[i]]) = R(i)
  <2>1. CASE i > Len(text)
    <3>1. i \in stop /\ base[i] = <<>>
      BY <1>1, <2>1
    <3>2. R(i) = <<>>
      BY <2>1, Zenon
    <3>3. QED BY <3>1, <3>2
  <2>2. CASE ~ (i > Len(text))
    <3>1. i \in 1..Len(text) /\ i \notin stop
      BY <1>1, <1>6, <2>2
    <3>2. R(i) = IF text[i] \notin Letters THEN f[TokenStep(text, i)]
                 ELSE WordAt(text, i) \o f[TokenStep(text, i)]
      BY <2>2, <3>1, TokensMove
    <3>3. QED BY <1>1, <3>1, <3>2
  <2>3. QED BY <2>1, <2>2
<1>10. f = [i \in I |-> R(i)]
  BY <1>8, <1>9, Zenon
<1>11. QED BY <1>5, <1>10, Zenon DEF Tokenizes

LEMMA TokensAreFirst ==
  ASSUME NEW text \in Seq(Symbols)
  PROVE  \E f : Tokenizes(f, text) /\ SqlTokens(text) = f[1]
<1> DEFINE F == CHOOSE f : Tokenizes(f, text)
<1>1. Tokenizes(F, text)
  BY TokensExist
<1>2. SqlTokens(text) = F[1]
  BY Zenon DEF SqlTokens, Tokenizes
<1>3. QED BY <1>1, <1>2

LEMMA TokenSteps ==
  ASSUME NEW text \in Seq(Symbols), NEW f, Tokenizes(f, text), NEW i \in 1..(2 * Len(text) + 3)
  PROVE  /\ i > Len(text) => f[i] = <<>>
         /\ i <= Len(text) =>
              /\ i \in 1..Len(text)
              /\ text[i] \notin Letters => f[i] = f[TokenStep(text, i)]
              /\ text[i] \in Letters => f[i] = WordAt(text, i) \o f[TokenStep(text, i)]
<1>1. PICK n \in Nat : n = Len(text)
  BY TextForm
<1>2. f[i] = IF i > Len(text) THEN <<>>
        ELSE CASE Begins(text, i, <<"-", "-">>) -> f[TokenSkipLine(text, i)]
               [] Begins(text, i, <<"/", "*">>) -> f[TokenSkipBlock(text, i)]
               [] text[i] \in {"'", "dq", "bq"} -> f[TokenSkipQuoted(text, i)]
               [] text[i] = "$" -> f[TokenSkipDollar(text, i)]
               [] text[i] \in Letters ->
                    <<SubSeq(text, i, WordEnd(text, i) - 1)>> \o f[WordEnd(text, i)]
               [] OTHER -> f[i + 1]
  BY Zenon DEF Tokenizes
<1>3. CASE i > Len(text)
  <2>1. ~ (i <= Len(text))
    BY <1>1, <1>3
  <2>2. f[i] = <<>>
    BY <1>2, <1>3, Zenon
  <2>3. QED BY <2>1, <2>2
<1>4. CASE ~ (i > Len(text))
  <2>1. i \in 1..Len(text)
    BY <1>1, <1>4
  <2>2. f[i] = CASE Begins(text, i, <<"-", "-">>) -> f[TokenSkipLine(text, i)]
               [] Begins(text, i, <<"/", "*">>) -> f[TokenSkipBlock(text, i)]
               [] text[i] \in {"'", "dq", "bq"} -> f[TokenSkipQuoted(text, i)]
               [] text[i] = "$" -> f[TokenSkipDollar(text, i)]
               [] text[i] \in Letters ->
                    <<SubSeq(text, i, WordEnd(text, i) - 1)>> \o f[WordEnd(text, i)]
               [] OTHER -> f[i + 1]
    BY <1>2, <1>4, Zenon
  <2>3. f[i] = IF text[i] \notin Letters THEN f[TokenStep(text, i)]
               ELSE WordAt(text, i) \o f[TokenStep(text, i)]
    BY <2>1, <2>2, TokensMove
  <2>4. QED BY <1>4, <2>1, <2>3
<1>5. QED BY <1>3, <1>4

LEMMA TokensForm ==
  ASSUME NEW text \in Seq(Symbols), NEW f, Tokenizes(f, text), NEW i \in 1..(2 * Len(text) + 3)
  PROVE  f[i] \in Seq(Seq(Symbols))
<1> PICK n \in Nat : n = Len(text)
  BY TextForm
<1> DEFINE G == {j \in 1..(2 * n + 3) : f[j] \in Seq(Seq(Symbols))}
<1>1. ASSUME NEW j \in 1..(2 * n + 3), \A k \in (j + 1)..(2 * n + 3) : k \in G
      PROVE  j \in G
  <2>1. CASE j > n
    <3>1. f[j] = <<>>
      BY <2>1, TokenSteps
    <3>2. <<>> \in Seq(Seq(Symbols))
      OBVIOUS
    <3>3. QED BY <3>1, <3>2
  <2>2. CASE j <= n
    <3>1. PICK z \in (j + 1)..(2 * n + 3) : z = TokenStep(text, j)
      <4>1. j \in 1..Len(text)
        BY <2>2
      <4>2. QED BY <4>1, TokenForward
    <3>2. PICK r \in Seq(Seq(Symbols)) : r = f[z]
      BY <1>1, <3>1
    <3>3. CASE text[j] \notin Letters
      BY <2>2, <3>1, <3>2, <3>3, TokenSteps
    <3>4. CASE text[j] \in Letters
      <4>1. f[j] = WordAt(text, j) \o r
        BY <2>2, <3>1, <3>2, <3>4, TokenSteps
      <4>2. PICK w \in Seq(Symbols) : w = SubSeq(text, j, WordEnd(text, j) - 1)
        <5>1. WordEnd(text, j) \in j..(n + 1)
          <6>1. j \in 1..(Len(text) + 1)
            BY <2>2
          <6>2. QED BY <6>1, WordEndMeans
        <5>2. WordEnd(text, j) - 1 \in 0..Len(text) /\ j \in 1..(Len(text) + 1)
          BY <2>2, <5>1
        <5>3. QED BY <5>2, StatementForm
      <4>3. <<w>> \o r \in Seq(Seq(Symbols))
        OBVIOUS
      <4>4. QED BY <4>1, <4>2, <4>3 DEF WordAt
    <3>5. QED BY <3>3, <3>4
  <2>3. QED BY <2>1, <2>2
<1> HIDE DEF G
<1>2. \A j \in 1..(2 * n + 3) : j \in G
  <2>1. 2 * n + 3 \in Nat
    OBVIOUS
  <2>2. QED BY <1>1, <2>1, DownFrom
<1>3. QED BY <1>2 DEF G

-----------------------------------------------------------------------------
(* SqlTokenIter and the lexer, side by side. *)

LEMMA EndedIs ==
  ASSUME NEW s \in LexState
  PROVE  /\ Ended(s) \in Seq(Seq(Symbols))
         /\ s.word = <<>> => Ended(s) = s.words
         /\ s.word # <<>> => Ended(s) = s.words \o <<s.word>>
         /\ \A r : WordEnded(s, r) => Ended(r) = Ended(s) /\ r.word = <<>>
<1>1. PICK x \in Seq(Seq(Symbols)), v \in Seq(Symbols) : x = s.words /\ v = s.word
  BY LexFields
<1>2. <<v>> \in Seq(Seq(Symbols)) /\ x \o <<>> = x /\ x \o <<v>> \in Seq(Seq(Symbols))
  OBVIOUS
<1>3. Ended(s) = x \o (IF v = <<>> THEN <<>> ELSE <<v>>)
  BY <1>1 DEF Ended
<1>4. Ended(s) = IF v = <<>> THEN x ELSE x \o <<v>>
  BY <1>2, <1>3
<1>5. PICK e \in Seq(Seq(Symbols)) : e = Ended(s)
  BY <1>2, <1>4
<1>6. e \o <<>> = e
  OBVIOUS
<1>7. ASSUME NEW r, WordEnded(s, r)
      PROVE  Ended(r) = Ended(s) /\ r.word = <<>>
  <2>1. r.word = <<>> /\ r.words = e
    BY <1>5, <1>7 DEF WordEnded, Ended
  <2>2. QED BY <1>5, <1>6, <2>1 DEF Ended
<1>8. QED BY <1>1, <1>4, <1>5, <1>7

(* Where the loop looks, the lexer is in the middle of nothing. *)
Between(text, i, s) == Boundary(text, i, s) /\ (s.word # <<>> => At(text, i) \notin WordSymbols)

(* What the lexer has and what the loop still finds are as much at z as    *)
(* they are at i.                                                          *)
Followed(text, run, f, i, z) ==
  /\ Ended(run[Before(text, z)]) \o f[z] = Ended(run[i - 1]) \o f[i]
  /\ z <= Len(text) => Between(text, z, run[z - 1])

LEMMA LandsFollowed ==
  ASSUME NEW text \in Seq(Symbols), NEW run, LexRun(run, text), NEW f, NEW i \in 1..Len(text),
         NEW y \in i..(2 * Len(text) + 2), Lands(text, run, i, y), f[i] = f[y + 1]
  PROVE  Followed(text, run, f, i, y + 1)
<1>1. PICK n \in Nat : n = Len(text)
  BY TextForm
<1>2. PICK b : b = UpTo(text, y)
  OBVIOUS
<1>3. (y + 1) - 1 = y /\ i - 1 \in 0..Len(text)
  BY <1>1
<1>4. Before(text, y + 1) = b
  BY <1>2, <1>3 DEF Before
<1>5. run[i - 1] \in LexState
  BY <1>3 DEF LexRun
<1>6. WordEnded(run[i - 1], run[b]) /\ (y <= Len(text) => Is(run[y], "code", Absent, <<>>))
  BY <1>2, Zenon DEF Lands, UpTo
<1>7. Ended(run[b]) = Ended(run[i - 1]) /\ run[b].word = <<>>
  BY <1>5, <1>6, EndedIs
<1>8. ASSUME y + 1 <= Len(text)
      PROVE  Between(text, y + 1, run[(y + 1) - 1])
  <2>1. y <= Len(text)
    BY <1>1, <1>8
  <2>2. b = y
    BY <1>2, <2>1 DEF UpTo
  <2>3. Boundary(text, y + 1, run[y])
    BY <1>6, <2>1, BoundaryFresh
  <2>4. QED BY <1>3, <1>7, <2>2, <2>3 DEF Between
<1>9. QED BY <1>4, <1>7, <1>8 DEF Followed

LEMMA PassedFollowed ==
  ASSUME NEW text \in Seq(Symbols), NEW run, LexRun(run, text), NEW f, NEW i \in 1..Len(text),
         Between(text, i, run[i - 1]), OpensNothing(text, i), text[i] \notin Letters,
         f[i] = f[i + 1]
  PROVE  Followed(text, run, f, i, i + 1)
<1>1. PICK n \in Nat : n = Len(text)
  BY TextForm
<1>2. (i + 1) - 1 = i /\ i - 1 \in 0..Len(text) /\ i <= Len(text)
  BY <1>1
<1>3. Before(text, i + 1) = i
  BY <1>2 DEF Before, UpTo
<1>4. PICK s, c, r : s = run[i - 1] /\ c = text[i] /\ r = run[i]
  OBVIOUS
<1>5. s \in LexState
  BY <1>2, <1>4 DEF LexRun
<1>6. Boundary(text, i, run[i - 1]) /\ (s.word # <<>> => At(text, i) \notin WordSymbols)
  BY <1>4 DEF Between
<1>7. Boundary(text, i + 1, run[i])
  BY <1>6, NothingOpens
<1>8. CodeWord(s, c, r)
  <2>1. run[i - 1].mode = "code"
    BY <1>6 DEF Boundary
  <2>2. QED BY <1>4, <2>1, CodeOne
<1>9. At(text, i) = c
  BY <1>4, TextForm
<1>10. Ended(r) = Ended(s) /\ r.word = <<>>
  <2>1. CASE c \in WordSymbols
    <3>1. s.word = <<>>
      BY <1>6, <1>9, <2>1
    <3>2. r.words = s.words /\ r.word = s.word
      BY <1>4, <1>8, <2>1, <3>1 DEF CodeWord
    <3>3. QED BY <3>1, <3>2 DEF Ended
  <2>2. CASE c \notin WordSymbols
    <3>1. ~ (c = "$" /\ s.tag # <<>>)
      <4>1. WordEnd(text, i) = i
        BY <1>4, <2>2, WordEndOn
      <4>2. s.tag # <<>> => At(text, i) # "$"
        BY <1>4, <1>6, <4>1 DEF Boundary
      <4>3. QED BY <1>9, <4>2
    <3>2. WordEnded(s, r)
      BY <1>8, <2>2, <3>1, Zenon DEF CodeWord
    <3>3. QED BY <1>5, <3>2, EndedIs
  <2>3. QED BY <2>1, <2>2
<1>11. QED BY <1>2, <1>3, <1>4, <1>7, <1>10 DEF Followed, Between

LEMMA WordFollowed ==
  ASSUME NEW text \in Seq(Symbols), NEW run, LexRun(run, text), NEW f, Tokenizes(f, text),
         NEW i \in 1..Len(text), Between(text, i, run[i - 1]), text[i] \in Letters,
         NEW z, z = WordEnd(text, i)
  PROVE  z \in (i + 1)..(Len(text) + 1) /\ Followed(text, run, f, i, z)
<1>1. PICK n \in Nat : n = Len(text)
  BY TextForm
<1>2. i \in 1..(Len(text) + 1) /\ i + 1 \in 1..(Len(text) + 1) /\ i - 1 \in 0..Len(text)
  BY <1>1
<1>3. /\ z \in i..(n + 1) /\ \A j \in i..(z - 1) : text[j] \in WordSymbols
      /\ z # n + 1 => text[z] \notin WordSymbols
  BY <1>1, <1>2, WordEndMeans
<1>4. z \in (i + 1)..(n + 1)
  <2>1. z = WordEnd(text, i + 1)
    BY WordEndOn DEF WordSymbols
  <2>2. QED BY <1>1, <1>2, <2>1, WordEndMeans
<1>5. PICK s \in LexState : s = run[i - 1]
  BY <1>2 DEF LexRun
<1>6. s.word = <<>> /\ Boundary(text, i, s)
  <2>1. At(text, i) = text[i]
    BY TextForm
  <2>2. At(text, i) \in WordSymbols
    BY <2>1 DEF WordSymbols
  <2>3. QED BY <1>5, <2>2 DEF Between
<1>7. ASSUME NEW k \in i..(z - 1), Boundary(text, k, run[k - 1])
      PROVE  /\ Boundary(text, k + 1, run[k]) /\ run[k].words = run[k - 1].words
             /\ run[k].word = IF run[k - 1].word # <<>> \/ text[k] \in Letters
                              THEN Append(run[k - 1].word, text[k]) ELSE run[k - 1].word
  <2>1. k \in 1..Len(text) /\ text[k] \in WordSymbols
    BY <1>1, <1>3
  <2>2. OpensNothing(text, k)
    <3>1. text[k] \notin {"'", "dq", "$", "-", "/"}
      BY <2>1 DEF WordSymbols, Letters
    <3>2. QED BY <3>1, Zenon DEF OpensNothing
  <2>3. Boundary(text, k + 1, run[k])
    BY <1>7, <2>1, <2>2, NothingOpens
  <2>4. CodeWord(run[k - 1], text[k], run[k])
    <3>1. run[k - 1].mode = "code"
      BY <1>7 DEF Boundary
    <3>2. QED BY <2>1, <3>1, CodeOne
  <2>5. QED BY <2>1, <2>3, <2>4 DEF CodeWord
<1> DEFINE G == {k \in i..(z - 1) : /\ Boundary(text, k + 1, run[k]) /\ run[k].words = s.words
                                    /\ run[k].word = SubSeq(text, i, k)}
<1>8. i \in G
  <2>1. i \in i..(z - 1)
    BY <1>1, <1>4
  <2>2. Append(SubSeq(text, i, i - 1), text[i]) = SubSeq(text, i, i)
    BY AppendSub
  <2>3. SubSeq(text, i, i - 1) = <<>>
    BY <1>1
  <2>4. QED BY <1>5, <1>6, <1>7, <2>1, <2>2, <2>3
<1>9. \A k \in i..(z - 1) : k \in G /\ k < z - 1 => k + 1 \in G
  <2> SUFFICES ASSUME NEW k \in i..(z - 1), k \in G, k < z - 1
               PROVE  k + 1 \in G
    OBVIOUS
  <2>1. /\ k + 1 \in i..(z - 1) /\ (k + 1) - 1 = k /\ k + 1 \in 1..Len(text) /\ i \in 1..(k + 1)
        /\ k - i + 1 # 0
    BY <1>1, <1>3
  <2>2. SubSeq(text, i, k) # <<>>
    <3>1. i \in Nat /\ k \in Nat /\ i > 0 /\ i <= k /\ k <= Len(text)
      BY <1>1, <1>3
    <3>2. Len(SubSeq(text, i, k)) = k - i + 1
      BY <3>1, SubForm
    <3>3. QED BY <2>1, <3>2
  <2>3. Append(SubSeq(text, i, k), text[k + 1]) = SubSeq(text, i, (k + 1))
    BY <2>1, AppendSub
  <2>4. Boundary(text, k + 1, run[k]) /\ run[k].words = s.words /\ run[k].word = SubSeq(text, i, k)
    OBVIOUS
  <2> HIDE DEF G
  <2>5. PICK m : m = k + 1 /\ m \in i..(z - 1) /\ m - 1 = k
    BY <2>1
  <2>6. Boundary(text, m, run[m - 1])
    BY <2>4, <2>5
  <2>7. /\ Boundary(text, m + 1, run[m]) /\ run[m].words = run[m - 1].words
        /\ run[m].word = IF run[m - 1].word # <<>> \/ text[m] \in Letters
                         THEN Append(run[m - 1].word, text[m]) ELSE run[m - 1].word
    BY <1>7, <2>5, <2>6
  <2>8. run[m].word = SubSeq(text, i, m) /\ run[m].words = s.words
    BY <2>2, <2>3, <2>4, <2>5, <2>7
  <2>9. QED BY <2>5, <2>7, <2>8 DEF G
<1> HIDE DEF G
<1>10. z - 1 \in G
  <2>1. i \in Nat /\ z - 1 \in Int /\ z - 1 \in i..(z - 1)
    BY <1>1, <1>4
  <2>2. \A k \in i..(z - 1) : k \in G
    BY <1>8, <1>9, <2>1, Climb
  <2>3. QED BY <2>1, <2>2
<1>11. PICK w \in Seq(Symbols) : w = SubSeq(text, i, z - 1) /\ w # <<>>
  <2>1. i \in Nat /\ z - 1 \in Nat /\ i > 0 /\ i <= z - 1 /\ z - 1 <= Len(text) /\ (z - 1) - i + 1 # 0
    BY <1>1, <1>4
  <2>2. SubSeq(text, i, z - 1) \in Seq(Symbols) /\ Len(SubSeq(text, i, z - 1)) = (z - 1) - i + 1
    BY <2>1, SubForm
  <2>3. Len(<<>>) = 0
    OBVIOUS
  <2>4. QED BY <2>1, <2>2, <2>3
<1>12. run[z - 1].words = s.words /\ run[z - 1].word = w /\ Boundary(text, (z - 1) + 1, run[z - 1])
  BY <1>10, <1>11 DEF G
<1>13. (z - 1) + 1 = z /\ z - 1 <= Len(text) /\ z \in 1..(2 * Len(text) + 3)
  BY <1>1, <1>4
<1>14. Before(text, z) = z - 1
  BY <1>13 DEF Before, UpTo
<1>15. PICK e \in Seq(Seq(Symbols)) : e = Ended(s) /\ e = s.words
  BY <1>6, EndedIs
<1>16. Ended(run[z - 1]) = e \o <<w>>
  BY <1>11, <1>12, <1>15 DEF Ended
<1>17. PICK g \in Seq(Seq(Symbols)) : g = f[z]
  BY <1>13, TokensForm
<1>18. f[i] = <<w>> \o g
  <2>1. TokenStep(text, i) = z
    <3>1. text[i] \notin {"'", "dq", "bq", "-", "/", "$"}
      BY DEF Letters
    <3>2. QED BY <3>1, TokenCases
  <2>2. i \in 1..(2 * Len(text) + 3) /\ i <= Len(text)
    BY <1>1
  <2>3. f[i] = WordAt(text, i) \o f[z]
    BY <2>1, <2>2, TokenSteps
  <2>4. QED BY <1>11, <1>17, <2>3 DEF WordAt
<1>19. (e \o <<w>>) \o g = e \o (<<w>> \o g)
  <2>1. <<w>> \in Seq(Seq(Symbols))
    OBVIOUS
  <2>2. QED BY <2>1, ConcatTwice
<1>20. z <= Len(text) => At(text, z) \notin WordSymbols
  <2>1. SUFFICES ASSUME z <= Len(text)
                 PROVE  At(text, z) \notin WordSymbols
    OBVIOUS
  <2>2. z \in 1..Len(text) /\ z # n + 1
    BY <1>1, <1>4, <2>1
  <2>3. QED BY <1>3, <2>2, TextForm
<1>21. Ended(run[Before(text, z)]) \o f[z] = Ended(run[i - 1]) \o f[i]
  BY <1>5, <1>14, <1>15, <1>16, <1>17, <1>18, <1>19
<1>22. z <= Len(text) => Between(text, z, run[z - 1])
  BY <1>12, <1>13, <1>20 DEF Between
<1>23. QED BY <1>1, <1>4, <1>21, <1>22 DEF Followed

(* Neither back quotes nor carriage returns. *)
Clean(u) == \A m \in 1..Len(u) : u[m] \notin {"cr", "bq"}

LEMMA TokenFollowed ==
  ASSUME NEW text \in Seq(Symbols), Clean(text), NEW run, LexRun(run, text),
         run[Len(text)].mode # "dollar", NEW f, Tokenizes(f, text),
         NEW i \in 1..Len(text), Between(text, i, run[i - 1])
  PROVE  \E z \in (i + 1)..(2 * Len(text) + 3) : Followed(text, run, f, i, z)
<1>0. PICK n \in Nat : n = Len(text)
  BY TextForm
<1>1. Boundary(text, i, run[i - 1]) /\ At(text, i) = text[i]
  BY TextForm DEF Between
<1>2. /\ run[i - 1].mode = "code"
      /\ run[i - 1].prev = "-" => text[i] # "-"
      /\ run[i - 1].tag # <<>> => At(text, WordEnd(text, i)) # "$"
  BY <1>1 DEF Boundary
<1>3. i \in 1..(2 * Len(text) + 3) /\ i <= Len(text)
  BY <1>0
<1>4. text[i] \notin Letters => f[i] = f[TokenStep(text, i)]
  BY <1>3, TokenSteps
<1>5. TokenStep(text, i) \in (i + 1)..(2 * Len(text) + 3)
  BY TokenForward
<1>6. ASSUME NEW y, Lands(text, run, i, y), TokenStep(text, i) = y + 1, y \in Int,
             text[i] \notin Letters
      PROVE  \E z \in (i + 1)..(2 * Len(text) + 3) : Followed(text, run, f, i, z)
  <2>1. y \in i..(2 * Len(text) + 2)
    BY <1>0, <1>5, <1>6
  <2>2. f[i] = f[y + 1]
    BY <1>4, <1>6
  <2>3. Followed(text, run, f, i, y + 1)
    BY <1>6, <2>1, <2>2, LandsFollowed
  <2>4. QED BY <1>5, <1>6, <2>3
<1>7. CASE text[i] \in {"'", "dq", "bq"} /\ TokenStep(text, i) = SkipRepeatedQuote(text, i) + 1
  <2>1. text[i] \in {"'", "dq"}
    BY <1>7 DEF Clean
  <2>2. text[i] \notin Letters
    BY <2>1 DEF Letters
  <2>3. SkipRepeatedQuote(text, i) \in Int
    <3>1. PICK h : Closes(h, text, text[i]) /\ SkipRepeatedQuote(text, i) = h[i + 1]
      BY CloseForm
    <3>2. i + 1 \in 1..(Len(text) + 2)
      BY <1>0
    <3>3. h[i + 1] \in (i + 1)..(Len(text) + 2)
      BY <3>1, <3>2, CloseRange
    <3>4. QED BY <3>1, <3>3
  <2>4. Lands(text, run, i, SkipRepeatedQuote(text, i))
    BY <1>2, <2>1, QuoteLands
  <2>5. QED BY <1>6, <1>7, <2>2, <2>3, <2>4
<1>8. CASE /\ i + 1 \in 1..Len(text) /\ text[i] = "-" /\ text[i + 1] = "-"
           /\ TokenStep(text, i) = TokenSkipLine(text, i)
  <2>1. run[i - 1].prev # "-" /\ text[i] \notin Letters
    BY <1>2, <1>8 DEF Letters
  <2>2. PICK y : y = SkipLineComment(text, i)
    OBVIOUS
  <2>3. Lands(text, run, i, y)
    BY <1>2, <1>8, <2>1, <2>2, LineLands
  <2>4. TokenSkipLine(text, i) = y
    <3>1. \A m \in 1..Len(text) : text[m] # "cr"
      BY DEF Clean
    <3>2. QED BY <2>2, <3>1, TokenLine
  <2>5. y \in (i + 2)..(n + 1)
    BY <1>0, <1>8, <2>4, TokenLineForward
  <2>6. f[i] = f[y]
    BY <1>4, <1>8, <2>1, <2>4
  <2>7. y \in 1..(2 * Len(text) + 3) /\ y + 1 \in 1..(2 * Len(text) + 3) /\ y + 1 > y
    BY <1>0, <2>5
  <2>8. f[y] = f[y + 1]
    <3>1. CASE y = n + 1
      <4>1. y > Len(text) /\ y + 1 > Len(text)
        BY <1>0, <3>1
      <4>2. QED BY <2>7, <4>1, TokenSteps
    <3>2. CASE y # n + 1
      <4>1. y \in 1..Len(text) /\ y <= Len(text)
        BY <1>0, <2>5, <3>2
      <4>2. text[y] = "nl"
        <5>1. \/ y = Len(text) + 1 \/ y \in {j \in (i + 2)..Len(text) : text[j] = "nl"}
          BY <2>2, LineComment, Zenon DEF IsFirst
        <5>2. QED BY <1>0, <3>2, <5>1
      <4>3. text[y] \notin Letters /\ text[y] \notin {"'", "dq", "bq", "-", "/", "$"}
        BY <4>2 DEF Letters
      <4>4. TokenStep(text, y) = y + 1
        BY <4>1, <4>3, TokenCases
      <4>5. QED BY <2>7, <4>1, <4>3, <4>4, TokenSteps
    <3>3. QED BY <3>1, <3>2
  <2>9. y \in i..(2 * Len(text) + 2) /\ y + 1 \in (i + 1)..(2 * Len(text) + 3)
    BY <1>0, <2>5
  <2>10. Followed(text, run, f, i, y + 1)
    BY <2>3, <2>6, <2>8, <2>9, LandsFollowed
  <2>11. QED BY <2>9, <2>10
<1>9. CASE /\ i + 1 \in 1..Len(text) /\ text[i] = "/" /\ text[i + 1] = "*"
           /\ TokenStep(text, i) = SkipBlockComment(text, i) + 1
  <2>1. Lands(text, run, i, SkipBlockComment(text, i))
    BY <1>2, <1>9, BlockLands
  <2>2. text[i] \notin Letters
    BY <1>9 DEF Letters
  <2>3. SkipBlockComment(text, i) \in Int
    <3>1. PICK h : /\ SkipBlockComment(text, i) = h + 1
                   /\ IsFirst(h, {j \in (i + 2)..Len(text) : Begins(text, j, <<"*", "/">>)}, Len(text))
      BY BlockComment
    <3>2. h = Len(text) + 1 \/ h \in {j \in (i + 2)..Len(text) : Begins(text, j, <<"*", "/">>)}
      BY <3>1, Zenon DEF IsFirst
    <3>3. QED BY <1>0, <3>1, <3>2
  <2>4. QED BY <1>6, <1>9, <2>1, <2>2, <2>3
<1>10. CASE text[i] = "$" /\ TokenStep(text, i) = TokenSkipDollar(text, i)
  <2>1. PICK e, tag, g : /\ e = WordEnd(text, i + 1) /\ tag = Tagged(text, i, e)
                         /\ g = TagAfter(text, i, tag)
    OBVIOUS
  <2>2. text[i] \notin WordSymbols /\ text[i] \notin Letters
    BY <1>10 DEF WordSymbols, Letters
  <2>3. OnDollar(text, i, e, tag, g)
    BY <2>1, DollarSkips
  <2>4. CASE At(text, e) = "$"
    <3>1. WordEnd(text, i) = i
      BY <2>2, WordEndOn
    <3>2. run[i - 1].tag = <<>>
      BY <1>1, <1>2, <1>10, <3>1
    <3>3. g # Len(text) + 1 /\ Lands(text, run, i, SkipDollarQuoted(text, i))
      BY <1>2, <1>10, <2>1, <2>4, <3>2, DollarLands
    <3>4. /\ DollarTagAt(text, i) = tag /\ tag \in Seq(Symbols) /\ Len(tag) = e - i + 1
          /\ SkipDollarQuoted(text, i) = g + (e - i)
          /\ e \in (i + 1)..(Len(text) + 1) /\ g \in (e + 1)..(Len(text) + 1)
      BY <2>3, <2>4, <3>3, Zenon DEF OnDollar
    <3>5. TokenSkipDollar(text, i) = g + Len(tag)
      <4>1. tag # Absent
        BY <3>4, TextForm
      <4>2. QED BY <2>1, <3>4, <4>1, Zenon DEF TokenSkipDollar
    <3>6. SkipDollarQuoted(text, i) \in Int /\ g + Len(tag) = SkipDollarQuoted(text, i) + 1
      BY <1>0, <3>4
    <3>7. TokenStep(text, i) = SkipDollarQuoted(text, i) + 1
      BY <1>10, <3>5, <3>6
    <3>8. QED BY <1>6, <2>2, <3>3, <3>6, <3>7
  <2>5. CASE At(text, e) # "$"
    <3>1. DollarTagAt(text, i) = Absent
      BY <2>3, <2>5, Zenon DEF OnDollar
    <3>2. TokenSkipDollar(text, i) = i + 1
      BY <3>1, Zenon DEF TokenSkipDollar
    <3>3. OpensNothing(text, i)
      BY <1>10, <2>1, <2>5, Zenon DEF OpensNothing
    <3>4. f[i] = f[i + 1] /\ i + 1 \in (i + 1)..(2 * Len(text) + 3)
      BY <1>4, <1>5, <1>10, <2>2, <3>2
    <3>5. Followed(text, run, f, i, i + 1)
      BY <2>2, <3>3, <3>4, PassedFollowed
    <3>6. QED BY <3>4, <3>5
  <2>6. QED BY <2>4, <2>5
<1>11. CASE text[i] \in Letters
  <2>1. PICK z : z = WordEnd(text, i)
    OBVIOUS
  <2>2. z \in (i + 1)..(Len(text) + 1) /\ Followed(text, run, f, i, z)
    BY <1>11, <2>1, WordFollowed
  <2>3. z \in (i + 1)..(2 * Len(text) + 3)
    BY <1>0, <2>2
  <2>4. QED BY <2>2, <2>3
<1>12. CASE /\ text[i] \notin {"'", "dq", "bq", "$"} \cup Letters /\ TokenStep(text, i) = i + 1
            /\ text[i] = "-" => At(text, i + 1) # "-"
            /\ text[i] = "/" => At(text, i + 1) # "*"
  <2>1. OpensNothing(text, i) /\ text[i] \notin Letters
    BY <1>12 DEF OpensNothing
  <2>2. f[i] = f[i + 1] /\ i + 1 \in (i + 1)..(2 * Len(text) + 3)
    BY <1>4, <1>5, <1>12, <2>1
  <2>3. Followed(text, run, f, i, i + 1)
    BY <2>1, <2>2, PassedFollowed
  <2>4. QED BY <2>2, <2>3
<1>13. QED BY <1>7, <1>8, <1>9, <1>10, <1>11, <1>12, TokenCases

LEMMA TokensAsLexed ==
  ASSUME NEW text \in Seq(Symbols), Clean(text), NEW run, LexRun(run, text),
         run[Len(text)].mode # "dollar"
  PROVE  SqlTokens(text) = Ended(run[Len(text)])
<1> PICK n \in Nat : n = Len(text)
  BY TextForm
<1>1. PICK f : Tokenizes(f, text) /\ SqlTokens(text) = f[1]
  BY TokensAreFirst
<1>2. PICK e \in Seq(Seq(Symbols)) : e = Ended(run[n])
  <2>1. n \in 0..Len(text)
    OBVIOUS
  <2>2. run[n] \in LexState
    BY <2>1 DEF LexRun
  <2>3. QED BY <2>2, EndedIs
<1> DEFINE G == {i \in 1..(2 * n + 3) : (i <= n => Between(text, i, run[i - 1])) =>
                                          Ended(run[Before(text, i)]) \o f[i] = e}
<1>3. ASSUME NEW i \in 1..(2 * n + 3), \A k \in (i + 1)..(2 * n + 3) : k \in G
      PROVE  i \in G
  <2>1. SUFFICES ASSUME i <= n => Between(text, i, run[i - 1])
                 PROVE  Ended(run[Before(text, i)]) \o f[i] = e
    OBVIOUS
  <2> HIDE DEF G
  <2>2. CASE i > n
    <3>1. f[i] = <<>>
      BY <1>1, <2>2, TokenSteps
    <3>2. Before(text, i) = n
      <4>1. i = n + 1 => i - 1 = n
        OBVIOUS
      <4>2. i # n + 1 => ~ (i - 1 <= n)
        BY <2>2
      <4>3. n <= n
        OBVIOUS
      <4>4. QED BY <4>1, <4>2, <4>3 DEF Before, UpTo
    <3>3. e \o <<>> = e
      OBVIOUS
    <3>4. QED BY <1>2, <3>1, <3>2, <3>3
  <2>3. CASE i <= n
    <3>1. i \in 1..Len(text) /\ i - 1 <= n
      BY <2>3
    <3>2. Before(text, i) = i - 1
      BY <3>1 DEF Before, UpTo
    <3>3. PICK z \in (i + 1)..(2 * n + 3) : Followed(text, run, f, i, z)
      BY <1>1, <2>1, <2>3, <3>1, TokenFollowed
    <3>4. z \in G
      BY <1>3, <3>3
    <3>5. Ended(run[Before(text, z)]) \o f[z] = e
      BY <3>3, <3>4 DEF Followed, G
    <3>6. QED BY <3>2, <3>3, <3>5 DEF Followed
  <2>4. i > n \/ i <= n
    OBVIOUS
  <2>5. QED BY <2>2, <2>3, <2>4
<1> HIDE DEF G
<1>4. 1 \in G
  <2>1. 2 * n + 3 \in Nat /\ 1 \in 1..(2 * n + 3)
    OBVIOUS
  <2>2. \A i \in 1..(2 * n + 3) : i \in G
    BY <1>3, <2>1, DownFrom
  <2>3. QED BY <2>1, <2>2
<1>5. Before(text, 1) = 0 /\ run[0] = SimpleLexed /\ 1 - 1 = 0
  <2>1. 1 - 1 = 0 /\ 0 <= n
    OBVIOUS
  <2>2. QED BY <2>1 DEF Before, UpTo, LexRun
<1>6. Between(text, 1, SimpleLexed) /\ Ended(SimpleLexed) = <<>>
  <2>1. Boundary(text, 1, SimpleLexed)
    BY LexedForm, BoundaryFresh
  <2>2. QED BY <2>1, LexedForm, EndedIs DEF Between
<1>7. <<>> \o f[1] = e
  BY <1>4, <1>5, <1>6 DEF G
<1>8. PICK g \in Seq(Seq(Symbols)) : g = f[1]
  <2>1. 1 \in 1..(2 * Len(text) + 3)
    OBVIOUS
  <2>2. QED BY <1>1, <2>1, TokensForm
<1>9. <<>> \o g = g
  OBVIOUS
<1>10. QED BY <1>1, <1>2, <1>7, <1>8, <1>9

-----------------------------------------------------------------------------
(* The lexer on a part of a text. *)

Lexes(u, s) == \E run : LexRun(run, u) /\ run[Len(u)] = s

LEMMA LexesNothing ==
  /\ Lexes(<<>>, SimpleLexed)
  /\ \A s : Lexes(<<>>, s) => s = SimpleLexed
<1>1. PICK u \in Seq(Symbols) : u = <<>> /\ Len(u) = 0
  <2>1. <<>> \in Seq(Symbols) /\ Len(<<>>) = 0
    OBVIOUS
  <2>2. QED BY <2>1
<1>2. PICK run : run = [k \in 0..0 |-> SimpleLexed]
  OBVIOUS
<1>3. 0..Len(u) = {0} /\ 1..Len(u) = {} /\ run[0] = SimpleLexed
  <2>1. 0..0 = {0} /\ 1..0 = {}
    OBVIOUS
  <2>2. QED BY <1>1, <1>2, <2>1
<1>4. LexRun(run, u)
  BY <1>3, LexedForm DEF LexRun
<1>5. Lexes(u, SimpleLexed)
  BY <1>1, <1>3, <1>4 DEF Lexes
<1>6. ASSUME NEW s, Lexes(u, s)
      PROVE  s = SimpleLexed
  BY <1>1, <1>6 DEF Lexes, LexRun
<1>7. QED BY <1>1, <1>5, <1>6

LEMMA LexesMore ==
  ASSUME NEW u \in Seq(Symbols), NEW s \in LexState, Lexes(u, s), NEW c \in Symbols
  PROVE  Lexes(Append(u, c), SimpleLex(s, c)) /\ Reads(s, c, SimpleLex(s, c))
<1>1. PICK n \in Nat : n = Len(u)
  BY TextForm
<1>2. PICK run : LexRun(run, u) /\ run[n] = s
  BY <1>1 DEF Lexes
<1>3. PICK r : r = SimpleLex(s, c) /\ Reads(s, c, r)
  BY LexReads
<1>4. PICK v \in Seq(Symbols) : /\ v = Append(u, c) /\ Len(v) = n + 1 /\ v[n + 1] = c
                                /\ \A k \in 1..n : v[k] = u[k]
  <2>1. Append(u, c) \in Seq(Symbols) /\ Len(Append(u, c)) = n + 1 /\ Append(u, c)[n + 1] = c
    BY <1>1
  <2>2. \A k \in 1..n : Append(u, c)[k] = u[k]
    BY <1>1
  <2>3. QED BY <2>1, <2>2
<1>5. PICK g : g = [k \in 0..(n + 1) |-> IF k <= n THEN run[k] ELSE r]
  OBVIOUS
<1>6. (\A k \in 0..n : g[k] = run[k]) /\ g[n + 1] = r
  <2>1. \A k \in 0..n : k \in 0..(n + 1) /\ k <= n
    OBVIOUS
  <2>2. n + 1 \in 0..(n + 1) /\ ~ (n + 1 <= n)
    OBVIOUS
  <2>3. QED BY <1>5, <2>1, <2>2
<1>7. 0 \in 0..n /\ n \in 0..n
  OBVIOUS
<1>8. r \in LexState
  BY <1>3 DEF Reads
<1>9. g[0] = SimpleLexed
  BY <1>2, <1>6, <1>7 DEF LexRun
<1>10. ASSUME NEW k \in 0..Len(v)
       PROVE  g[k] \in LexState
  <2>1. k \in 0..n \/ k = n + 1
    BY <1>4
  <2>2. QED BY <1>1, <1>2, <1>6, <1>8, <2>1 DEF LexRun
<1>11. ASSUME NEW k \in 1..Len(v)
       PROVE  Reads(g[k - 1], v[k], g[k])
  <2>1. CASE k = n + 1
    <3>1. k - 1 = n
      BY <2>1
    <3>2. g[k - 1] = s /\ g[k] = r /\ v[k] = c
      BY <1>2, <1>4, <1>6, <1>7, <2>1, <3>1
    <3>3. QED BY <1>3, <3>2
  <2>2. CASE k # n + 1
    <3>1. k \in 1..n /\ k \in 0..n /\ k - 1 \in 0..n
      BY <1>4, <2>2
    <3>2. g[k - 1] = run[k - 1] /\ g[k] = run[k] /\ v[k] = u[k]
      BY <1>4, <1>6, <3>1
    <3>3. QED BY <1>1, <1>2, <3>1, <3>2 DEF LexRun
  <2>3. QED BY <2>1, <2>2
<1>12. LexRun(g, v)
  BY <1>9, <1>10, <1>11 DEF LexRun
<1>13. Lexes(v, r)
  BY <1>4, <1>6, <1>12 DEF Lexes
<1>14. QED BY <1>3, <1>4, <1>13

(* Two states that read on alike: the one has read W more words.           *)
Like(s, t, W) ==
  /\ s.mode = t.mode
  /\ s.mode = "code" => /\ s.tag = t.tag
                        /\ (s.prev = "-") = (t.prev = "-") /\ (s.prev = "/") = (t.prev = "/")
  /\ s.mode = "block" => s.prev = t.prev
  /\ s.mode = "dollar" => s.tag = t.tag /\ s.tail = t.tail
  /\ s.word = t.word /\ s.words = W \o t.words

MoreWords(s, t, W) == s.word = t.word /\ s.words = W \o t.words

LEMMA LikeWordEnded ==
  ASSUME NEW s, NEW t \in LexState, NEW W \in Seq(Seq(Symbols)), MoreWords(s, t, W),
         NEW r, NEW q, WordEnded(s, r), WordEnded(t, q)
  PROVE  MoreWords(r, q, W)
<1>1. PICK b, x : b = t.words /\ x = IF t.word = <<>> THEN <<>> ELSE <<t.word>>
  OBVIOUS
<1>2. b \in Seq(Seq(Symbols)) /\ x \in Seq(Seq(Symbols))
  <2>1. PICK w \in Seq(Symbols) : w = t.word
    BY LexFields
  <2>2. <<w>> \in Seq(Seq(Symbols)) /\ <<>> \in Seq(Seq(Symbols))
    OBVIOUS
  <2>3. b \in Seq(Seq(Symbols))
    BY <1>1, LexFields
  <2>4. QED BY <1>1, <2>1, <2>2, <2>3
<1>3. W \o (b \o x) = (W \o b) \o x
  BY <1>2, ConcatTwice
<1>4. r.words = (W \o b) \o x /\ q.words = b \o x /\ r.word = <<>> /\ q.word = <<>>
  BY <1>1 DEF WordEnded, MoreWords
<1>5. QED BY <1>3, <1>4 DEF MoreWords

LEMMA LikeEnded ==
  ASSUME NEW s \in LexState, NEW t \in LexState, NEW W \in Seq(Seq(Symbols)), Like(s, t, W)
  PROVE  Ended(s) = W \o Ended(t)
<1>1. MoreWords(s, t, W)
  BY DEF Like, MoreWords
<1>2. PICK r, q : r = SimpleEndWord(s) /\ q = SimpleEndWord(t) /\ WordEnded(s, r) /\ WordEnded(t, q)
  BY EndWordForm
<1>3. r.words = W \o q.words
  <2>1. MoreWords(r, q, W)
    BY <1>1, <1>2, LikeWordEnded
  <2>2. QED BY <2>1 DEF MoreWords
<1>4. r.words = Ended(s) /\ q.words = Ended(t)
  BY <1>2 DEF WordEnded, Ended
<1>5. QED BY <1>3, <1>4

LEMMA LikeOn ==
  ASSUME NEW s \in LexState, NEW t \in LexState, NEW W \in Seq(Seq(Symbols)), Like(s, t, W),
         NEW c \in Symbols, NEW r, NEW q, Reads(s, c, r), Reads(t, c, q)
  PROVE  Like(r, q, W)
<1>1. s.mode = t.mode /\ s.word = t.word /\ s.words = W \o t.words
  BY DEF Like
<1>2. s.mode \in Modes
  BY LexFields
<1>3. Absent \notin Symbols
  BY TextAssumption
<1>4. CASE s.mode = "code"
  <2>1. /\ CodeMode(s, c, r) /\ CodeWord(s, c, r) /\ CodeMode(t, c, q) /\ CodeWord(t, c, q)
        /\ s.tag = t.tag /\ (s.prev = "-") = (t.prev = "-") /\ (s.prev = "/") = (t.prev = "/")
    BY <1>1, <1>4 DEF Reads, Like
  <2>2. r.word = q.word /\ r.words = W \o q.words
    <3>1. CASE c \in WordSymbols
      BY <1>1, <2>1, <3>1 DEF CodeWord
    <3>2. CASE c = "$" /\ s.tag # <<>>
      BY <1>1, <2>1, <3>2 DEF CodeWord
    <3>3. CASE c \notin WordSymbols /\ ~ (c = "$" /\ s.tag # <<>>)
      <4>1. WordEnded(s, r) /\ WordEnded(t, q)
        BY <2>1, <3>3 DEF CodeWord
      <4>2. MoreWords(s, t, W)
        BY <1>1 DEF MoreWords
      <4>3. MoreWords(r, q, W)
        BY <4>1, <4>2, LikeWordEnded
      <4>4. QED BY <4>3 DEF MoreWords
    <3>4. QED BY <3>1, <3>2, <3>3
  <2>3. r.mode = q.mode /\ r.prev = q.prev /\ r.tag = q.tag /\ (r.mode = "dollar" => r.tail = q.tail)
    <3>1. CASE c \in {"'", "dq"}
      <4>1. Is(r, c, Absent, <<>>) /\ Is(q, c, Absent, <<>>)
        BY <2>1, <3>1 DEF CodeMode
      <4>2. QED BY <3>1, <4>1 DEF Is
    <3>2. CASE c = "-" /\ s.prev = "-"
      <4>1. Is(r, "line", Absent, <<>>) /\ Is(q, "line", Absent, <<>>)
        BY <2>1, <3>2 DEF CodeMode
      <4>2. QED BY <4>1 DEF Is
    <3>3. CASE c = "*" /\ s.prev = "/"
      <4>1. Is(r, "block", Absent, <<>>) /\ Is(q, "block", Absent, <<>>)
        BY <2>1, <3>3 DEF CodeMode
      <4>2. QED BY <4>1 DEF Is
    <3>4. CASE c = "$" /\ s.tag # <<>>
      <4>1. /\ Is(r, "dollar", Absent, Append(s.tag, c)) /\ r.tail = <<>>
            /\ Is(q, "dollar", Absent, Append(s.tag, c)) /\ q.tail = <<>>
        BY <2>1, <3>4 DEF CodeMode
      <4>2. QED BY <4>1 DEF Is
    <3>5. CASE c = "$" /\ s.tag = <<>>
      <4>1. Is(r, "code", c, <<c>>) /\ Is(q, "code", c, <<c>>)
        BY <2>1, <3>5 DEF CodeMode
      <4>2. QED BY <4>1 DEF Is
    <3>6. CASE c \in WordSymbols
      <4>1. PICK g : g = IF s.tag = <<>> THEN <<>> ELSE Append(s.tag, c)
        OBVIOUS
      <4>2. Is(r, "code", c, g) /\ Is(q, "code", c, g)
        BY <2>1, <3>6, <4>1 DEF CodeMode
      <4>3. QED BY <4>2 DEF Is
    <3>7. CASE /\ c \notin WordSymbols \cup {"'", "dq", "$"}
               /\ ~ (c = "-" /\ s.prev = "-") /\ ~ (c = "*" /\ s.prev = "/")
      <4>1. ~ (c = "-" /\ t.prev = "-") /\ ~ (c = "*" /\ t.prev = "/")
        BY <2>1, <3>7
      <4>2. Is(r, "code", c, <<>>) /\ Is(q, "code", c, <<>>)
        BY <2>1, <3>7, <4>1, Zenon DEF CodeMode
      <4>3. QED BY <4>2 DEF Is
    <3>8. QED BY <3>1, <3>2, <3>3, <3>4, <3>5, <3>6, <3>7
  <2>4. QED BY <2>2, <2>3 DEF Like
<1>5. CASE s.mode # "code"
  <2>1. Inner(s, c, r) /\ Inner(t, c, q)
    BY <1>1, <1>5 DEF Reads
  <2>2. r.word = q.word /\ r.words = W \o q.words
    BY <1>1, <2>1 DEF Inner, SameWords
  <2>3. /\ r.mode = "code" => r.prev = Absent /\ r.tag = <<>>
        /\ q.mode = "code" => q.prev = Absent /\ q.tag = <<>>
    BY <2>1 DEF Inner
  <2>4. CASE s.mode \in {"'", "dq"}
    <3>1. PICK m : m = IF c = s.mode THEN "code" ELSE s.mode
      OBVIOUS
    <3>2. r.mode = m /\ q.mode = m /\ m \notin {"block", "dollar"}
      BY <1>1, <2>1, <2>4, <3>1 DEF Inner, Is
    <3>3. QED BY <2>2, <2>3, <3>2 DEF Like
  <2>5. CASE s.mode = "line"
    <3>1. PICK m : m = IF c = "nl" THEN "code" ELSE "line"
      OBVIOUS
    <3>2. r.mode = m /\ q.mode = m /\ m \notin {"block", "dollar"}
      BY <1>1, <2>1, <2>5, <3>1 DEF Inner, Is
    <3>3. QED BY <2>2, <2>3, <3>2 DEF Like
  <2>6. CASE s.mode = "block"
    <3>1. s.prev = t.prev
      BY <2>6 DEF Like
    <3>2. /\ IF c = "/" /\ s.prev = "*" THEN r.mode = "code" ELSE r.mode = "block" /\ r.prev = c
          /\ IF c = "/" /\ s.prev = "*" THEN q.mode = "code" ELSE q.mode = "block" /\ q.prev = c
      BY <1>1, <2>1, <2>6, <3>1 DEF Inner
    <3>3. QED BY <2>2, <2>3, <3>2 DEF Like
  <2>7. CASE s.mode = "dollar"
    <3>1. PICK g, l : g = s.tag /\ l = s.tail /\ g = t.tag /\ l = t.tail
      BY <2>7 DEF Like
    <3>2. PICK closed : closed = IsSuffix(g, Append(l, c))
      OBVIOUS
    <3>3. /\ IF closed THEN r.mode = "code" ELSE r.mode = "dollar" /\ r.tag = g /\ r.tail = Append(l, c)
          /\ IF closed THEN q.mode = "code" ELSE q.mode = "dollar" /\ q.tag = g /\ q.tail = Append(l, c)
      BY <1>1, <2>1, <2>7, <3>1, <3>2 DEF Inner
    <3>4. QED BY <2>2, <2>3, <3>3 DEF Like
  <2>8. QED BY <1>2, <1>5, <2>4, <2>5, <2>6, <2>7 DEF Modes
<1>6. QED BY <1>4, <1>5

-----------------------------------------------------------------------------
(* The lexer on a text without its blanks. *)

(* A tag ends in a dollar sign. *)
Tied(s) == s.mode = "dollar" => s.tag # <<>> /\ s.tag[Len(s.tag)] = "$"

LEMMA TiedOn ==
  ASSUME NEW s \in LexState, Tied(s), NEW c \in Symbols, NEW r, Reads(s, c, r)
  PROVE  Tied(r)
<1>1. s.mode \in Modes
  BY LexFields
<1>2. SUFFICES ASSUME r.mode = "dollar"
               PROVE  r.tag # <<>> /\ r.tag[Len(r.tag)] = "$"
  BY DEF Tied
<1>3. CASE s.mode = "code"
  <2>1. CodeMode(s, c, r)
    BY <1>3 DEF Reads
  <2>2. c = "$" /\ s.tag # <<>>
    <3>1. CASE c \in {"'", "dq"}
      <4>1. r.mode = c
        BY <2>1, <3>1 DEF CodeMode, Is
      <4>2. QED BY <1>2, <3>1, <4>1
    <3>2. CASE c = "-" /\ s.prev = "-"
      <4>1. r.mode = "line"
        BY <2>1, <3>2 DEF CodeMode, Is
      <4>2. QED BY <1>2, <4>1
    <3>3. CASE c = "*" /\ s.prev = "/"
      <4>1. r.mode = "block"
        BY <2>1, <3>3 DEF CodeMode, Is
      <4>2. QED BY <1>2, <4>1
    <3>4. CASE c = "$" /\ s.tag = <<>>
      <4>1. r.mode = "code"
        BY <2>1, <3>4 DEF CodeMode, Is
      <4>2. QED BY <1>2, <4>1
    <3>5. CASE c \in WordSymbols
      <4>1. r.mode = "code"
        BY <2>1, <3>5 DEF CodeMode, Is
      <4>2. QED BY <1>2, <4>1
    <3>6. CASE /\ c \notin WordSymbols \cup {"'", "dq", "$"}
               /\ ~ (c = "-" /\ s.prev = "-") /\ ~ (c = "*" /\ s.prev = "/")
      <4>1. r.mode = "code"
        BY <2>1, <3>6 DEF CodeMode, Is
      <4>2. QED BY <1>2, <4>1
    <3>7. QED BY <3>1, <3>2, <3>3, <3>4, <3>5, <3>6
  <2>3. r.tag = Append(s.tag, c)
    BY <2>1, <2>2 DEF CodeMode, Is
  <2>4. PICK g \in Seq(Symbols) : g = s.tag
    BY LexFields
  <2>5. Append(g, c) # <<>> /\ Append(g, c)[Len(Append(g, c))] = c
    OBVIOUS
  <2>6. QED BY <2>2, <2>3, <2>4, <2>5
<1>4. CASE s.mode # "code"
  <2>1. Inner(s, c, r)
    BY <1>4 DEF Reads
  <2>2. CASE s.mode = "dollar"
    <3>1. PICK closed : closed = IsSuffix(s.tag, Append(s.tail, c))
      OBVIOUS
    <3>2. IF closed THEN r.mode = "code" ELSE r.tag = s.tag
      BY <2>1, <2>2, <3>1 DEF Inner
    <3>3. QED BY <1>2, <2>2, <3>2 DEF Tied
  <2>3. CASE s.mode \in {"'", "dq", "line"}
    <3>1. r.mode \in {"code", s.mode}
      BY <2>1, <2>3 DEF Inner, Is
    <3>2. QED BY <1>2, <2>3, <3>1
  <2>4. CASE s.mode = "block"
    <3>1. r.mode \in {"code", "block"}
      BY <2>1, <2>4 DEF Inner
    <3>2. QED BY <1>2, <3>1
  <2>5. QED BY <1>1, <1>4, <2>2, <2>3, <2>4 DEF Modes
<1>5. QED BY <1>3, <1>4

LEMMA BlankIs ==
  ASSUME NEW c \in Blanks
  PROVE  /\ c \in Symbols /\ c \notin WordSymbols
         /\ c \notin {"'", "dq", "$", "-", "/", "*", ";"}
BY DEF Blanks, Symbols, WordSymbols, Letters

(* A blank ends no more than a word. *)
LEMMA BlankEnds ==
  ASSUME NEW s \in LexState, Tied(s), NEW c \in Blanks, NEW r, Reads(s, c, r)
  PROVE  /\ Ended(r) = Ended(s)
         /\ s.mode = "dollar" => r.mode = "dollar"
         /\ Like(s, SimpleLexed, <<>>) => Like(r, SimpleLexed, <<>>)
<1>1. /\ c \in Symbols /\ c \notin WordSymbols
      /\ c \notin {"'", "dq", "$", "-", "/", "*", ";"}
  BY BlankIs
<1>2. CASE s.mode = "code"
  <2>1. CodeMode(s, c, r) /\ CodeWord(s, c, r)
    BY <1>2 DEF Reads
  <2>2. WordEnded(s, r)
    BY <1>1, <2>1 DEF CodeWord
  <2>3. Is(r, "code", c, <<>>)
    <3>1. /\ c \notin WordSymbols \cup {"'", "dq", "$"}
          /\ ~ (c = "-" /\ s.prev = "-") /\ ~ (c = "*" /\ s.prev = "/")
      BY <1>1
    <3>2. QED BY <2>1, <3>1, Zenon DEF CodeMode
  <2>4. Ended(r) = Ended(s) /\ r.word = <<>>
    BY <2>2, EndedIs
  <2>5. ASSUME Like(s, SimpleLexed, <<>>)
        PROVE  Like(r, SimpleLexed, <<>>)
    <3>1. s.word = <<>> /\ s.words = <<>>
      <4>1. <<>> \o <<>> = <<>>
        OBVIOUS
      <4>2. QED BY <2>5, <4>1, LexedForm DEF Like
    <3>2. r.word = <<>> /\ r.words = <<>> \o <<>>
      <4>1. <<>> \o <<>> = <<>>
        OBVIOUS
      <4>2. QED BY <2>2, <3>1, <4>1 DEF WordEnded
    <3>3. Absent # "-" /\ Absent # "/" /\ c # "-" /\ c # "/"
      BY <1>1, TextAssumption DEF Symbols
    <3>4. /\ r.mode = "code" /\ SimpleLexed.mode = "code" /\ r.tag = <<>> /\ SimpleLexed.tag = <<>>
          /\ r.prev = c /\ SimpleLexed.prev = Absent
      BY <2>3, LexedForm DEF Is
    <3>5. QED BY <3>2, <3>3, <3>4, LexedForm DEF Like
  <2>6. QED BY <1>2, <2>4, <2>5
<1>3. CASE s.mode # "code"
  <2>1. Inner(s, c, r)
    BY <1>3 DEF Reads
  <2>2. Ended(r) = Ended(s)
    BY <2>1 DEF Inner, SameWords, Ended
  <2>3. ~ Like(s, SimpleLexed, <<>>)
    BY <1>3, LexedForm DEF Like, Is
  <2>4. ASSUME s.mode = "dollar"
        PROVE  r.mode = "dollar"
    <3>1. PICK g \in Seq(Symbols) : g = s.tag /\ g # <<>> /\ g[Len(g)] = "$"
      BY <2>4, LexFields DEF Tied
    <3>2. PICK l \in Seq(Symbols) : l = s.tail
      BY LexFields
    <3>3. PICK u \in Seq(Symbols) : u = Append(l, c) /\ u[Len(u)] = c
      <4>1. PICK d \in Symbols : d = c
        BY <1>1
      <4>2. Append(l, d) \in Seq(Symbols) /\ Append(l, d)[Len(Append(l, d))] = d
        OBVIOUS
      <4>3. QED BY <4>1, <4>2
    <3>4. ~ IsSuffix(g, u)
      <4>1. SUFFICES ASSUME IsSuffix(g, u)
                     PROVE  FALSE
        OBVIOUS
      <4>2. PICK x \in Nat, y \in Nat : x = Len(g) /\ y = Len(u)
        BY TextForm
      <4>3. x \in 1..x /\ (y - x) + x = y
        BY <3>1, <4>2
      <4>4. g[x] = u[(y - x) + x]
        BY <4>1, <4>2, <4>3, SuffixIs
      <4>5. QED BY <1>1, <3>1, <3>3, <4>2, <4>3, <4>4
    <3>5. QED BY <2>1, <2>4, <3>1, <3>2, <3>3, <3>4 DEF Inner
  <2>5. QED BY <2>2, <2>3, <2>4
<1>4. QED BY <1>2, <1>3

LEMMA TrimLexes ==
  ASSUME NEW u \in Seq(Symbols), NEW s \in LexState, Lexes(u, s)
  PROVE  \E t \in LexState : /\ Lexes(Trim(u), t) /\ Ended(t) = Ended(s)
                             /\ t.mode = "dollar" => s.mode = "dollar"
<1> PICK n \in Nat : n = Len(u)
  BY TextForm
<1>1. PICK run : LexRun(run, u) /\ run[n] = s
  BY DEF Lexes
<1>2. /\ run[0] = SimpleLexed /\ \A k \in 0..n : run[k] \in LexState
      /\ \A k \in 1..n : Reads(run[k - 1], u[k], run[k])
  BY <1>1 DEF LexRun
<1>3. \A k \in 1..n : u[k] \in Symbols
  BY TextForm
<1>4. <<>> \in Seq(Seq(Symbols)) /\ Like(SimpleLexed, SimpleLexed, <<>>)
  <2>1. <<>> \o <<>> = <<>>
    OBVIOUS
  <2>2. QED BY <2>1, LexedForm DEF Like
<1> DEFINE T == {k \in 0..n : Tied(run[k])}
<1>5. \A k \in 0..n : Tied(run[k])
  <2>1. 0 \in T
    BY <1>2, LexedForm DEF Tied, Is
  <2>2. ASSUME NEW k \in 0..n, k \in T, k < n
        PROVE  k + 1 \in T
    <3>1. k + 1 \in 1..n /\ k + 1 \in 0..n /\ (k + 1) - 1 = k
      BY <2>2
    <3>2. Tied(run[k + 1])
      BY <1>2, <1>3, <2>2, <3>1, TiedOn
    <3>3. QED BY <3>1, <3>2
  <2> HIDE DEF T
  <2>3. \A k \in 0..n : k \in T
    <3>1. n \in Int /\ 0 \in Nat
      OBVIOUS
    <3>2. QED BY <2>1, <2>2, <3>1, Climb
  <2>4. QED BY <2>3 DEF T
<1>6. ASSUME NEW k \in 0..n, k < n, u[k + 1] \in Blanks
      PROVE  /\ Ended(run[k + 1]) = Ended(run[k])
             /\ run[k].mode = "dollar" => run[k + 1].mode = "dollar"
             /\ Like(run[k], SimpleLexed, <<>>) => Like(run[k + 1], SimpleLexed, <<>>)
  <2>1. k + 1 \in 1..n /\ (k + 1) - 1 = k
    BY <1>6
  <2>2. Reads(run[k], u[k + 1], run[k + 1])
    BY <1>2, <2>1
  <2>3. QED BY <1>2, <1>5, <1>6, <2>2, BlankEnds
<1>7. ASSUME NEW a \in 0..n, \A k \in 1..n : k <= a => u[k] \in Blanks
      PROVE  Like(run[a], SimpleLexed, <<>>)
  <2> DEFINE G == {k \in 0..a : Like(run[k], SimpleLexed, <<>>)}
  <2>1. 0 \in G
    BY <1>2, <1>4
  <2>2. ASSUME NEW k \in 0..a, k \in G, k < a
        PROVE  k + 1 \in G
    <3>1. k \in 0..n /\ k < n /\ k + 1 \in 1..n /\ k + 1 <= a /\ k + 1 \in 0..a
      BY <2>2
    <3>2. u[k + 1] \in Blanks
      BY <1>7, <3>1
    <3>3. QED BY <1>6, <2>2, <3>1, <3>2
  <2> HIDE DEF G
  <2>3. \A k \in 0..a : k \in G
    <3>1. a \in Int /\ 0 \in Nat
      OBVIOUS
    <3>2. QED BY <2>1, <2>2, <3>1, Climb
  <2>4. a \in G
    BY <2>3
  <2>5. QED BY <2>4 DEF G
<1>8. TrimsTo(u, Trim(u)) /\ Trim(u) \in Seq(Symbols)
  BY TrimForm
<1>9. CASE Trim(u) = <<>> /\ \A i \in 1..n : u[i] \in Blanks
  <2>1. Like(run[n], SimpleLexed, <<>>)
    BY <1>7, <1>9
  <2>2. Ended(s) = <<>> \o Ended(SimpleLexed)
    BY <1>1, <1>4, <2>1, LexedForm, LikeEnded
  <2>3. Ended(SimpleLexed) \in Seq(Seq(Symbols)) /\ SimpleLexed.mode = "code"
    BY LexedForm, EndedIs DEF Is
  <2>4. Ended(s) = Ended(SimpleLexed)
    BY <2>2, <2>3
  <2>5. QED BY <1>9, <2>3, <2>4, LexesNothing, LexedForm
<1>10. ASSUME NEW a \in 1..n, NEW b \in 1..n, a <= b, Trim(u) = SubSeq(u, a, b),
              \A i \in 1..n : i < a \/ i > b => u[i] \in Blanks
       PROVE  \E t \in LexState : /\ Lexes(Trim(u), t) /\ Ended(t) = Ended(s)
                                  /\ t.mode = "dollar" => s.mode = "dollar"
  <2>1. PICK o \in Nat : o = a - 1 /\ o \in 0..n /\ o <= b /\ o + 1 = a
    <3>1. a - 1 \in Nat /\ a - 1 \in 0..n /\ a - 1 <= b /\ (a - 1) + 1 = a
      BY <1>10
    <3>2. QED BY <3>1
  <2>2. Like(run[o], SimpleLexed, <<>>)
    <3>1. \A k \in 1..n : k <= o => u[k] \in Blanks
      BY <1>10, <2>1
    <3>2. QED BY <1>7, <2>1, <3>1
  <2> DEFINE G == {k \in o..b : \E t \in LexState : Lexes(SubSeq(u, a, k), t) /\ Like(run[k], t, <<>>)}
  <2>3. o \in G
    <3>1. SubSeq(u, a, o) = <<>> /\ o \in o..b
      BY <2>1
    <3>2. QED BY <2>2, <3>1, LexesNothing, LexedForm
  <2>4. ASSUME NEW k \in o..b, k \in G, k < b
        PROVE  k + 1 \in G
    <3>1. /\ k + 1 \in o..b /\ k + 1 \in 1..n /\ k \in 0..n /\ (k + 1) - 1 = k /\ a \in 1..(k + 1)
      BY <2>1, <2>4
    <3>2. PICK t \in LexState : Lexes(SubSeq(u, a, k), t) /\ Like(run[k], t, <<>>)
      BY <2>4
    <3> HIDE DEF G
    <3>3. PICK v \in Seq(Symbols) : v = SubSeq(u, a, k)
      <4>1. k \in 0..Len(u) /\ a \in 1..(Len(u) + 1)
        BY <3>1
      <4>2. QED BY <4>1, StatementForm
    <3>4. PICK c \in Symbols : c = u[k + 1]
      BY <1>3, <3>1
    <3>5. PICK q : q = SimpleLex(t, c) /\ Lexes(Append(v, c), q) /\ Reads(t, c, q)
      BY <3>2, <3>3, LexesMore
    <3>6. Append(v, c) = SubSeq(u, a, k + 1)
      BY <3>1, <3>3, <3>4, AppendSub
    <3>7. Reads(run[k], c, run[k + 1])
      BY <1>2, <3>1, <3>4
    <3>8. Like(run[k + 1], q, <<>>)
      BY <1>2, <1>4, <3>1, <3>2, <3>5, <3>7, LikeOn
    <3>9. q \in LexState
      BY <3>5 DEF Reads
    <3>10. QED BY <3>1, <3>5, <3>6, <3>8, <3>9 DEF G
  <2> HIDE DEF G
  <2>5. b \in G
    <3>1. b \in Int /\ b \in o..b
      BY <2>1
    <3>2. \A k \in o..b : k \in G
      BY <2>3, <2>4, <3>1, Climb
    <3>3. QED BY <3>1, <3>2
  <2>6. PICK t \in LexState : Lexes(Trim(u), t) /\ Like(run[b], t, <<>>)
    BY <1>10, <2>5 DEF G
  <2>7. run[b] \in LexState /\ run[b].mode = t.mode
    BY <1>2, <2>6 DEF Like
  <2>8. Ended(run[b]) = Ended(t)
    <3>1. PICK e \in Seq(Seq(Symbols)) : e = Ended(t)
      BY EndedIs
    <3>2. <<>> \o e = e
      OBVIOUS
    <3>3. Ended(run[b]) = <<>> \o e
      BY <1>4, <2>6, <2>7, <3>1, LikeEnded
    <3>4. QED BY <3>1, <3>2, <3>3
  <2> DEFINE H == {k \in b..n : /\ Ended(run[k]) = Ended(t)
                                /\ t.mode = "dollar" => run[k].mode = "dollar"}
  <2>9. b \in H
    <3>1. b \in b..n
      OBVIOUS
    <3>2. QED BY <2>7, <2>8, <3>1
  <2>10. ASSUME NEW k \in b..n, k \in H, k < n
         PROVE  k + 1 \in H
    <3>1. k \in 0..n /\ k + 1 \in 1..n /\ k + 1 > b /\ k + 1 \in b..n
      BY <2>10
    <3>2. u[k + 1] \in Blanks
      BY <1>10, <3>1
    <3>3. QED BY <1>6, <2>10, <3>1, <3>2
  <2> HIDE DEF H
  <2>11. n \in H
    <3>1. n \in Int /\ n \in b..n /\ b \in Nat
      OBVIOUS
    <3>2. \A k \in b..n : k \in H
      BY <2>9, <2>10, <3>1, Climb
    <3>3. QED BY <3>1, <3>2
  <2>12. Ended(s) = Ended(t) /\ (t.mode = "dollar" => s.mode = "dollar")
    BY <1>1, <2>11 DEF H
  <2>13. QED BY <2>6, <2>12
<1>11. QED BY <1>8, <1>9, <1>10 DEF TrimsTo

-----------------------------------------------------------------------------
(* The words of all statements. *)

TokensOf(statements) ==
  UNION {Range(SqlTokens(statements[j])) : j \in DOMAIN statements}

LEMMA TokensOfConcat ==
  ASSUME NEW a \in Seq(Seq(Symbols)), NEW b \in Seq(Seq(Symbols))
  PROVE  TokensOf(a \o b) = TokensOf(a) \cup TokensOf(b)
<1>1. ASSUME NEW c, NEW x
      PROVE  x \in TokensOf(c) <=> \E y \in Range(c) : x \in Range(SqlTokens(y))
  <2>1. x \in TokensOf(c) <=> \E j \in DOMAIN c : x \in Range(SqlTokens(c[j]))
    BY DEF TokensOf
  <2>2. \A y : y \in Range(c) <=> \E j \in DOMAIN c : c[j] = y
    BY DEF Range
  <2>3. QED BY <2>1, <2>2
<1>2. Range(a \o b) = Range(a) \cup Range(b)
  BY RangeOfConcat
<1>3. QED BY <1>1, <1>2

LEMMA CutTokens ==
  ASSUME NEW u \in Seq(Symbols), Clean(u), NEW s \in LexState, Lexes(u, s), s.mode # "dollar"
  PROVE  /\ Cut(u) \in Seq(Seq(Symbols))
         /\ TokensOf(Cut(u)) = Range(Ended(s))
<1>1. PICK v \in Seq(Symbols) : v = Trim(u) /\ TrimsTo(u, v)
  BY TrimForm
<1>2. PICK t \in LexState : Lexes(v, t) /\ Ended(t) = Ended(s) /\ t.mode # "dollar"
  BY <1>1, TrimLexes
<1>3. Clean(v)
  <2>1. PICK n \in Nat : n = Len(u)
    BY TextForm
  <2>2. CASE v = <<>>
    <3>1. 1..Len(v) = {}
      BY <2>2
    <3>2. QED BY <3>1 DEF Clean
  <2>3. ASSUME NEW a \in 1..n, NEW b \in 1..n, a <= b, v = SubSeq(u, a, b)
        PROVE  Clean(v)
    <3>1. a \in Nat /\ b \in Nat /\ a > 0 /\ b <= Len(u)
      BY <2>1
    <3>2. Len(v) = b - a + 1 /\ \A m \in 1..(b - a + 1) : v[m] = u[a + m - 1]
      BY <2>3, <3>1, SubForm
    <3>3. \A m \in 1..(b - a + 1) : a + m - 1 \in 1..n
      BY <2>3
    <3>4. QED BY <2>1, <3>2, <3>3 DEF Clean
  <2>4. QED BY <1>1, <2>1, <2>2, <2>3 DEF TrimsTo
<1>4. CASE v = <<>>
  <2>1. t = SimpleLexed
    BY <1>2, <1>4, LexesNothing
  <2>2. Ended(s) = <<>>
    BY <1>2, <2>1, LexedForm, EndedIs
  <2>3. Cut(u) = <<>>
    BY <1>1, <1>4 DEF Cut
  <2>4. DOMAIN <<>> = {} /\ <<>> \in Seq(Seq(Symbols))
    OBVIOUS
  <2>5. TokensOf(<<>>) = {} /\ Range(<<>>) = {}
    BY <2>4 DEF TokensOf, Range
  <2>6. QED BY <2>2, <2>3, <2>4, <2>5
<1>5. CASE v # <<>>
  <2>1. SqlTokens(v) = Ended(t)
    BY <1>2, <1>3, TokensAsLexed DEF Lexes
  <2>2. Cut(u) = <<v>>
    BY <1>1, <1>5 DEF Cut
  <2>3. DOMAIN <<v>> = {1} /\ <<v>>[1] = v /\ <<v>> \in Seq(Seq(Symbols))
    OBVIOUS
  <2>4. TokensOf(<<v>>) = Range(SqlTokens(v))
    BY <2>3 DEF TokensOf
  <2>5. QED BY <1>2, <2>1, <2>2, <2>3, <2>4
<1>6. QED BY <1>4, <1>5

(* Behind k symbols, the words read are those of the statements cut off    *)
(* and those of the one that is being read.                                *)
Collected(s) ==
  /\ Clean(s.piece)
  /\ \E t \in LexState, W \in Seq(Seq(Symbols)) :
       Lexes(s.piece, t) /\ Like(s, t, W) /\ Range(W) = TokensOf(s.pieces)

LEMMA CollectedEnded ==
  ASSUME NEW s \in LexState, Collected(s), s.mode # "dollar"
  PROVE  Range(Ended(s)) = TokensOf(s.pieces \o Cut(s.piece))
<1>1. PICK t \in LexState, W \in Seq(Seq(Symbols)) :
        Lexes(s.piece, t) /\ Like(s, t, W) /\ Range(W) = TokensOf(s.pieces)
  BY DEF Collected
<1>2. t.mode # "dollar" /\ s.piece \in Seq(Symbols) /\ s.pieces \in Seq(Seq(Symbols))
  BY <1>1, LexFields DEF Like
<1>3. Cut(s.piece) \in Seq(Seq(Symbols)) /\ TokensOf(Cut(s.piece)) = Range(Ended(t))
  BY <1>1, <1>2, CutTokens DEF Collected
<1>4. Ended(s) = W \o Ended(t) /\ Ended(t) \in Seq(Seq(Symbols))
  BY <1>1, LikeEnded, EndedIs
<1>5. Range(Ended(s)) = Range(W) \cup Range(Ended(t))
  BY <1>4, RangeOfConcat
<1>6. TokensOf(s.pieces \o Cut(s.piece)) = TokensOf(s.pieces) \cup TokensOf(Cut(s.piece))
  BY <1>2, <1>3, TokensOfConcat
<1>7. QED BY <1>1, <1>3, <1>5, <1>6

LEMMA CollectedOn ==
  ASSUME NEW s \in LexState, Collected(s), NEW c \in Symbols, c \notin {"cr", "bq"},
         NEW r, Reads(s, c, r)
  PROVE  Collected(r)
<1>1. r \in LexState /\ s.piece \in Seq(Symbols) /\ s.pieces \in Seq(Seq(Symbols))
  BY LexFields DEF Reads
<1>2. CASE s.mode = "code" /\ c = ";"
  <2>1. /\ CodeMode(s, c, r) /\ CodeWord(s, c, r)
        /\ r.pieces = s.pieces \o Cut(s.piece) /\ r.piece = <<>>
    BY <1>2, Zenon DEF Reads
  <2>2. c \notin WordSymbols \cup {"'", "dq", "$", "-", "*", "/"}
    BY <1>2 DEF WordSymbols, Letters
  <2>3. Is(r, "code", c, <<>>) /\ WordEnded(s, r)
    <3>1. Is(r, "code", c, <<>>)
      <4>1. /\ c \notin WordSymbols \cup {"'", "dq", "$"}
            /\ ~ (c = "-" /\ s.prev = "-") /\ ~ (c = "*" /\ s.prev = "/")
        BY <2>2
      <4>2. QED BY <2>1, <4>1, Zenon DEF CodeMode
    <3>2. WordEnded(s, r)
      BY <2>1, <2>2 DEF CodeWord
    <3>3. QED BY <3>1, <3>2
  <2>4. PICK W \in Seq(Seq(Symbols)) : W = Ended(s)
    BY EndedIs
  <2>5. W \o <<>> = W
    OBVIOUS
  <2>6. Like(r, SimpleLexed, W)
    <3>1. r.word = <<>> /\ r.words = W
      BY <2>3, <2>4 DEF WordEnded, Ended
    <3>2. Absent # "-" /\ Absent # "/" /\ c # "-" /\ c # "/"
      BY <2>2, TextAssumption DEF Symbols
    <3>3. /\ r.mode = "code" /\ SimpleLexed.mode = "code" /\ r.tag = <<>> /\ SimpleLexed.tag = <<>>
          /\ r.prev = c /\ SimpleLexed.prev = Absent
      BY <2>3, LexedForm DEF Is
    <3>4. QED BY <2>5, <3>1, <3>2, <3>3, LexedForm DEF Like
  <2>7. Range(W) = TokensOf(r.pieces)
    BY <1>2, <2>1, <2>4, CollectedEnded
  <2>8. Clean(r.piece)
    <3>1. 1..Len(<<>>) = {}
      OBVIOUS
    <3>2. QED BY <2>1, <3>1 DEF Clean
  <2>9. Lexes(r.piece, SimpleLexed) /\ SimpleLexed \in LexState
    BY <2>1, LexesNothing, LexedForm
  <2>10. QED BY <2>6, <2>7, <2>8, <2>9 DEF Collected
<1>3. CASE ~ (s.mode = "code" /\ c = ";")
  <2>1. r.pieces = s.pieces /\ r.piece = Append(s.piece, c)
    BY <1>3, Zenon DEF Reads
  <2>2. PICK t \in LexState, W \in Seq(Seq(Symbols)) :
          Lexes(s.piece, t) /\ Like(s, t, W) /\ Range(W) = TokensOf(s.pieces)
    BY DEF Collected
  <2>3. PICK q : q = SimpleLex(t, c) /\ Lexes(r.piece, q) /\ Reads(t, c, q)
    BY <1>1, <2>1, <2>2, LexesMore
  <2>4. q \in LexState /\ Like(r, q, W)
    <3>1. q \in LexState
      BY <2>3 DEF Reads
    <3>2. QED BY <2>2, <2>3, <3>1, LikeOn
  <2>5. Clean(r.piece)
    <3>1. PICK u \in Seq(Symbols) : u = s.piece
      BY <1>1
    <3>2. PICK n \in Nat : n = Len(u)
      BY TextForm
    <3>3. Len(Append(u, c)) = n + 1 /\ Append(u, c)[n + 1] = c
      BY <3>2
    <3>4. \A m \in 1..n : Append(u, c)[m] = u[m]
      BY <3>2
    <3>5. \A m \in 1..(n + 1) : m \in 1..n \/ m = n + 1
      OBVIOUS
    <3>6. \A m \in 1..n : u[m] \notin {"cr", "bq"}
      BY <3>1, <3>2 DEF Collected, Clean
    <3>7. QED BY <2>1, <3>1, <3>3, <3>4, <3>5, <3>6 DEF Clean
  <2>6. QED BY <2>1, <2>2, <2>3, <2>4, <2>5 DEF Collected
<1>4. QED BY <1>2, <1>3

LEMMA WordsAreTokens ==
  ASSUME NEW text \in Seq(Symbols), Clean(text), SimpleReference(text).mode # "dollar"
  PROVE  Range(SimpleReference(text).words) = TokensOf(SplitSqlStatements(text))
<1> PICK n \in Nat : n = Len(text)
  BY TextForm
<1>1. PICK run : LexRun(run, text) /\ run[n] = FoldLeft(SimpleLex, SimpleLexed, text)
  BY LexRuns
<1>2. /\ run[0] = SimpleLexed /\ \A k \in 0..n : run[k] \in LexState
      /\ \A k \in 1..n : Reads(run[k - 1], text[k], run[k])
  BY <1>1 DEF LexRun
<1> DEFINE G == {k \in 0..n : Collected(run[k])}
<1>3. 0 \in G
  <2>1. <<>> \o <<>> = <<>> /\ <<>> \in Seq(Seq(Symbols)) /\ DOMAIN <<>> = {} /\ 1..Len(<<>>) = {}
    OBVIOUS
  <2>2. Like(SimpleLexed, SimpleLexed, <<>>)
    BY <2>1, LexedForm DEF Like
  <2>3. Range(<<>>) = TokensOf(<<>>)
    BY <2>1 DEF Range, TokensOf
  <2>4. Clean(<<>>)
    BY <2>1 DEF Clean
  <2>5. Collected(SimpleLexed)
    BY <2>1, <2>2, <2>3, <2>4, LexesNothing, LexedForm DEF Collected
  <2>6. QED BY <1>2, <2>5
<1>4. ASSUME NEW k \in 0..n, k \in G, k < n
      PROVE  k + 1 \in G
  <2>1. k + 1 \in 1..n /\ k + 1 \in 0..n /\ (k + 1) - 1 = k
    BY <1>4
  <2>2. text[k + 1] \in Symbols /\ text[k + 1] \notin {"cr", "bq"}
    BY <2>1, TextForm DEF Clean
  <2>3. Collected(run[k + 1])
    BY <1>2, <1>4, <2>1, <2>2, CollectedOn
  <2>4. QED BY <2>1, <2>3
<1> HIDE DEF G
<1>5. n \in G
  <2>1. n \in Int /\ n \in 0..n
    OBVIOUS
  <2>2. \A k \in 0..n : k \in G
    BY <1>3, <1>4, <2>1, Climb
  <2>3. QED BY <2>1, <2>2
<1>6. Collected(run[n]) /\ run[n] \in LexState
  BY <1>2, <1>5 DEF G
<1>7. /\ SimpleReference(text).mode = run[n].mode
      /\ SimpleReference(text).pieces = run[n].pieces \o Cut(run[n].piece)
      /\ SimpleReference(text).words = Ended(run[n])
  BY <1>1, ReferenceIs
<1>8. Range(Ended(run[n])) = TokensOf(run[n].pieces \o Cut(run[n].piece))
  BY <1>6, <1>7, CollectedEnded
<1>9. QED BY <1>7, <1>8, SplitsByReference

LEMMA HasWordIs ==
  ASSUME NEW text, NEW words
  PROVE  HasWord(text, words) <=> TokensOf(SplitSqlStatements(text)) \cap words # {}
<1>1. PICK statements : statements = SplitSqlStatements(text)
  OBVIOUS
<1>2. HasWord(text, words) <=>
        \E j \in DOMAIN statements : Range(SqlTokens(statements[j])) \cap words # {}
  BY <1>1, Zenon DEF HasWord
<1>3. (\E j \in DOMAIN statements : Range(SqlTokens(statements[j])) \cap words # {})
        <=> TokensOf(statements) \cap words # {}
  BY DEF TokensOf
<1>4. QED BY <1>1, <1>2, <1>3

-----------------------------------------------------------------------------
(* The records of the reference lexer, over any sets, and the changes that *)
(* it makes to them.                                                       *)

ReadModes == Modes \cup {"]", "bq"}
Vocabulary == SUBSET Seq(Symbols)
ReadState ==
  [mode : ReadModes, prev : Previous, tag : Text, tail : Text, depth : Int, piece : Text,
   pieces : Parts, word : Text, words : Vocabulary, named : Vocabulary, beyond : BOOLEAN]
ReadFields(r, m, p, t, l, k, u, x, v, w, z, b) ==
  /\ r.mode = m /\ r.prev = p /\ r.tag = t /\ r.tail = l /\ r.depth = k
  /\ r.piece = u /\ r.pieces = x /\ r.word = v
  /\ r.words = w /\ r.named = z /\ r.beyond = b

SetNamed(s, z, v) ==
  [s EXCEPT !.named = z, !.word = v]
SetWord(s, v) ==
  [s EXCEPT !.word = v]
SetDepth(s, k) ==
  [s EXCEPT !.depth = k]
SetMark(s, t, p, b) ==
  [s EXCEPT !.tag = t, !.prev = p, !.beyond = b]
SetBeyond(s, b) ==
  [s EXCEPT !.beyond = b]
SetNest(s, k, p) ==
  [s EXCEPT !.depth = k, !.prev = p]
SetDeeper(s, k, p, b) ==
  [s EXCEPT !.depth = k, !.prev = p, !.beyond = b]
SetLine(s, p, b) ==
  [s EXCEPT !.prev = p, !.beyond = b]

LEMMA ReadStateFields ==
  ASSUME NEW s \in ReadState
  PROVE  /\ s.mode \in ReadModes /\ s.prev \in Symbols \cup {Absent} /\ s.depth \in Int
         /\ s.tag \in Seq(Symbols) /\ s.tail \in Seq(Symbols)
         /\ s.piece \in Seq(Symbols) /\ s.pieces \in Seq(Seq(Symbols))
         /\ s.word \in Seq(Symbols) /\ s.beyond \in BOOLEAN
         /\ s.words \in SUBSET Seq(Symbols) /\ s.named \in SUBSET Seq(Symbols)
BY DEF ReadState, Previous, Text, Parts, Vocabulary

LEMMA ReadSetWordsForm ==
  ASSUME NEW s \in ReadState, NEW w \in SUBSET Seq(Symbols), NEW v \in Seq(Symbols),
         NEW r, r = SetWords(s, w, v)
  PROVE  r \in ReadState /\ ReadFields(r, s.mode, s.prev, s.tag, s.tail, s.depth, s.piece, s.pieces, v, w, s.named, s.beyond)
<1>1. w \in Vocabulary /\ v \in Text
  BY Zenon DEF Vocabulary, Text
<1>2. QED BY <1>1 DEF ReadState, ReadFields, SetWords

LEMMA ReadSetPiecesForm ==
  ASSUME NEW s \in ReadState, NEW x \in Seq(Seq(Symbols)), NEW u \in Seq(Symbols),
         NEW r, r = SetPieces(s, x, u)
  PROVE  r \in ReadState /\ ReadFields(r, s.mode, s.prev, s.tag, s.tail, s.depth, u, x, s.word, s.words, s.named, s.beyond)
<1>1. x \in Parts /\ u \in Text
  BY Zenon DEF Parts, Text
<1>2. QED BY <1>1 DEF ReadState, ReadFields, SetPieces

LEMMA ReadSetModeForm ==
  ASSUME NEW s \in ReadState, NEW m \in ReadModes, NEW p \in Symbols \cup {Absent}, NEW t \in Seq(Symbols),
         NEW r, r = SetMode(s, m, p, t)
  PROVE  r \in ReadState /\ ReadFields(r, m, p, t, s.tail, s.depth, s.piece, s.pieces, s.word, s.words, s.named, s.beyond)
<1>1. p \in Previous /\ t \in Text
  BY Zenon DEF Previous, Text
<1>2. QED BY <1>1 DEF ReadState, ReadFields, SetMode

LEMMA ReadSetDollarForm ==
  ASSUME NEW s \in ReadState, NEW m \in ReadModes, NEW p \in Symbols \cup {Absent}, NEW t \in Seq(Symbols), NEW l \in Seq(Symbols), NEW v \in Seq(Symbols),
         NEW r, r = SetDollar(s, m, p, t, l, v)
  PROVE  r \in ReadState /\ ReadFields(r, m, p, t, l, s.depth, s.piece, s.pieces, v, s.words, s.named, s.beyond)
<1>1. p \in Previous /\ t \in Text /\ l \in Text /\ v \in Text
  BY Zenon DEF Previous, Text
<1>2. QED BY <1>1 DEF ReadState, ReadFields, SetDollar

LEMMA ReadSetTagForm ==
  ASSUME NEW s \in ReadState, NEW t \in Seq(Symbols), NEW p \in Symbols \cup {Absent},
         NEW r, r = SetTag(s, t, p)
  PROVE  r \in ReadState /\ ReadFields(r, s.mode, p, t, s.tail, s.depth, s.piece, s.pieces, s.word, s.words, s.named, s.beyond)
<1>1. t \in Text /\ p \in Previous
  BY Zenon DEF Text, Previous
<1>2. QED BY <1>1 DEF ReadState, ReadFields, SetTag

LEMMA ReadSetPrevForm ==
  ASSUME NEW s \in ReadState, NEW p \in Symbols \cup {Absent},
         NEW r, r = SetPrev(s, p)
  PROVE  r \in ReadState /\ ReadFields(r, s.mode, p, s.tag, s.tail, s.depth, s.piece, s.pieces, s.word, s.words, s.named, s.beyond)
<1>1. p \in Previous
  BY Zenon DEF Previous
<1>2. QED BY <1>1 DEF ReadState, ReadFields, SetPrev

LEMMA ReadSetTailForm ==
  ASSUME NEW s \in ReadState, NEW l \in Seq(Symbols),
         NEW r, r = SetTail(s, l)
  PROVE  r \in ReadState /\ ReadFields(r, s.mode, s.prev, s.tag, l, s.depth, s.piece, s.pieces, s.word, s.words, s.named, s.beyond)
<1>1. l \in Text
  BY Zenon DEF Text
<1>2. QED BY <1>1 DEF ReadState, ReadFields, SetTail

LEMMA ReadSetPieceForm ==
  ASSUME NEW s \in ReadState, NEW u \in Seq(Symbols),
         NEW r, r = SetPiece(s, u)
  PROVE  r \in ReadState /\ ReadFields(r, s.mode, s.prev, s.tag, s.tail, s.depth, u, s.pieces, s.word, s.words, s.named, s.beyond)
<1>1. u \in Text
  BY Zenon DEF Text
<1>2. QED BY <1>1 DEF ReadState, ReadFields, SetPiece

LEMMA ReadSetNamedForm ==
  ASSUME NEW s \in ReadState, NEW z \in SUBSET Seq(Symbols), NEW v \in Seq(Symbols),
         NEW r, r = SetNamed(s, z, v)
  PROVE  r \in ReadState /\ ReadFields(r, s.mode, s.prev, s.tag, s.tail, s.depth, s.piece, s.pieces, v, s.words, z, s.beyond)
<1>1. z \in Vocabulary /\ v \in Text
  BY Zenon DEF Vocabulary, Text
<1>2. QED BY <1>1 DEF ReadState, ReadFields, SetNamed

LEMMA ReadSetWordForm ==
  ASSUME NEW s \in ReadState, NEW v \in Seq(Symbols),
         NEW r, r = SetWord(s, v)
  PROVE  r \in ReadState /\ ReadFields(r, s.mode, s.prev, s.tag, s.tail, s.depth, s.piece, s.pieces, v, s.words, s.named, s.beyond)
<1>1. v \in Text
  BY Zenon DEF Text
<1>2. QED BY <1>1 DEF ReadState, ReadFields, SetWord

LEMMA ReadSetDepthForm ==
  ASSUME NEW s \in ReadState, NEW k \in Int,
         NEW r, r = SetDepth(s, k)
  PROVE  r \in ReadState /\ ReadFields(r, s.mode, s.prev, s.tag, s.tail, k, s.piece, s.pieces, s.word, s.words, s.named, s.beyond)
BY DEF ReadState, ReadFields, SetDepth

LEMMA ReadSetMarkForm ==
  ASSUME NEW s \in ReadState, NEW t \in Seq(Symbols), NEW p \in Symbols \cup {Absent}, NEW b \in BOOLEAN,
         NEW r, r = SetMark(s, t, p, b)
  PROVE  r \in ReadState /\ ReadFields(r, s.mode, p, t, s.tail, s.depth, s.piece, s.pieces, s.word, s.words, s.named, b)
<1>1. t \in Text /\ p \in Previous
  BY Zenon DEF Text, Previous
<1>2. QED BY <1>1 DEF ReadState, ReadFields, SetMark

LEMMA ReadSetBeyondForm ==
  ASSUME NEW s \in ReadState, NEW b \in BOOLEAN,
         NEW r, r = SetBeyond(s, b)
  PROVE  r \in ReadState /\ ReadFields(r, s.mode, s.prev, s.tag, s.tail, s.depth, s.piece, s.pieces, s.word, s.words, s.named, b)
BY DEF ReadState, ReadFields, SetBeyond

LEMMA ReadSetNestForm ==
  ASSUME NEW s \in ReadState, NEW k \in Int, NEW p \in Symbols \cup {Absent},
         NEW r, r = SetNest(s, k, p)
  PROVE  r \in ReadState /\ ReadFields(r, s.mode, p, s.tag, s.tail, k, s.piece, s.pieces, s.word, s.words, s.named, s.beyond)
<1>1. p \in Previous
  BY Zenon DEF Previous
<1>2. QED BY <1>1 DEF ReadState, ReadFields, SetNest

LEMMA ReadSetDeeperForm ==
  ASSUME NEW s \in ReadState, NEW k \in Int, NEW p \in Symbols \cup {Absent}, NEW b \in BOOLEAN,
         NEW r, r = SetDeeper(s, k, p, b)
  PROVE  r \in ReadState /\ ReadFields(r, s.mode, p, s.tag, s.tail, k, s.piece, s.pieces, s.word, s.words, s.named, b)
<1>1. p \in Previous
  BY Zenon DEF Previous
<1>2. QED BY <1>1 DEF ReadState, ReadFields, SetDeeper

LEMMA ReadSetLineForm ==
  ASSUME NEW s \in ReadState, NEW p \in Symbols \cup {Absent}, NEW b \in BOOLEAN,
         NEW r, r = SetLine(s, p, b)
  PROVE  r \in ReadState /\ ReadFields(r, s.mode, p, s.tag, s.tail, s.depth, s.piece, s.pieces, s.word, s.words, s.named, b)
<1>1. p \in Previous
  BY Zenon DEF Previous
<1>2. QED BY <1>1 DEF ReadState, ReadFields, SetLine

(* What an operator leaves alone, and what becomes of the word that is     *)
(* being read.                                                             *)
Seen(s) == s.words \cup s.named
LeftAlone(s, r) ==
  /\ SameText(s, r) /\ Is(r, s.mode, s.prev, s.tag)
  /\ r.depth = s.depth /\ r.tail = s.tail /\ r.beyond = s.beyond
Stops(s, r) == r.word = <<>> /\ Seen(r) = Seen(s) \cup (IF s.word = <<>> THEN {} ELSE {s.word})
GoesOn(s, c, r) ==
  /\ Seen(r) = Seen(s)
  /\ r.word = IF s.word # <<>> \/ c \in Letters THEN Append(s.word, c) ELSE s.word

LEMMA EndWordRead ==
  ASSUME NEW s \in ReadState
  PROVE  EndWord(s) \in ReadState /\ LeftAlone(s, EndWord(s)) /\ Stops(s, EndWord(s))
<1>1. CASE s.word = <<>>
  <2>1. EndWord(s) = s
    BY <1>1 DEF EndWord
  <2>2. QED BY <1>1, <2>1 DEF LeftAlone, Stops, Is, SameText
<1>2. CASE s.word # <<>> /\ s.mode \in {"]", "bq"}
  <2>1. PICK z, e : z = s.named \cup {s.word} /\ e = <<>>
    OBVIOUS
  <2>2. z \in SUBSET Seq(Symbols) /\ e \in Seq(Symbols)
    BY <2>1, ReadStateFields
  <2>3. EndWord(s) = SetNamed(s, z, e)
    BY <1>2, <2>1 DEF EndWord, SetNamed
  <2>4. PICK r : r = EndWord(s)
    OBVIOUS
  <2>5. /\ r \in ReadState
        /\ ReadFields(r, s.mode, s.prev, s.tag, s.tail, s.depth, s.piece, s.pieces, e, s.words, z, s.beyond)
    BY <2>2, <2>3, <2>4, ReadSetNamedForm
  <2>6. LeftAlone(s, r)
    BY <2>5 DEF LeftAlone, Is, SameText, ReadFields
  <2>7. Stops(s, r)
    BY <1>2, <2>1, <2>5 DEF Stops, Seen, ReadFields
  <2>8. QED BY <2>4, <2>5, <2>6, <2>7
<1>3. CASE s.word # <<>> /\ s.mode \notin {"]", "bq"}
  <2>1. PICK w, e : w = s.words \cup {s.word} /\ e = <<>>
    OBVIOUS
  <2>2. w \in SUBSET Seq(Symbols) /\ e \in Seq(Symbols)
    BY <2>1, ReadStateFields
  <2>3. EndWord(s) = SetWords(s, w, e)
    BY <1>3, <2>1 DEF EndWord, SetWords
  <2>4. PICK r : r = EndWord(s)
    OBVIOUS
  <2>5. /\ r \in ReadState
        /\ ReadFields(r, s.mode, s.prev, s.tag, s.tail, s.depth, s.piece, s.pieces, e, w, s.named, s.beyond)
    BY <2>2, <2>3, <2>4, ReadSetWordsForm
  <2>6. LeftAlone(s, r)
    BY <2>5 DEF LeftAlone, Is, SameText, ReadFields
  <2>7. Stops(s, r)
    BY <1>3, <2>1, <2>5 DEF Stops, Seen, ReadFields
  <2>8. QED BY <2>4, <2>5, <2>6, <2>7
<1>4. QED BY <1>1, <1>2, <1>3

LEMMA ReadWordRead ==
  ASSUME NEW s \in ReadState, NEW c \in Symbols
  PROVE  /\ ReadWord(s, c) \in ReadState /\ LeftAlone(s, ReadWord(s, c))
         /\ IF c \in WordSymbols THEN GoesOn(s, c, ReadWord(s, c)) ELSE Stops(s, ReadWord(s, c))
<1>1. CASE c \notin WordSymbols
  <2>1. ReadWord(s, c) = EndWord(s)
    BY <1>1, Zenon DEF ReadWord
  <2>2. QED BY <1>1, <2>1, EndWordRead
<1>2. CASE c \in WordSymbols /\ (s.word # <<>> \/ c \in Letters)
  <2>1. PICK v : v = Append(s.word, c)
    OBVIOUS
  <2>2. v \in Seq(Symbols)
    BY <2>1, ReadStateFields
  <2>3. ReadWord(s, c) = SetWord(s, v)
    BY <1>2, <2>1, Zenon DEF ReadWord, SetWord
  <2>4. PICK r : r = ReadWord(s, c)
    OBVIOUS
  <2>5. /\ r \in ReadState
        /\ ReadFields(r, s.mode, s.prev, s.tag, s.tail, s.depth, s.piece, s.pieces, v, s.words, s.named, s.beyond)
    BY <2>2, <2>3, <2>4, ReadSetWordForm
  <2>6. LeftAlone(s, r) /\ GoesOn(s, c, r)
    BY <1>2, <2>1, <2>5 DEF LeftAlone, Is, SameText, ReadFields, GoesOn, Seen
  <2>7. QED BY <1>2, <2>4, <2>5, <2>6
<1>3. CASE c \in WordSymbols /\ ~ (s.word # <<>> \/ c \in Letters)
  <2>1. ReadWord(s, c) = s
    BY <1>3, Zenon DEF ReadWord
  <2>2. LeftAlone(s, s) /\ GoesOn(s, c, s)
    BY <1>3 DEF LeftAlone, Is, SameText, GoesOn, Seen
  <2>3. QED BY <1>3, <2>1, <2>2
<1>4. QED BY <1>1, <1>2, <1>3

LEMMA EnterRead ==
  ASSUME NEW s \in ReadState, NEW mode \in ReadModes
  PROVE  /\ Enter(s, mode) \in ReadState /\ SameText(s, Enter(s, mode)) /\ Stops(s, Enter(s, mode))
         /\ Is(Enter(s, mode), mode, Absent, <<>>) /\ Enter(s, mode).beyond = s.beyond
<1>1. PICK e \in ReadState : e = EndWord(s) /\ LeftAlone(s, e) /\ Stops(s, e)
  BY EndWordRead
<1>2. PICK r, t : r = Enter(s, mode) /\ t = <<>>
  OBVIOUS
<1>3. t \in Seq(Symbols) /\ Absent \in Symbols \cup {Absent}
  BY <1>2
<1>4. r = SetMode(e, mode, Absent, t)
  BY <1>1, <1>2, Zenon DEF Enter, SetMode
<1>5. /\ r \in ReadState
      /\ ReadFields(r, mode, Absent, t, e.tail, e.depth, e.piece, e.pieces, e.word, e.words, e.named, e.beyond)
  BY <1>3, <1>4, ReadSetModeForm
<1>6. SameText(s, r) /\ Is(r, mode, Absent, <<>>) /\ r.beyond = s.beyond
  BY <1>1, <1>2, <1>5 DEF LeftAlone, Is, SameText, ReadFields
<1>7. Stops(s, r)
  BY <1>1, <1>5 DEF Stops, Seen, ReadFields
<1>8. QED BY <1>2, <1>5, <1>6, <1>7

LEMMA LeaveRead ==
  ASSUME NEW s \in ReadState
  PROVE  /\ Leave(s) \in ReadState /\ SameText(s, Leave(s)) /\ Is(Leave(s), "code", Absent, <<>>)
         /\ Leave(s).word = s.word /\ Seen(Leave(s)) = Seen(s) /\ Leave(s).beyond = s.beyond
<1>1. PICK r, t : r = Leave(s) /\ t = <<>>
  OBVIOUS
<1>2. t \in Seq(Symbols) /\ Absent \in Symbols \cup {Absent} /\ "code" \in ReadModes
  BY <1>1 DEF ReadModes, Modes
<1>3. r = SetMode(s, "code", Absent, t)
  BY <1>1, Zenon DEF Leave, SetMode
<1>4. /\ r \in ReadState
      /\ ReadFields(r, "code", Absent, t, s.tail, s.depth, s.piece, s.pieces, s.word, s.words, s.named, s.beyond)
  BY <1>2, <1>3, ReadSetModeForm
<1>5. QED BY <1>1, <1>4 DEF Is, SameText, ReadFields, Seen

-----------------------------------------------------------------------------
(* A reference lexer that met nothing beyond that of query.rs reads as it  *)
(* does.  In a bracketed or back-quoted name the other is in code.         *)

NameModes == {"]", "bq"}
SeenAlike(n, o) == o.word = n.word /\ Range(o.words) = Seen(n)
TagsAlike(n, o) == o.tag = n.tag \/ (n.tag = <<>> /\ n.prev \in WordSymbols)
PrevsAlike(n, o) == o.prev = n.prev \/ (n.prev \notin {"-", "/"} /\ o.prev \notin {"-", "/"})
ReadAlike(n, o) ==
  /\ SeenAlike(n, o)
  /\ n.mode \in NameModes => o.mode = "code" /\ o.tag = <<>> /\ o.prev \notin {"-", "/"}
  /\ n.mode \notin NameModes => o.mode = n.mode
  /\ n.mode = "code" => TagsAlike(n, o) /\ PrevsAlike(n, o)
  /\ n.mode = "block" => o.prev = n.prev /\ n.depth = 1
  /\ n.mode = "dollar" => o.tag = n.tag /\ o.tail = n.tail

(* What a step of the reference lexer does to a state that is alike. *)
StaysAlike(s, x, p) ==
  /\ x \in ReadState /\ SameText(s, x)
  /\ s.beyond => x.beyond
  /\ x.beyond \/ ReadAlike(x, p)

LEMMA StopsAlike ==
  ASSUME NEW s, NEW x, NEW o \in LexState, NEW p,
         SeenAlike(s, o), Stops(s, x), WordEnded(o, p)
  PROVE  SeenAlike(x, p)
<1>1. PICK ended : ended = IF o.word = <<>> THEN <<>> ELSE <<o.word>>
  OBVIOUS
<1>2. ended \in Seq(Seq(Symbols)) /\ o.words \in Seq(Seq(Symbols))
  BY <1>1, LexFields
<1>3. Range(o.words \o ended) = Range(o.words) \cup Range(ended)
  BY <1>2, RangeOfConcat
<1>4. Range(ended) = IF o.word = <<>> THEN {} ELSE {o.word}
  BY <1>1 DEF Range
<1>5. p.words = o.words \o ended /\ p.word = <<>>
  BY <1>1 DEF WordEnded
<1>6. QED BY <1>3, <1>4, <1>5 DEF SeenAlike, Stops

(* What the reference lexer does with a symbol in code. *)
InCodeIs(d, s, c, x) ==
  /\ c \in {"'", "dq"} \cup (d.names \ {"]"}) => x = Enter(s, c)
  /\ "]" \in d.names /\ (c = "[" \/ (c = "]" /\ s.prev = "]"))
       => x = Enter(s, "]")
  /\ c = "-" /\ s.prev = "-" => x = Enter(s, "line")
  /\ c = "*" /\ s.prev = "/" => x = SetDepth(Enter(s, "block"), 1)
  /\ c = "$" /\ s.tag # <<>> /\ d.dollars =>
       x = SetDollar(s, "dollar", Absent, Append(s.tag, c), <<>>, <<>>)
  /\ c = "$" /\ ~ (s.tag # <<>> /\ d.dollars) =>
       x =
         SetMark(EndWord(s), <<c>>, c, EndWord(s).beyond \/ s.tag # <<>> \/ s.prev \in WordSymbols)
  /\ c \in WordSymbols =>
       x =
         SetTag(ReadWord(s, c),
                IF ReadWord(s, c).tag = <<>> \/ (ReadWord(s, c).tag = <<"$">> /\ c \notin Letters)
                THEN <<>> ELSE Append(ReadWord(s, c).tag, c), c)
  /\ /\ c \notin WordSymbols \cup {"'", "dq", "$"} \cup (d.names \ {"]"})
     /\ ~ ("]" \in d.names /\ (c = "[" \/ (c = "]" /\ s.prev = "]")))
     /\ ~ (c = "-" /\ s.prev = "-") /\ ~ (c = "*" /\ s.prev = "/")
     => x = SetTag(EndWord(s), <<>>, c)

LEMMA ReadCases ==
  ASSUME NEW d, NEW s, NEW c, d.names \subseteq NameModes
  PROVE  InCodeIs(d, s, c, InCode(d, s, c))
<1>0. PICK x : x = InCode(d, s, c)
  OBVIOUS
<1>1. PICK quotes : quotes = {"'", "dq"} \cup (d.names \ {"]"})
  OBVIOUS
<1>2. quotes \subseteq {"'", "dq", "bq"}
  BY <1>1 DEF NameModes
<1>3. CASE c \in quotes
  <2>1. c \notin WordSymbols /\ c \notin {"[", "]", "-", "*", "$"}
    BY <1>2, <1>3 DEF WordSymbols, Letters
  <2>2. QED BY <1>0, <1>1, <1>3, <2>1, Zenon DEF InCode, InCodeIs, SetDepth, SetDollar, SetMark, SetTag
<1>4. CASE c \in {"[", "]"}
  <2>1. c \notin WordSymbols /\ c \notin quotes /\ c \notin {"-", "*", "$"} /\ c \notin {"'", "dq"}
    BY <1>2, <1>4 DEF WordSymbols, Letters
  <2>2. QED BY <1>0, <1>1, <1>4, <2>1, Zenon DEF InCode, InCodeIs, SetDepth, SetDollar, SetMark, SetTag
<1>5. CASE c = "-"
  <2>1. c \notin WordSymbols /\ c \notin quotes /\ c # "[" /\ c # "]" /\ c # "*" /\ c # "$"
    BY <1>2, <1>5 DEF WordSymbols, Letters
  <2>2. QED BY <1>0, <1>1, <1>5, <2>1, Zenon DEF InCode, InCodeIs, SetDepth, SetDollar, SetMark, SetTag
<1>6. CASE c = "*"
  <2>1. c \notin WordSymbols /\ c \notin quotes /\ c # "[" /\ c # "]" /\ c # "-" /\ c # "$"
    BY <1>2, <1>6 DEF WordSymbols, Letters
  <2>2. QED BY <1>0, <1>1, <1>6, <2>1, Zenon DEF InCode, InCodeIs, SetDepth, SetDollar, SetMark, SetTag
<1>7. CASE c = "$"
  <2>1. c \notin WordSymbols /\ c \notin quotes /\ c # "[" /\ c # "]" /\ c # "-" /\ c # "*"
    BY <1>2, <1>7 DEF WordSymbols, Letters
  <2>2. CASE s.tag # <<>> /\ d.dollars
    BY <1>0, <1>1, <1>7, <2>1, <2>2, Zenon DEF InCode, InCodeIs, SetDepth, SetDollar, SetMark, SetTag
  <2>3. CASE ~ (s.tag # <<>> /\ d.dollars)
    BY <1>0, <1>1, <1>7, <2>1, <2>3, Zenon DEF InCode, InCodeIs, SetDepth, SetDollar, SetMark, SetTag
  <2>4. QED BY <2>2, <2>3
<1>8. CASE c \in WordSymbols
  <2>1. c \notin quotes /\ c # "[" /\ c # "]" /\ c # "-" /\ c # "*" /\ c # "$"
    BY <1>2, <1>8 DEF WordSymbols, Letters
  <2>2. QED BY <1>0, <1>1, <1>8, <2>1, Zenon DEF InCode, InCodeIs, SetDepth, SetDollar, SetMark, SetTag
<1>9. CASE c \notin WordSymbols \cup quotes \cup {"[", "]", "-", "*", "$"}
  <2>1. c \notin WordSymbols /\ c \notin quotes /\ c # "[" /\ c # "]" /\ c # "-" /\ c # "*" /\ c # "$"
    BY <1>9
  <2>2. QED BY <1>0, <1>1, <2>1, Zenon DEF InCode, InCodeIs, SetDepth, SetDollar, SetMark, SetTag
<1>10. QED BY <1>0, <1>3, <1>4, <1>5, <1>6, <1>7, <1>8, <1>9

LEMMA InCodeAlike ==
  ASSUME NEW d, d.names \subseteq NameModes, NEW s \in ReadState, NEW o \in LexState, NEW c \in Symbols,
         NEW p, s.mode = "code", ReadAlike(s, o), CodeMode(o, c, p), CodeWord(o, c, p)
  PROVE  StaysAlike(s, InCode(d, s, c), p)
<1>1. PICK x : x = InCode(d, s, c)
  OBVIOUS
<1>0. InCodeIs(d, s, c, x)
  BY <1>1, ReadCases
<1>2. PICK e \in ReadState : e = EndWord(s) /\ LeftAlone(s, e) /\ Stops(s, e)
  BY EndWordRead
<1>3. PICK w \in ReadState : /\ w = ReadWord(s, c) /\ LeftAlone(s, w)
                             /\ c \in WordSymbols => GoesOn(s, c, w)
  BY ReadWordRead
<1>4. /\ SeenAlike(s, o) /\ TagsAlike(s, o) /\ PrevsAlike(s, o) /\ o.mode = "code"
  BY DEF ReadAlike, NameModes
<1>5. s.tag \in Seq(Symbols) /\ s.prev \in Symbols \cup {Absent} /\ s.beyond \in BOOLEAN
  BY ReadStateFields
<1>6. Absent \notin Symbols /\ "-" \in Symbols /\ "/" \in Symbols /\ "$" \in Symbols
  BY TextAssumption DEF Symbols
<1>7. ASSUME NEW mode \in ReadModes, c \notin WordSymbols, c # "$", x = Enter(s, mode),
             IF mode \in NameModes THEN Is(p, "code", c, <<>>) /\ c \notin {"-", "/"}
             ELSE mode # "code" /\ mode # "block" /\ mode # "dollar" /\ Is(p, mode, Absent, <<>>)
      PROVE  StaysAlike(s, x, p)
  <2>1. /\ x \in ReadState /\ SameText(s, x) /\ Stops(s, x)
        /\ Is(x, mode, Absent, <<>>) /\ x.beyond = s.beyond
    BY <1>7, EnterRead
  <2>2. WordEnded(o, p)
    BY <1>7, Zenon DEF CodeWord
  <2>3. SeenAlike(x, p)
    BY <1>4, <2>1, <2>2, StopsAlike
  <2>4. ReadAlike(x, p)
    BY <1>7, <2>1, <2>3 DEF ReadAlike, Is, NameModes
  <2>5. QED BY <2>1, <2>4 DEF StaysAlike
<1>8. CASE c \in {"'", "dq"}
  <2>1. c \notin WordSymbols /\ c # "$" /\ c \in ReadModes /\ c \notin NameModes
        /\ c # "code" /\ c # "block" /\ c # "dollar"
    BY <1>8 DEF WordSymbols, Letters, ReadModes, Modes, NameModes
  <2>2. x = Enter(s, c)
    BY <1>0, <1>2, <1>3, <1>8, Zenon DEF InCodeIs
  <2>3. Is(p, c, Absent, <<>>)
    BY <1>8, Zenon DEF CodeMode
  <2>4. QED BY <1>1, <1>7, <2>1, <2>2, <2>3
<1>9. CASE c \in d.names \ {"]"}
  <2>1. c = "bq"
    BY <1>9 DEF NameModes
  <2>2. /\ c \notin WordSymbols \cup {"'", "dq", "$"} /\ c # "-" /\ c # "*" /\ c # "/"
        /\ c \in ReadModes /\ c \in NameModes
    BY <2>1 DEF WordSymbols, Letters, ReadModes, NameModes
  <2>3. x = Enter(s, c)
    BY <1>0, <1>2, <1>3, <1>9, Zenon DEF InCodeIs
  <2>4. Is(p, "code", c, <<>>)
    BY <2>2, Zenon DEF CodeMode
  <2>5. c \notin WordSymbols /\ c # "$" /\ c \notin {"-", "/"}
    BY <2>2
  <2>6. QED BY <1>1, <1>7, <2>2, <2>3, <2>4, <2>5
<1>10. CASE "]" \in d.names /\ (c = "[" \/ (c = "]" /\ s.prev = "]"))
  <2>1. /\ c \notin WordSymbols \cup {"'", "dq", "$"} /\ c # "-" /\ c # "*" /\ c # "/"
        /\ "]" \in ReadModes /\ "]" \in NameModes
    BY <1>10 DEF WordSymbols, Letters, ReadModes, NameModes
  <2>2. x = Enter(s, "]")
    BY <1>0, <1>2, <1>3, <1>10, Zenon DEF InCodeIs
  <2>3. Is(p, "code", c, <<>>)
    BY <2>1, Zenon DEF CodeMode
  <2>4. c \notin WordSymbols /\ c # "$" /\ c \notin {"-", "/"}
    BY <2>1
  <2>5. QED BY <1>1, <1>7, <2>1, <2>2, <2>3, <2>4
<1>11. CASE c = "-" /\ s.prev = "-"
  <2>1. c \notin WordSymbols /\ c # "$" /\ "line" \in ReadModes /\ "line" \notin NameModes
    BY <1>11 DEF WordSymbols, Letters, ReadModes, Modes, NameModes
  <2>2. o.prev = "-"
    BY <1>4, <1>11 DEF PrevsAlike
  <2>3. x = Enter(s, "line")
    BY <1>0, <1>2, <1>3, <1>11, Zenon DEF InCodeIs
  <2>4. Is(p, "line", Absent, <<>>)
    BY <1>11, <2>2, Zenon DEF CodeMode
  <2>5. QED BY <1>1, <1>7, <2>1, <2>3, <2>4
<1>12. CASE c = "*" /\ s.prev = "/"
  <2>1. c \notin WordSymbols /\ c # "$" /\ "block" \in ReadModes /\ "block" \notin NameModes
    BY <1>12 DEF WordSymbols, Letters, ReadModes, Modes, NameModes
  <2>2. o.prev = "/"
    BY <1>4, <1>12 DEF PrevsAlike
  <2>3. PICK y \in ReadState : /\ y = Enter(s, "block") /\ SameText(s, y) /\ Stops(s, y)
                               /\ Is(y, "block", Absent, <<>>) /\ y.beyond = s.beyond
    BY <2>1, EnterRead
  <2>4. x = SetDepth(y, 1)
    BY <1>0, <1>2, <1>3, <1>12, <2>3, Zenon DEF InCodeIs
  <2>5. /\ x \in ReadState
        /\ ReadFields(x, y.mode, y.prev, y.tag, y.tail, 1, y.piece, y.pieces, y.word, y.words, y.named, y.beyond)
    BY <2>4, ReadSetDepthForm
  <2>6. Is(p, "block", Absent, <<>>) /\ WordEnded(o, p)
    BY <1>12, <2>1, <2>2, Zenon DEF CodeMode, CodeWord
  <2>7. Stops(s, x) /\ SameText(s, x) /\ Is(x, "block", Absent, <<>>) /\ x.depth = 1 /\ x.beyond = s.beyond
    BY <2>3, <2>5 DEF ReadFields, Stops, Seen, SameText, Is
  <2>8. SeenAlike(x, p)
    BY <1>4, <2>6, <2>7, StopsAlike
  <2>9. ReadAlike(x, p)
    BY <2>1, <2>6, <2>7, <2>8 DEF ReadAlike, Is
  <2>10. QED BY <1>1, <2>5, <2>7, <2>9 DEF StaysAlike
<1>13. CASE c = "$" /\ s.tag # <<>> /\ d.dollars
  <2>1. o.tag = s.tag
    BY <1>4, <1>13 DEF TagsAlike
  <2>2. PICK t, l : t = Append(s.tag, c) /\ l = <<>>
    OBVIOUS
  <2>3. t \in Seq(Symbols) /\ l \in Seq(Symbols) /\ Absent \in Symbols \cup {Absent}
        /\ "dollar" \in ReadModes /\ "dollar" \notin NameModes
    BY <1>5, <2>2 DEF ReadModes, Modes, NameModes
  <2>4. x = SetDollar(s, "dollar", Absent, t, l, l)
    BY <1>0, <1>2, <1>3, <1>13, <2>2, Zenon DEF InCodeIs
  <2>5. /\ x \in ReadState
        /\ ReadFields(x, "dollar", Absent, t, l, s.depth, s.piece, s.pieces, l, s.words, s.named, s.beyond)
    BY <2>3, <2>4, ReadSetDollarForm
  <2>6. Is(p, "dollar", Absent, Append(o.tag, c)) /\ p.tail = <<>> /\ p.words = o.words /\ p.word = <<>>
    BY <1>13, <2>1, Zenon DEF CodeMode, CodeWord
  <2>7. SeenAlike(x, p)
    BY <1>4, <2>2, <2>5, <2>6 DEF SeenAlike, Seen, ReadFields
  <2>8. ReadAlike(x, p)
    BY <2>1, <2>2, <2>3, <2>5, <2>6, <2>7 DEF ReadAlike, Is, ReadFields
  <2>9. QED BY <1>1, <2>5, <2>8 DEF StaysAlike, SameText, ReadFields
<1>14. CASE c = "$" /\ ~ (s.tag # <<>> /\ d.dollars)
  <2>1. PICK b \in BOOLEAN : b = (e.beyond \/ s.tag # <<>> \/ s.prev \in WordSymbols)
    OBVIOUS
  <2>2. PICK t \in Seq(Symbols) : t = <<c>>
    <3>1. <<c>> \in Seq(Symbols)
      OBVIOUS
    <3>2. QED BY <3>1, Zenon
  <2>3. x = SetMark(e, t, c, b)
    BY <1>0, <1>2, <1>3, <1>14, <2>1, <2>2, Zenon DEF InCodeIs
  <2>4. /\ x \in ReadState
        /\ ReadFields(x, e.mode, c, t, e.tail, e.depth, e.piece, e.pieces, e.word, e.words, e.named, b)
    BY <2>3, ReadSetMarkForm
  <2>5. SameText(s, x) /\ Stops(s, x) /\ Is(x, "code", c, t) /\ x.beyond = b
    BY <1>2, <2>4 DEF LeftAlone, Stops, Seen, SameText, Is, ReadFields
  <2>6. s.beyond => x.beyond
    BY <1>2, <2>1, <2>5 DEF LeftAlone
  <2>7. ASSUME ~ x.beyond
        PROVE  ReadAlike(x, p)
    <3>1. s.tag = <<>> /\ s.prev \notin WordSymbols
      BY <2>1, <2>5, <2>7
    <3>2. o.tag = <<>>
      BY <1>4, <3>1 DEF TagsAlike
    <3>3. c \notin WordSymbols
      BY <1>14 DEF WordSymbols, Letters
    <3>4. Is(p, "code", c, t) /\ WordEnded(o, p)
      BY <1>14, <2>2, <3>2, <3>3, Zenon DEF CodeMode, CodeWord
    <3>5. SeenAlike(x, p)
      BY <1>4, <2>5, <3>4, StopsAlike
    <3>6. QED BY <2>5, <3>4, <3>5 DEF ReadAlike, Is, NameModes, TagsAlike, PrevsAlike
  <2>8. QED BY <1>1, <2>4, <2>5, <2>6, <2>7 DEF StaysAlike
<1>15. CASE c \in WordSymbols
  <2>1. c \notin {"-", "/"} /\ c # "$"
    BY <1>15 DEF WordSymbols, Letters
  <2>2. w.tag = s.tag
    BY <1>3 DEF LeftAlone, Is
  <2>3. PICK t : t = IF s.tag = <<>> \/ (s.tag = <<"$">> /\ c \notin Letters)
                     THEN <<>> ELSE Append(s.tag, c)
    OBVIOUS
  <2>4. t \in Seq(Symbols)
    <3>1. PICK a \in Seq(Symbols) : a = s.tag
      BY <1>5
    <3>2. Append(a, c) \in Seq(Symbols) /\ <<>> \in Seq(Symbols)
      OBVIOUS
    <3>3. QED BY <2>3, <3>1, <3>2
  <2>5. x = SetTag(w, t, c)
    BY <1>0, <1>2, <1>3, <1>15, <2>2, <2>3, Zenon DEF InCodeIs
  <2>6. /\ x \in ReadState
        /\ ReadFields(x, w.mode, c, t, w.tail, w.depth, w.piece, w.pieces, w.word, w.words, w.named, w.beyond)
    BY <2>4, <2>5, ReadSetTagForm
  <2>7. SameText(s, x) /\ GoesOn(s, c, x) /\ Is(x, "code", c, t) /\ x.beyond = s.beyond
    BY <1>3, <1>15, <2>6 DEF LeftAlone, GoesOn, Seen, SameText, Is, ReadFields
  <2>8. /\ Is(p, "code", c, IF o.tag = <<>> THEN <<>> ELSE Append(o.tag, c))
        /\ p.words = o.words
        /\ p.word = IF o.word # <<>> \/ c \in Letters THEN Append(o.word, c) ELSE o.word
    BY <1>15, Zenon DEF CodeMode, CodeWord
  <2>9. SeenAlike(x, p)
    BY <1>4, <2>7, <2>8 DEF SeenAlike, GoesOn
  <2>10. TagsAlike(x, p)
    <3>1. CASE t = <<>>
      BY <1>15, <2>7, <3>1 DEF TagsAlike, Is
    <3>2. CASE t # <<>>
      <4>1. s.tag # <<>> /\ t = Append(s.tag, c)
        BY <2>3, <3>2
      <4>2. o.tag = s.tag
        BY <1>4, <4>1 DEF TagsAlike
      <4>3. QED BY <2>7, <2>8, <4>1, <4>2 DEF TagsAlike, Is
    <3>3. QED BY <3>1, <3>2
  <2>11. ReadAlike(x, p)
    BY <2>7, <2>8, <2>9, <2>10 DEF ReadAlike, Is, NameModes, PrevsAlike
  <2>12. QED BY <1>1, <2>6, <2>7, <2>11 DEF StaysAlike
<1>16. CASE /\ c \notin WordSymbols \cup {"'", "dq", "$"} \cup (d.names \ {"]"})
            /\ ~ ("]" \in d.names /\ (c = "[" \/ (c = "]" /\ s.prev = "]")))
            /\ ~ (c = "-" /\ s.prev = "-") /\ ~ (c = "*" /\ s.prev = "/")
  <2>1. c \notin WordSymbols \cup {"'", "dq", "$"} /\ c \notin WordSymbols /\ c # "$"
    BY <1>16
  <2>2. PICK t \in Seq(Symbols) : t = <<>>
    <3>1. <<>> \in Seq(Symbols)
      OBVIOUS
    <3>2. QED BY <3>1, Zenon
  <2>3. x = SetTag(e, t, c)
    BY <1>0, <1>2, <1>3, <1>16, <2>2, Zenon DEF InCodeIs
  <2>4. /\ x \in ReadState
        /\ ReadFields(x, e.mode, c, t, e.tail, e.depth, e.piece, e.pieces, e.word, e.words, e.named, e.beyond)
    BY <2>3, ReadSetTagForm
  <2>5. SameText(s, x) /\ Stops(s, x) /\ Is(x, "code", c, <<>>) /\ x.beyond = s.beyond
    BY <1>2, <2>2, <2>4 DEF LeftAlone, Stops, Seen, SameText, Is, ReadFields
  <2>6. ~ (c = "-" /\ o.prev = "-") /\ ~ (c = "*" /\ o.prev = "/")
    BY <1>4, <1>16 DEF PrevsAlike
  <2>7. Is(p, "code", c, <<>>) /\ WordEnded(o, p)
    BY <2>1, <2>6, Zenon DEF CodeMode, CodeWord
  <2>8. SeenAlike(x, p)
    BY <1>4, <2>5, <2>7, StopsAlike
  <2>9. ReadAlike(x, p)
    BY <2>5, <2>7, <2>8 DEF ReadAlike, Is, NameModes, TagsAlike, PrevsAlike
  <2>10. QED BY <1>1, <2>4, <2>5, <2>9 DEF StaysAlike
<1>17. QED
  BY <1>8, <1>9, <1>10, <1>11, <1>12, <1>13, <1>14, <1>15, <1>16

(* What a step comes to, whatever the other lexer is in. *)
Moves(o, c, p) ==
  IF o.mode = "code" THEN CodeMode(o, c, p) /\ CodeWord(o, c, p) ELSE Inner(o, c, p)
Carries(s, c, x) ==
  \A o \in LexState : \A p : ReadAlike(s, o) /\ Moves(o, c, p) => x.beyond \/ ReadAlike(x, p)
Steps(s, c, x) == x \in ReadState /\ SameText(s, x) /\ (s.beyond => x.beyond) /\ Carries(s, c, x)

LEMMA CodeSteps ==
  ASSUME NEW d, d.names \subseteq NameModes, NEW s \in ReadState, NEW c \in Symbols, s.mode = "code"
  PROVE  Steps(s, c, InCode(d, s, c))
<1>1. PICK x : x = InCode(d, s, c)
  OBVIOUS
<1> DEFINE Holds == x \in ReadState /\ SameText(s, x) /\ (s.beyond => x.beyond)
<1>0. InCodeIs(d, s, c, x)
  BY <1>1, ReadCases
<1>2. PICK e \in ReadState : e = EndWord(s) /\ LeftAlone(s, e)
  BY EndWordRead
<1>3. PICK w \in ReadState : w = ReadWord(s, c) /\ LeftAlone(s, w)
  BY ReadWordRead
<1>4. s.tag \in Seq(Symbols) /\ s.beyond \in BOOLEAN
  BY ReadStateFields
<1>5. ASSUME NEW mode \in ReadModes, x = Enter(s, mode)
      PROVE  Holds
  BY <1>5, EnterRead
<1>6. ASSUME c \in {"'", "dq"} \cup (d.names \ {"]"})
      PROVE  Holds
  <2>1. c \in ReadModes
    BY <1>6 DEF ReadModes, Modes, NameModes
  <2>2. x = Enter(s, c)
    BY <1>0, <1>2, <1>3, <1>6, Zenon DEF InCodeIs
  <2>3. QED BY <1>5, <2>1, <2>2
<1>7. ASSUME "]" \in d.names /\ (c = "[" \/ (c = "]" /\ s.prev = "]"))
      PROVE  Holds
  <2>1. "]" \in ReadModes
    BY DEF ReadModes
  <2>2. x = Enter(s, "]")
    BY <1>0, <1>2, <1>3, <1>7, Zenon DEF InCodeIs
  <2>3. QED BY <1>5, <2>1, <2>2
<1>8. ASSUME c = "-" /\ s.prev = "-"
      PROVE  Holds
  <2>1. "line" \in ReadModes
    BY DEF ReadModes, Modes
  <2>2. x = Enter(s, "line")
    BY <1>0, <1>2, <1>3, <1>8, Zenon DEF InCodeIs
  <2>3. QED BY <1>5, <2>1, <2>2
<1>9. ASSUME c = "*" /\ s.prev = "/"
      PROVE  Holds
  <2>1. "block" \in ReadModes
    BY DEF ReadModes, Modes
  <2>2. PICK y \in ReadState : y = Enter(s, "block") /\ SameText(s, y) /\ y.beyond = s.beyond
    BY <2>1, EnterRead
  <2>3. x = SetDepth(y, 1)
    BY <1>0, <1>2, <1>3, <1>9, <2>2, Zenon DEF InCodeIs
  <2>4. /\ x \in ReadState
        /\ ReadFields(x, y.mode, y.prev, y.tag, y.tail, 1, y.piece, y.pieces, y.word, y.words, y.named, y.beyond)
    BY <2>3, ReadSetDepthForm
  <2>5. QED BY <2>2, <2>4 DEF SameText, ReadFields
<1>10. ASSUME c = "$" /\ s.tag # <<>> /\ d.dollars
       PROVE  Holds
  <2>1. PICK t, l : t = Append(s.tag, c) /\ l = <<>>
    OBVIOUS
  <2>2. t \in Seq(Symbols) /\ l \in Seq(Symbols) /\ Absent \in Symbols \cup {Absent}
        /\ "dollar" \in ReadModes
    BY <1>4, <2>1 DEF ReadModes, Modes
  <2>3. x = SetDollar(s, "dollar", Absent, t, l, l)
    BY <1>0, <1>2, <1>3, <1>10, <2>1, Zenon DEF InCodeIs
  <2>4. /\ x \in ReadState
        /\ ReadFields(x, "dollar", Absent, t, l, s.depth, s.piece, s.pieces, l, s.words, s.named, s.beyond)
    BY <2>2, <2>3, ReadSetDollarForm
  <2>5. QED BY <2>4 DEF SameText, ReadFields
<1>11. ASSUME c = "$" /\ ~ (s.tag # <<>> /\ d.dollars)
       PROVE  Holds
  <2>1. PICK b \in BOOLEAN : b = (e.beyond \/ s.tag # <<>> \/ s.prev \in WordSymbols)
    OBVIOUS
  <2>2. PICK t \in Seq(Symbols) : t = <<c>>
    <3>1. <<c>> \in Seq(Symbols)
      OBVIOUS
    <3>2. QED BY <3>1, Zenon
  <2>3. x = SetMark(e, t, c, b)
    BY <1>0, <1>2, <1>3, <1>11, <2>1, <2>2, Zenon DEF InCodeIs
  <2>4. /\ x \in ReadState
        /\ ReadFields(x, e.mode, c, t, e.tail, e.depth, e.piece, e.pieces, e.word, e.words, e.named, b)
    BY <2>3, ReadSetMarkForm
  <2>5. QED BY <1>2, <2>1, <2>4 DEF LeftAlone, SameText, ReadFields
<1>12. ASSUME c \in WordSymbols
       PROVE  Holds
  <2>1. w.tag = s.tag
    BY <1>3 DEF LeftAlone, Is
  <2>2. PICK t : t = IF s.tag = <<>> \/ (s.tag = <<"$">> /\ c \notin Letters)
                     THEN <<>> ELSE Append(s.tag, c)
    OBVIOUS
  <2>3. t \in Seq(Symbols)
    <3>1. PICK a \in Seq(Symbols) : a = s.tag
      BY <1>4
    <3>2. Append(a, c) \in Seq(Symbols) /\ <<>> \in Seq(Symbols)
      OBVIOUS
    <3>3. QED BY <2>2, <3>1, <3>2
  <2>4. x = SetTag(w, t, c)
    BY <1>0, <1>2, <1>3, <1>12, <2>1, <2>2, Zenon DEF InCodeIs
  <2>5. /\ x \in ReadState
        /\ ReadFields(x, w.mode, c, t, w.tail, w.depth, w.piece, w.pieces, w.word, w.words, w.named, w.beyond)
    BY <2>3, <2>4, ReadSetTagForm
  <2>6. QED BY <1>3, <2>5 DEF LeftAlone, SameText, ReadFields
<1>13. ASSUME /\ c \notin WordSymbols \cup {"'", "dq", "$"} \cup (d.names \ {"]"})
              /\ ~ ("]" \in d.names /\ (c = "[" \/ (c = "]" /\ s.prev = "]")))
              /\ ~ (c = "-" /\ s.prev = "-") /\ ~ (c = "*" /\ s.prev = "/")
       PROVE  Holds
  <2>1. PICK t \in Seq(Symbols) : t = <<>>
    <3>1. <<>> \in Seq(Symbols)
      OBVIOUS
    <3>2. QED BY <3>1, Zenon
  <2>2. x = SetTag(e, t, c)
    BY <1>0, <1>2, <1>3, <1>13, <2>1, Zenon DEF InCodeIs
  <2>3. /\ x \in ReadState
        /\ ReadFields(x, e.mode, c, t, e.tail, e.depth, e.piece, e.pieces, e.word, e.words, e.named, e.beyond)
    BY <2>2, ReadSetTagForm
  <2>4. QED BY <1>2, <2>3 DEF LeftAlone, SameText, ReadFields
<1>14. Holds
  BY <1>6, <1>7, <1>8, <1>9, <1>10, <1>11, <1>12, <1>13
<1>15. Carries(s, c, x)
  <2> SUFFICES ASSUME NEW o \in LexState, NEW p, ReadAlike(s, o), Moves(o, c, p)
               PROVE  x.beyond \/ ReadAlike(x, p)
    BY Zenon DEF Carries
  <2>1. o.mode = "code"
    BY DEF ReadAlike, NameModes
  <2>2. CodeMode(o, c, p) /\ CodeWord(o, c, p)
    BY <2>1, Zenon DEF Moves
  <2>3. StaysAlike(s, x, p)
    BY <1>1, <2>2, InCodeAlike
  <2>4. QED BY <2>3 DEF StaysAlike
<1>16. QED BY <1>1, <1>14, <1>15, Zenon DEF Steps

LEMMA LeaveSteps ==
  ASSUME NEW s \in ReadState, NEW c, s.mode \notin NameModes, s.mode # "code",
         \A o \in LexState : \A p : ReadAlike(s, o) /\ Inner(o, c, p) => p.mode = "code"
  PROVE  Steps(s, c, Leave(s))
<1>1. PICK x \in ReadState : /\ x = Leave(s) /\ SameText(s, x) /\ Is(x, "code", Absent, <<>>)
                             /\ x.word = s.word /\ Seen(x) = Seen(s) /\ x.beyond = s.beyond
  BY LeaveRead
<1>2. Carries(s, c, x)
  <2> SUFFICES ASSUME NEW o \in LexState, NEW p, ReadAlike(s, o), Moves(o, c, p)
               PROVE  ReadAlike(x, p)
    BY Zenon DEF Carries
  <2>1. o.mode = s.mode /\ o.mode # "code"
    BY DEF ReadAlike
  <2>2. Inner(o, c, p)
    BY <2>1, Zenon DEF Moves
  <2>3. p.mode = "code" /\ p.prev = Absent /\ p.tag = <<>> /\ SameWords(o, p)
    BY <2>2, Zenon DEF Inner
  <2>4. QED BY <1>1, <2>3 DEF ReadAlike, SeenAlike, SameWords, Is, TagsAlike, PrevsAlike, NameModes
<1>3. QED BY <1>1, <1>2, Zenon DEF Steps

LEMMA LiteralSteps ==
  ASSUME NEW s \in ReadState, NEW c, s.mode \in {"'", "dq"}
  PROVE  Steps(s, c, IF c = s.mode THEN Leave(s) ELSE s)
<1>1. s.mode \notin NameModes /\ s.mode # "code" /\ s.mode # "block" /\ s.mode # "dollar"
  BY DEF NameModes
<1>2. ASSUME NEW o \in LexState, NEW p, ReadAlike(s, o), Inner(o, c, p)
      PROVE  /\ p.mode = IF c = s.mode THEN "code" ELSE s.mode
             /\ SameWords(o, p)
  <2>1. o.mode = s.mode
    BY <1>1, <1>2 DEF ReadAlike
  <2>2. QED BY <1>2, <2>1 DEF Inner, Is
<1>3. CASE c = s.mode
  BY <1>1, <1>2, <1>3, LeaveSteps
<1>4. CASE c # s.mode
  <2>1. Carries(s, c, s)
    <3> SUFFICES ASSUME NEW o \in LexState, NEW p, ReadAlike(s, o), Moves(o, c, p)
                 PROVE  ReadAlike(s, p)
      BY Zenon DEF Carries
    <3>1. o.mode # "code"
      BY <1>1 DEF ReadAlike
    <3>2. p.mode = s.mode /\ SameWords(o, p)
      BY <1>2, <1>4, <3>1, Zenon DEF Moves
    <3>3. QED BY <1>1, <3>2 DEF ReadAlike, SeenAlike, SameWords
  <2>2. QED BY <1>4, <2>1 DEF Steps, SameText
<1>5. QED BY <1>3, <1>4

LEMMA NameSteps ==
  ASSUME NEW s \in ReadState, NEW c \in Symbols, s.mode \in NameModes
  PROVE  /\ Steps(s, c, InName(s, c))
         /\ c = ";" => InName(s, c).beyond
<1>1. /\ s.mode \notin WordSymbols \cup {"'", "dq", "$", "-", "/", "*", ";"}
      /\ s.mode \notin WordSymbols /\ s.mode # "$" /\ s.mode # "-" /\ s.mode # "*" /\ s.mode # ";"
  BY DEF WordSymbols, Letters, NameModes
<1>2. s.beyond \in BOOLEAN
  BY ReadStateFields
<1>3. ASSUME NEW o \in LexState, NEW p, ReadAlike(s, o), Moves(o, c, p)
      PROVE  /\ CodeMode(o, c, p) /\ CodeWord(o, c, p) /\ SeenAlike(s, o)
             /\ o.tag = <<>> /\ o.prev \notin {"-", "/"}
  <2>1. o.mode = "code" /\ SeenAlike(s, o) /\ o.tag = <<>> /\ o.prev \notin {"-", "/"}
    BY <1>3 DEF ReadAlike
  <2>2. QED BY <1>3, <2>1, Zenon DEF Moves
<1>4. CASE c = s.mode
  <2>1. PICK e \in ReadState : e = EndWord(s) /\ LeftAlone(s, e) /\ Stops(s, e)
    BY EndWordRead
  <2>2. PICK t \in Seq(Symbols) : t = <<>>
    <3>1. <<>> \in Seq(Symbols)
      OBVIOUS
    <3>2. QED BY <3>1, Zenon
  <2>3. PICK x : x = InName(s, c)
    OBVIOUS
  <2>4. x = SetMode(e, "code", c, t)
    BY <1>4, <2>1, <2>2, <2>3, Zenon DEF InName, SetMode
  <2>5. "code" \in ReadModes
    BY DEF ReadModes, Modes
  <2>6. /\ x \in ReadState
        /\ ReadFields(x, "code", c, t, e.tail, e.depth, e.piece, e.pieces, e.word, e.words, e.named, e.beyond)
    BY <2>4, <2>5, ReadSetModeForm
  <2>7. SameText(s, x) /\ Stops(s, x) /\ Is(x, "code", c, <<>>) /\ x.beyond = s.beyond
    BY <2>1, <2>2, <2>6 DEF LeftAlone, Stops, Seen, SameText, Is, ReadFields
  <2>8. Carries(s, c, x)
    <3> SUFFICES ASSUME NEW o \in LexState, NEW p, ReadAlike(s, o), Moves(o, c, p)
                 PROVE  ReadAlike(x, p)
      BY Zenon DEF Carries
    <3>1. CodeMode(o, c, p) /\ CodeWord(o, c, p) /\ SeenAlike(s, o)
      BY <1>3
    <3>2. c \notin WordSymbols \cup {"'", "dq", "$"} /\ c # "-" /\ c # "*" /\ c \notin WordSymbols /\ c # "$"
      BY <1>1, <1>4
    <3>3. Is(p, "code", c, <<>>) /\ WordEnded(o, p)
      BY <3>1, <3>2, Zenon DEF CodeMode, CodeWord
    <3>4. SeenAlike(x, p)
      BY <2>7, <3>1, <3>3, StopsAlike
    <3>5. QED BY <2>7, <3>3, <3>4 DEF ReadAlike, Is, NameModes, TagsAlike, PrevsAlike
  <2>9. Steps(s, c, x)
    BY <2>6, <2>7, <2>8, Zenon DEF Steps
  <2>10. QED BY <1>1, <1>4, <2>3, <2>9
<1>5. CASE c # s.mode
  <2>1. PICK w \in ReadState : /\ w = ReadWord(s, c) /\ LeftAlone(s, w)
                               /\ IF c \in WordSymbols THEN GoesOn(s, c, w) ELSE Stops(s, w)
    BY ReadWordRead
  <2>2. PICK b \in BOOLEAN : b = (w.beyond \/ c \in Acting)
    OBVIOUS
  <2>3. PICK x : x = InName(s, c)
    OBVIOUS
  <2>4. x = SetBeyond(w, b)
    BY <1>5, <2>1, <2>2, <2>3, Zenon DEF InName, SetBeyond
  <2>5. /\ x \in ReadState
        /\ ReadFields(x, w.mode, w.prev, w.tag, w.tail, w.depth, w.piece, w.pieces, w.word, w.words, w.named, b)
    BY <2>4, ReadSetBeyondForm
  <2>6. /\ SameText(s, x) /\ x.mode = s.mode /\ x.beyond = b /\ (s.beyond => b)
        /\ IF c \in WordSymbols THEN GoesOn(s, c, x) ELSE Stops(s, x)
    BY <2>1, <2>2, <2>5 DEF LeftAlone, Stops, GoesOn, Seen, SameText, Is, ReadFields
  <2>7. ASSUME NEW o \in LexState, NEW p, ReadAlike(s, o), Moves(o, c, p), c \notin Acting
        PROVE  ReadAlike(x, p)
    <3>1. /\ CodeMode(o, c, p) /\ CodeWord(o, c, p) /\ SeenAlike(s, o)
          /\ o.tag = <<>> /\ o.prev # "-" /\ o.prev # "/"
      BY <1>3, <2>7
    <3>2. c \notin {"'", "dq", "-", "/", "$"} /\ c # "$" /\ c # "-" /\ c # "/"
      BY <2>7 DEF Acting
    <3>3. CASE c \in WordSymbols
      <4>1. /\ Is(p, "code", c, <<>>) /\ p.words = o.words
            /\ p.word = IF o.word # <<>> \/ c \in Letters THEN Append(o.word, c) ELSE o.word
        BY <3>1, <3>3, Zenon DEF CodeMode, CodeWord
      <4>2. SeenAlike(x, p)
        BY <2>6, <3>1, <3>3, <4>1 DEF SeenAlike, GoesOn
      <4>3. QED BY <2>6, <3>2, <4>1, <4>2 DEF ReadAlike, Is, NameModes
    <3>4. CASE c \notin WordSymbols
      <4>1. c \notin WordSymbols \cup {"'", "dq", "$"}
        BY <3>2, <3>4
      <4>2. Is(p, "code", c, <<>>) /\ WordEnded(o, p)
        BY <3>1, <3>2, <3>4, <4>1, Zenon DEF CodeMode, CodeWord
      <4>3. SeenAlike(x, p)
        BY <2>6, <3>1, <3>4, <4>2, StopsAlike
      <4>4. QED BY <2>6, <3>2, <4>2, <4>3 DEF ReadAlike, Is, NameModes
    <3>5. QED BY <3>3, <3>4
  <2>8. Carries(s, c, x)
    <3> SUFFICES ASSUME NEW o \in LexState, NEW p, ReadAlike(s, o), Moves(o, c, p), ~ x.beyond
                 PROVE  ReadAlike(x, p)
      BY Zenon DEF Carries
    <3>1. c \notin Acting
      BY <2>2, <2>6
    <3>2. QED BY <2>7, <3>1
  <2>9. Steps(s, c, x)
    BY <2>5, <2>6, <2>8, Zenon DEF Steps
  <2>10. c = ";" => x.beyond
    BY <2>2, <2>6 DEF Acting
  <2>11. QED BY <2>3, <2>9, <2>10
<1>6. QED BY <1>4, <1>5

LEMMA LineSteps ==
  ASSUME NEW d, NEW s \in ReadState, NEW c \in Symbols, s.mode = "line"
  PROVE  Steps(s, c, IF c = "nl" THEN Leave(s)
                     ELSE SetLine(s, c, s.beyond \/ (s.prev = "cr" /\ d.returns)))
<1>1. ASSUME NEW o \in LexState, NEW p, ReadAlike(s, o), Inner(o, c, p)
      PROVE  /\ p.mode = IF c = "nl" THEN "code" ELSE "line"
             /\ SameWords(o, p)
  <2>1. o.mode = "line"
    BY <1>1 DEF ReadAlike, NameModes
  <2>2. QED BY <1>1, <2>1 DEF Inner, Is
<1>2. CASE c = "nl"
  <2>1. s.mode \notin NameModes /\ s.mode # "code"
    BY DEF NameModes
  <2>2. QED BY <1>1, <1>2, <2>1, LeaveSteps
<1>3. CASE c # "nl"
  <2>0. s.beyond \in BOOLEAN
    BY ReadStateFields
  <2>1. PICK b \in BOOLEAN : b = (s.beyond \/ (s.prev = "cr" /\ d.returns))
    OBVIOUS
  <2>2. PICK x : x = SetLine(s, c, b)
    OBVIOUS
  <2>3. /\ x \in ReadState
        /\ ReadFields(x, s.mode, c, s.tag, s.tail, s.depth, s.piece, s.pieces, s.word, s.words, s.named, b)
    BY <2>2, ReadSetLineForm
  <2>4. SameText(s, x) /\ (s.beyond => x.beyond) /\ x.mode = "line" /\ x.word = s.word /\ Seen(x) = Seen(s)
    BY <2>1, <2>3 DEF SameText, Seen, ReadFields
  <2>5. Carries(s, c, x)
    <3> SUFFICES ASSUME NEW o \in LexState, NEW p, ReadAlike(s, o), Moves(o, c, p)
                 PROVE  ReadAlike(x, p)
      BY Zenon DEF Carries
    <3>1. o.mode # "code"
      BY DEF ReadAlike, NameModes
    <3>2. p.mode = "line" /\ SameWords(o, p)
      BY <1>1, <1>3, <3>1, Zenon DEF Moves
    <3>3. QED BY <2>4, <3>2 DEF ReadAlike, SeenAlike, SameWords, NameModes
  <2>6. Steps(s, c, x)
    BY <2>3, <2>4, <2>5, Zenon DEF Steps
  <2>7. QED BY <1>3, <2>1, <2>2, <2>6
<1>4. QED BY <1>2, <1>3

LEMMA BlockSteps ==
  ASSUME NEW d, NEW s \in ReadState, NEW c \in Symbols, s.mode = "block"
  PROVE  Steps(s, c, InBlock(d, s, c))
<1>1. PICK x : x = InBlock(d, s, c)
  OBVIOUS
<1>2. s.depth \in Int /\ s.beyond \in BOOLEAN /\ Absent \in Symbols \cup {Absent}
  BY ReadStateFields
<1>3. PICK up \in Int, down \in Int : up = s.depth + 1 /\ down = s.depth - 1
  BY <1>2
<1>4. ASSUME NEW o \in LexState, NEW p, ReadAlike(s, o), Inner(o, c, p)
      PROVE  /\ IF c = "/" /\ s.prev = "*" THEN p.mode = "code" ELSE p.mode = "block" /\ p.prev = c
             /\ SameWords(o, p) /\ SeenAlike(s, o) /\ s.depth = 1
  <2>1. o.mode = "block" /\ o.prev = s.prev /\ SeenAlike(s, o) /\ s.depth = 1
    BY <1>4 DEF ReadAlike, NameModes
  <2>2. QED BY <1>4, <2>1 DEF Inner
<1>5. ASSUME NEW o \in LexState, NEW p, ReadAlike(s, o), Moves(o, c, p)
      PROVE  Inner(o, c, p)
  <2>1. o.mode # "code"
    BY <1>5 DEF ReadAlike, NameModes
  <2>2. QED BY <1>5, <2>1, Zenon DEF Moves
<1>6. ASSUME c = "/" /\ s.prev = "*", s.depth = 1
      PROVE  Steps(s, c, x)
  <2>1. x = Leave(s)
    BY <1>1, <1>6, Zenon DEF InBlock
  <2>2. s.mode \notin NameModes /\ s.mode # "code"
    BY DEF NameModes
  <2>3. QED BY <1>4, <1>6, <2>1, <2>2, LeaveSteps
<1>7. ASSUME c = "/" /\ s.prev = "*", s.depth # 1
      PROVE  Steps(s, c, x)
  <2>1. x = SetNest(s, down, Absent)
    BY <1>1, <1>3, <1>7, Zenon DEF InBlock, SetNest
  <2>2. /\ x \in ReadState
        /\ ReadFields(x, s.mode, Absent, s.tag, s.tail, down, s.piece, s.pieces, s.word, s.words, s.named, s.beyond)
    BY <1>2, <2>1, ReadSetNestForm
  <2>3. Carries(s, c, x)
    BY <1>4, <1>5, <1>7 DEF Carries
  <2>4. QED BY <2>2, <2>3 DEF Steps, SameText, ReadFields
<1>8. ASSUME c = "*" /\ s.prev = "/" /\ d.nests
      PROVE  Steps(s, c, x)
  <2>1. x = SetDeeper(s, up, Absent, TRUE)
    BY <1>1, <1>3, <1>8, Zenon DEF InBlock, SetDeeper
  <2>2. /\ x \in ReadState
        /\ ReadFields(x, s.mode, Absent, s.tag, s.tail, up, s.piece, s.pieces, s.word, s.words, s.named, TRUE)
    BY <1>2, <2>1, ReadSetDeeperForm
  <2>3. QED BY <2>2 DEF Steps, SameText, Carries, ReadFields
<1>9. ASSUME ~ (c = "/" /\ s.prev = "*"), ~ (c = "*" /\ s.prev = "/" /\ d.nests)
      PROVE  Steps(s, c, x)
  <2>1. x = SetPrev(s, c)
    BY <1>1, <1>9, Zenon DEF InBlock, SetPrev
  <2>2. /\ x \in ReadState
        /\ ReadFields(x, s.mode, c, s.tag, s.tail, s.depth, s.piece, s.pieces, s.word, s.words, s.named, s.beyond)
    BY <2>1, ReadSetPrevForm
  <2>3. x.mode = "block" /\ x.prev = c /\ x.depth = s.depth /\ x.word = s.word /\ Seen(x) = Seen(s)
    BY <2>2 DEF ReadFields, Seen
  <2>4. Carries(s, c, x)
    <3> SUFFICES ASSUME NEW o \in LexState, NEW p, ReadAlike(s, o), Moves(o, c, p)
                 PROVE  ReadAlike(x, p)
      BY Zenon DEF Carries
    <3>1. p.mode = "block" /\ p.prev = c /\ SameWords(o, p) /\ SeenAlike(s, o) /\ s.depth = 1
      BY <1>4, <1>5, <1>9
    <3>2. QED BY <2>3, <3>1 DEF ReadAlike, SeenAlike, SameWords, NameModes
  <2>5. QED BY <2>2, <2>4 DEF Steps, SameText, ReadFields
<1>10. QED BY <1>1, <1>6, <1>7, <1>8, <1>9

LEMMA DollarSteps ==
  ASSUME NEW s \in ReadState, NEW c \in Symbols, s.mode = "dollar"
  PROVE  Steps(s, c, IF IsSuffix(s.tag, Append(s.tail, c)) THEN Leave(s)
                     ELSE SetTail(s, Append(s.tail, c)))
<1>1. PICK t, suffix : t = Append(s.tail, c) /\ suffix = IsSuffix(s.tag, t)
  OBVIOUS
<1>2. t \in Seq(Symbols)
  BY <1>1, ReadStateFields
<1>3. ASSUME NEW o \in LexState, NEW p, ReadAlike(s, o), Inner(o, c, p)
      PROVE  /\ IF suffix THEN p.mode = "code" ELSE p.mode = "dollar" /\ p.tag = s.tag /\ p.tail = t
             /\ SameWords(o, p) /\ SeenAlike(s, o)
  <2>1. o.mode = "dollar" /\ o.tag = s.tag /\ o.tail = s.tail /\ SeenAlike(s, o)
    BY <1>3 DEF ReadAlike, NameModes
  <2>2. QED BY <1>1, <1>3, <2>1 DEF Inner
<1>4. ASSUME suffix
      PROVE  Steps(s, c, Leave(s))
  <2>1. s.mode \notin NameModes /\ s.mode # "code"
    BY DEF NameModes
  <2>2. QED BY <1>3, <1>4, <2>1, LeaveSteps
<1>5. ASSUME ~ suffix
      PROVE  Steps(s, c, SetTail(s, t))
  <2>1. PICK x : x = SetTail(s, t)
    OBVIOUS
  <2>2. /\ x \in ReadState
        /\ ReadFields(x, s.mode, s.prev, s.tag, t, s.depth, s.piece, s.pieces, s.word, s.words, s.named, s.beyond)
    BY <1>2, <2>1, ReadSetTailForm
  <2>3. x.mode = "dollar" /\ x.tag = s.tag /\ x.tail = t /\ x.word = s.word /\ Seen(x) = Seen(s)
    BY <2>2 DEF ReadFields, Seen
  <2>4. Carries(s, c, x)
    <3> SUFFICES ASSUME NEW o \in LexState, NEW p, ReadAlike(s, o), Moves(o, c, p)
                 PROVE  ReadAlike(x, p)
      BY Zenon DEF Carries
    <3>1. o.mode # "code"
      BY DEF ReadAlike, NameModes
    <3>2. Inner(o, c, p)
      BY <3>1, Zenon DEF Moves
    <3>3. p.mode = "dollar" /\ p.tag = s.tag /\ p.tail = t /\ SameWords(o, p) /\ SeenAlike(s, o)
      BY <1>3, <1>5, <3>2
    <3>4. QED BY <2>3, <3>3 DEF ReadAlike, SeenAlike, SameWords, NameModes
  <2>5. QED BY <2>1, <2>2, <2>4 DEF Steps, SameText, ReadFields
<1>6. QED BY <1>1, <1>4, <1>5

(* One symbol, read to the end. *)
LexOf(d, s, c) ==
  CASE s.mode = "code" -> InCode(d, s, c)
    [] s.mode \in {"'", "dq"} -> IF c = s.mode THEN Leave(s) ELSE s
    [] s.mode \in {"]", "bq"} -> InName(s, c)
    [] s.mode = "line" ->
         IF c = "nl" THEN Leave(s)
         ELSE [s EXCEPT !.prev = c, !.beyond = @ \/ (s.prev = "cr" /\ d.returns)]
    [] s.mode = "block" -> InBlock(d, s, c)
    [] s.mode = "dollar" ->
         IF IsSuffix(s.tag, Append(s.tail, c)) THEN Leave(s)
         ELSE [s EXCEPT !.tail = Append(@, c)]

LEMMA InsideSteps ==
  ASSUME NEW d, d.names \subseteq NameModes, NEW s \in ReadState, NEW c \in Symbols
  PROVE  Steps(s, c, LexOf(d, s, c)) /\ (s.mode \in NameModes /\ c = ";" => LexOf(d, s, c).beyond)
<1>1. s.mode \in {"code", "'", "dq", "]", "bq", "line", "block", "dollar"}
  BY ReadStateFields DEF ReadModes, Modes
<1>2. CASE s.mode = "code"
  <2>1. LexOf(d, s, c) = InCode(d, s, c) /\ s.mode \notin NameModes
    BY <1>2 DEF LexOf, NameModes
  <2>2. QED BY <1>2, <2>1, CodeSteps
<1>3. CASE s.mode \in {"'", "dq"}
  <2>1. s.mode \notin NameModes /\ s.mode # "code"
    BY <1>3 DEF NameModes
  <2>2. LexOf(d, s, c) = IF c = s.mode THEN Leave(s) ELSE s
    BY <1>3, <2>1, Zenon DEF LexOf
  <2>3. Steps(s, c, IF c = s.mode THEN Leave(s) ELSE s)
    BY <1>3, LiteralSteps
  <2>4. QED BY <2>1, <2>2, <2>3
<1>4. CASE s.mode \in NameModes
  <2>1. s.mode # "code" /\ s.mode \notin {"'", "dq"} /\ s.mode \in {"]", "bq"}
    BY <1>4 DEF NameModes
  <2>2. LexOf(d, s, c) = InName(s, c)
    BY <2>1, Zenon DEF LexOf
  <2>3. QED BY <1>4, <2>2, NameSteps
<1>5. CASE s.mode = "line"
  <2>1. s.mode \notin NameModes /\ s.mode # "code" /\ s.mode \notin {"'", "dq"} /\ s.mode \notin {"]", "bq"}
    BY <1>5 DEF NameModes
  <2>2. LexOf(d, s, c) = IF c = "nl" THEN Leave(s)
                          ELSE SetLine(s, c, s.beyond \/ (s.prev = "cr" /\ d.returns))
    BY <1>5, <2>1, Zenon DEF LexOf, SetLine
  <2>3. Steps(s, c, IF c = "nl" THEN Leave(s)
                    ELSE SetLine(s, c, s.beyond \/ (s.prev = "cr" /\ d.returns)))
    BY <1>5, LineSteps
  <2>4. QED BY <2>1, <2>2, <2>3
<1>6. CASE s.mode = "block"
  <2>1. s.mode \notin NameModes /\ s.mode # "code" /\ s.mode \notin {"'", "dq"} /\ s.mode \notin {"]", "bq"}
        /\ s.mode # "line"
    BY <1>6 DEF NameModes
  <2>2. LexOf(d, s, c) = InBlock(d, s, c)
    BY <1>6, <2>1, Zenon DEF LexOf
  <2>3. Steps(s, c, InBlock(d, s, c))
    BY <1>6, BlockSteps
  <2>4. QED BY <2>1, <2>2, <2>3
<1>7. CASE s.mode = "dollar"
  <2>1. s.mode \notin NameModes /\ s.mode # "code" /\ s.mode \notin {"'", "dq"} /\ s.mode \notin {"]", "bq"}
        /\ s.mode # "line" /\ s.mode # "block"
    BY <1>7 DEF NameModes
  <2>2. LexOf(d, s, c) = IF IsSuffix(s.tag, Append(s.tail, c)) THEN Leave(s)
                          ELSE SetTail(s, Append(s.tail, c))
    BY <1>7, <2>1, Zenon DEF LexOf, SetTail
  <2>3. Steps(s, c, IF IsSuffix(s.tag, Append(s.tail, c)) THEN Leave(s)
                    ELSE SetTail(s, Append(s.tail, c)))
    BY <1>7, DollarSteps
  <2>4. QED BY <2>1, <2>2, <2>3
<1>8. QED BY <1>1, <1>2, <1>3, <1>4, <1>5, <1>6, <1>7 DEF NameModes

LEMMA CutForm ==
  ASSUME NEW s \in ReadState,
         NEW u, u = IF Trim(s.piece) = <<>> THEN s.pieces ELSE Append(s.pieces, Trim(s.piece))
  PROVE  u \in Seq(Seq(Symbols)) /\ u = s.pieces \o Cut(s.piece)
<1>1. s.piece \in Seq(Symbols) /\ s.pieces \in Seq(Seq(Symbols))
  BY ReadStateFields
<1>2. Trim(s.piece) \in Seq(Symbols)
  BY <1>1, TrimForm
<1>3. PICK t \in Seq(Symbols), a \in Seq(Seq(Symbols)) : t = Trim(s.piece) /\ a = s.pieces
  BY <1>1, <1>2
<1>4. u = (IF t = <<>> THEN a ELSE Append(a, t)) /\ Cut(s.piece) = IF t = <<>> THEN <<>> ELSE <<t>>
  BY <1>3 DEF Cut
<1>5. a \o <<>> = a /\ a \o <<t>> = Append(a, t) /\ Append(a, t) \in Seq(Seq(Symbols))
  BY <1>3
<1>6. CASE t = <<>>
  BY <1>3, <1>4, <1>5, <1>6
<1>7. CASE t # <<>>
  BY <1>3, <1>4, <1>5, <1>7
<1>8. QED BY <1>6, <1>7

(* Two states that are alike also hold the same text. *)
ReadsAlike(s, o) == ReadAlike(s, o) /\ SameText(s, o)

LEMMA LexSteps ==
  ASSUME NEW d, d.names \subseteq NameModes, NEW s \in ReadState, NEW c \in Symbols,
         NEW r, r = Lex(d, s, c)
  PROVE  /\ r \in ReadState /\ (s.beyond => r.beyond)
         /\ \A o \in LexState : \A p : ReadsAlike(s, o) /\ Reads(o, c, p) => r.beyond \/ ReadsAlike(r, p)
<1>1. PICK x : x = LexOf(d, s, c)
  OBVIOUS
<1>2. r = IF s.mode = "code" /\ c = ";" THEN EndPiece(x) ELSE SetPiece(x, Append(x.piece, c))
  <2>1. Lex(d, s, c) =
          IF s.mode = "code" /\ c = ";" THEN EndPiece(LexOf(d, s, c))
          ELSE SetPiece(LexOf(d, s, c), Append(LexOf(d, s, c).piece, c))
    BY Zenon DEF Lex, LexOf, SetPiece
  <2>2. QED BY <1>1, <2>1
<1>3. /\ x \in ReadState /\ SameText(s, x) /\ (s.beyond => x.beyond) /\ Carries(s, c, x)
      /\ s.mode \in NameModes /\ c = ";" => x.beyond
  BY <1>1, InsideSteps DEF Steps
<1>4. ASSUME NEW o \in LexState, NEW p, Reads(o, c, p)
      PROVE  Moves(o, c, p)
  BY <1>4, Zenon DEF Reads, Moves
<1>5. ASSUME NEW y, y.mode = x.mode, y.prev = x.prev, y.tag = x.tag, y.tail = x.tail, y.depth = x.depth,
             y.word = x.word, y.words = x.words, y.named = x.named, y.beyond = x.beyond
      PROVE  Carries(s, c, y)
  <2>1. \A p : ReadAlike(x, p) => ReadAlike(y, p)
    BY <1>5 DEF ReadAlike, SeenAlike, Seen, TagsAlike, PrevsAlike
  <2>2. QED BY <1>3, <1>5, <2>1, Zenon DEF Carries
<1>6. ASSUME s.mode = "code" /\ c = ";"
      PROVE  /\ r \in ReadState /\ (s.beyond => r.beyond)
             /\ \A o \in LexState : \A p : ReadsAlike(s, o) /\ Reads(o, c, p) => r.beyond \/ ReadsAlike(r, p)
  <2>1. PICK u, e : u = (IF Trim(x.piece) = <<>> THEN x.pieces ELSE Append(x.pieces, Trim(x.piece)))
                    /\ e = <<>>
    OBVIOUS
  <2>2. r = SetPieces(x, u, e)
    BY <1>2, <1>6, <2>1, Zenon DEF EndPiece, SetPieces
  <2>3. u \in Seq(Seq(Symbols)) /\ u = x.pieces \o Cut(x.piece) /\ e \in Seq(Symbols)
    <3>1. e \in Seq(Symbols)
      BY <2>1
    <3>2. u = IF Trim(x.piece) = <<>> THEN x.pieces ELSE Append(x.pieces, Trim(x.piece))
      BY <2>1
    <3>3. x \in ReadState
      BY <1>3
    <3>4. u \in Seq(Seq(Symbols)) /\ u = x.pieces \o Cut(x.piece)
      BY ONLY <3>2, <3>3, CutForm
    <3>5. QED BY <3>1, <3>4
  <2>4. /\ r \in ReadState
        /\ ReadFields(r, x.mode, x.prev, x.tag, x.tail, x.depth, e, u, x.word, x.words, x.named, x.beyond)
    BY <1>3, <2>2, <2>3, ReadSetPiecesForm
  <2>5. Carries(s, c, r) /\ r.piece = <<>> /\ r.pieces = s.pieces \o Cut(s.piece) /\ r.beyond = x.beyond
    BY <1>3, <1>5, <2>1, <2>3, <2>4 DEF ReadFields, SameText
  <2>6. ASSUME NEW o \in LexState, NEW p, ReadsAlike(s, o), Reads(o, c, p)
        PROVE  r.beyond \/ ReadsAlike(r, p)
    <3>1. o.mode = "code"
      BY <1>6, <2>6 DEF ReadsAlike, ReadAlike, NameModes
    <3>2. p.pieces = o.pieces \o Cut(o.piece) /\ p.piece = <<>>
      BY <1>6, <2>6, <3>1, Zenon DEF Reads
    <3>3. SameText(r, p)
      BY <2>5, <2>6, <3>2 DEF ReadsAlike, SameText
    <3>4. r.beyond \/ ReadAlike(r, p)
      BY <1>4, <2>5, <2>6 DEF Carries, ReadsAlike
    <3>5. QED BY <3>3, <3>4 DEF ReadsAlike
  <2>7. QED BY <1>3, <2>4, <2>5, <2>6
<1>7. ASSUME ~ (s.mode = "code" /\ c = ";")
      PROVE  /\ r \in ReadState /\ (s.beyond => r.beyond)
             /\ \A o \in LexState : \A p : ReadsAlike(s, o) /\ Reads(o, c, p) => r.beyond \/ ReadsAlike(r, p)
  <2>1. PICK u : u = Append(x.piece, c)
    OBVIOUS
  <2>2. u \in Seq(Symbols)
    <3>1. PICK a \in Seq(Symbols) : a = x.piece
      BY <1>3, ReadStateFields
    <3>2. Append(a, c) \in Seq(Symbols)
      OBVIOUS
    <3>3. QED BY <2>1, <3>1, <3>2
  <2>3. r = SetPiece(x, u)
    BY <1>2, <1>7, <2>1
  <2>4. /\ r \in ReadState
        /\ ReadFields(r, x.mode, x.prev, x.tag, x.tail, x.depth, u, x.pieces, x.word, x.words, x.named, x.beyond)
    BY <1>3, <2>2, <2>3, ReadSetPieceForm
  <2>5. Carries(s, c, r) /\ r.piece = Append(s.piece, c) /\ r.pieces = s.pieces /\ r.beyond = x.beyond
    BY <1>3, <1>5, <2>1, <2>4 DEF ReadFields, SameText
  <2>6. ASSUME NEW o \in LexState, NEW p, ReadsAlike(s, o), Reads(o, c, p), ~ r.beyond
        PROVE  ReadsAlike(r, p)
    <3>1. ~ (o.mode = "code" /\ c = ";")
      BY <1>3, <1>7, <2>5, <2>6 DEF ReadsAlike, ReadAlike
    <3>2. p.pieces = o.pieces /\ p.piece = Append(o.piece, c)
      BY <2>6, <3>1, Zenon DEF Reads
    <3>3. SameText(r, p)
      BY <2>5, <2>6, <3>2 DEF ReadsAlike, SameText
    <3>4. ReadAlike(r, p)
      BY <1>4, <2>5, <2>6 DEF Carries, ReadsAlike
    <3>5. QED BY <3>3, <3>4 DEF ReadsAlike
  <2>7. QED BY <1>3, <2>4, <2>5, <2>6
<1>8. QED BY <1>6, <1>7

(* The reference lexer's states on a text. *)
LexTo(d) == [x \in ReadState \X Symbols |-> Lex(d, x[1], x[2])]
ReadAll(d, text) == FoldLeft(LAMBDA s, c : Lex(d, s, c), Lexed, text)

LEMMA LexToForm ==
  ASSUME NEW d, d.names \subseteq NameModes
  PROVE  /\ LexTo(d) \in [ReadState \X Symbols -> ReadState]
         /\ \A s \in ReadState, c \in Symbols : LexTo(d)[<<s, c>>] = Lex(d, s, c)
<1>1. PICK A : A = ReadState
  OBVIOUS
<1>2. ASSUME NEW s \in A, NEW c \in Symbols
      PROVE  Lex(d, s, c) \in A
  BY <1>1, LexSteps
<1>3. ASSUME NEW x \in A \X Symbols
      PROVE  Lex(d, x[1], x[2]) \in A
  <2>1. x[1] \in A /\ x[2] \in Symbols
    OBVIOUS
  <2>2. QED BY <1>2, <2>1
<1>4. LexTo(d) = [x \in A \X Symbols |-> Lex(d, x[1], x[2])]
  BY <1>1, Zenon DEF LexTo
<1>5. ASSUME NEW s \in A, NEW c \in Symbols
      PROVE  LexTo(d)[<<s, c>>] = Lex(d, s, c)
  <2>1. PICK x : x = <<s, c>>
    OBVIOUS
  <2>2. x \in A \X Symbols /\ x[1] = s /\ x[2] = c
    BY <2>1
  <2>3. LexTo(d)[x] = Lex(d, x[1], x[2])
    BY <1>4, <2>2, Zenon
  <2>4. QED BY <2>1, <2>2, <2>3
<1>6. LexTo(d) \in [A \X Symbols -> A]
  BY <1>3, <1>4, Zenon
<1>7. QED BY <1>1, <1>5, <1>6

LEMMA LexedRead == Lexed \in ReadState /\ ReadsAlike(Lexed, SimpleLexed)
<1>1. PICK e, w : e = <<>> /\ w = {}
  OBVIOUS
<1>2. e \in Seq(Symbols) /\ e \in Seq(Seq(Symbols)) /\ w \in SUBSET Seq(Symbols)
  BY <1>1
<1>3. PICK r : r = [mode |-> "code", prev |-> Absent, tag |-> e, tail |-> e, depth |-> 0,
                    piece |-> e, pieces |-> e, word |-> e, words |-> w, named |-> w, beyond |-> FALSE]
  OBVIOUS
<1>4. r = Lexed
  BY <1>1, <1>3 DEF Lexed
<1>5. "code" \in ReadModes
  BY DEF ReadModes, Modes
<1>6. /\ r \in ReadState /\ r.mode = "code" /\ r.prev = Absent /\ r.tag = e
      /\ r.piece = e /\ r.pieces = e /\ r.word = e /\ r.words = w /\ r.named = w
  <2>1. Absent \in Previous /\ e \in Text /\ e \in Parts /\ w \in Vocabulary
    BY <1>2, Zenon DEF Previous, Text, Parts, Vocabulary
  <2>2. QED BY ONLY <1>3, <1>5, <2>1 DEF ReadState
<1>7. Range(<<>>) = {}
  BY DEF Range
<1>8. QED
  BY <1>1, <1>4, <1>6, <1>7, LexedForm
  DEF ReadsAlike, ReadAlike, SeenAlike, Seen, TagsAlike, PrevsAlike, SameText, Is, NameModes

LEMMA LexToFolds ==
  ASSUME NEW d, d.names \subseteq NameModes, NEW text \in Seq(Symbols)
  PROVE  Folded(ReadAll(d, text), Lexed, LexTo(d), text)
<1> DEFINE n == Len(text)
<1>0. PICK A : A = ReadState
  OBVIOUS
<1>1. n \in Nat /\ DOMAIN text = 1..n /\ Lexed \in A
  BY <1>0, LexedRead, LenProperties
<1>2. PICK F : /\ F = LexTo(d) /\ F \in [A \X Symbols -> A]
               /\ \A s \in A, x \in Symbols : F[<<s, x>>] = Lex(d, s, x)
  BY <1>0, LexToForm
<1>3. PICK g \in [SUBSET (1..n) -> A] : FoldsBy(g, A, Symbols, Lexed, F, text)
  BY <1>1, <1>2, FoldHasSteps
<1>4. \A s \in SUBSET (1..n) : g[s] = IF s = {} THEN Lexed ELSE Lex(d, g[s \ {Max(s)}], text[Max(s)])
  BY <1>2, <1>3, Zenon DEF FoldsBy
<1>5. g = [s \in SUBSET (1..n) |-> IF s = {} THEN Lexed ELSE Lex(d, g[s \ {Max(s)}], text[Max(s)])]
  BY <1>4, Zenon
<1>6. PICK h : /\ h = [s \in SUBSET (1..n) |-> IF s = {} THEN Lexed ELSE Lex(d, h[s \ {Max(s)}], text[Max(s)])]
               /\ ReadAll(d, text) = h[1..n]
  BY <1>1, <1>5, ZenonT(60) DEF ReadAll, FoldLeft, MapThenFoldSet
<1>7. \A s \in SUBSET (1..n) : h[s] = IF s = {} THEN Lexed ELSE Lex(d, h[s \ {Max(s)}], text[Max(s)])
  BY <1>6, Zenon
<1>8. ASSUME NEW s \in SUBSET (1..n)
      PROVE  /\ s = {} => h[s] = Lexed
             /\ s # {} /\ h[s \ {Max(s)}] \in A => h[s] = F[<<h[s \ {Max(s)}], text[Max(s)]>>]
  BY <1>2, <1>3, <1>7, Zenon DEF FoldsBy
<1>9. FoldsTo(ReadAll(d, text), A, Lexed, F, text)
  BY <1>6, <1>8, Zenon DEF FoldsTo
<1>10. QED BY <1>1, <1>2, <1>9, FoldedSteps

(* Having read a whole text, the reference lexer has met what is beyond    *)
(* query.rs, or is as that is.                                             *)
LEMMA ReadAlikeToTheEnd ==
  ASSUME NEW d, d.names \subseteq NameModes, NEW text \in Seq(Symbols),
         NEW run, LexRun(run, text)
  PROVE  /\ ReadAll(d, text) \in ReadState
         /\ ReadAll(d, text).beyond \/ ReadsAlike(ReadAll(d, text), run[Len(text)])
<1>0. PICK n \in Nat : n = Len(text)
  BY TextForm
<1>1. PICK q : Folding(q, Lexed, LexTo(d), text) /\ q[n] = ReadAll(d, text)
  BY <1>0, LexToFolds DEF Folded
<1>2. PICK A, F : A = ReadState /\ F = LexTo(d) /\ Lexed \in A /\ F \in [A \X Symbols -> A]
  BY LexToForm, LexedRead
<1>3. \A k \in 0..n : q[k] \in ReadState
  BY <1>0, <1>1, <1>2, FoldingTyped
<1>4. run[0] = SimpleLexed /\ \A k \in 0..n : run[k] \in LexState
  BY <1>0 DEF LexRun
<1> DEFINE G == {k \in 0..n : q[k].beyond \/ ReadsAlike(q[k], run[k])}
<1>5. 0 \in G
  BY <1>1, <1>4, LexedRead DEF Folding
<1>6. ASSUME NEW k \in 0..n, k \in G, k < n
      PROVE  k + 1 \in G
  <2>1. k + 1 \in 1..n /\ k + 1 \in 0..n /\ (k + 1) - 1 = k
    BY <1>6
  <2>2. PICK s \in ReadState, o \in LexState, c \in Symbols : s = q[k] /\ o = run[k] /\ c = text[k + 1]
    BY <1>0, <1>3, <1>4, <2>1, TextForm
  <2>3. q[k + 1] = Lex(d, s, c)
    <3>1. q[k + 1] = LexTo(d)[<<s, c>>]
      BY <1>0, <1>1, <2>1, <2>2 DEF Folding
    <3>2. QED BY <3>1, LexToForm
  <2>4. Reads(o, c, run[k + 1])
    BY <1>0, <2>1, <2>2 DEF LexRun
  <2>5. s.beyond \/ ReadsAlike(s, o)
    BY <1>6, <2>2
  <2>6. q[k + 1].beyond \/ ReadsAlike(q[k + 1], run[k + 1])
    BY <2>3, <2>4, <2>5, LexSteps
  <2>7. QED BY <2>1, <2>6
<1> HIDE DEF G
<1>7. n \in G
  <2>1. n \in Int /\ n \in 0..n /\ 0 \in Nat
    OBVIOUS
  <2>2. \A k \in 0..n : k \in G
    BY <1>5, <1>6, <2>1, Climb
  <2>3. QED BY <2>1, <2>2
<1>8. n \in 0..n
  OBVIOUS
<1>9. QED BY <1>0, <1>1, <1>3, <1>7, <1>8 DEF G

(* What a dialect's reference says is what query.rs reads, if it is known. *)
LEMMA KnownIsRead ==
  ASSUME NEW d \in Dialects, NEW text \in Seq(Symbols), Known(Reference(d, text))
  PROVE  /\ SimpleReference(text).mode # "dollar"
         /\ Reference(d, text).pieces = SimpleReference(text).pieces
         /\ Reference(d, text).words \cup Reference(d, text).named = Range(SimpleReference(text).words)
<1>0. d.names \subseteq NameModes
  BY DEF Dialects, SqlServer, Postgres, Sqlite, NameModes
<1>1. PICK run : LexRun(run, text) /\ run[Len(text)] = FoldLeft(SimpleLex, SimpleLexed, text)
  BY LexRuns
<1>2. PICK n \in Nat : n = Len(text)
  BY TextForm
<1>3. PICK o \in LexState : o = run[Len(text)]
  <2>1. n \in 0..Len(text)
    BY <1>2
  <2>2. QED BY <1>1, <1>2, <2>1 DEF LexRun
<1>4. PICK s \in ReadState : s = ReadAll(d, text) /\ (s.beyond \/ ReadsAlike(s, o))
  BY <1>0, <1>1, <1>3, ReadAlikeToTheEnd
<1>5. PICK e \in ReadState : e = EndWord(s) /\ LeftAlone(s, e) /\ Stops(s, e)
  BY EndWordRead
<1>6. PICK r : r = EndPiece(e)
  OBVIOUS
<1>7. Reference(d, text) = r
  BY <1>4, <1>5, <1>6, Zenon DEF Reference, ReadAll
<1>8. /\ r.mode = e.mode /\ r.beyond = e.beyond /\ r.words = e.words /\ r.named = e.named
      /\ r.pieces = e.pieces \o Cut(e.piece)
  <2>1. PICK u, z : u = (IF Trim(e.piece) = <<>> THEN e.pieces ELSE Append(e.pieces, Trim(e.piece)))
                    /\ z = <<>>
    OBVIOUS
  <2>2. r = SetPieces(e, u, z)
    BY <1>6, <2>1, Zenon DEF EndPiece, SetPieces
  <2>3. u \in Seq(Seq(Symbols)) /\ u = e.pieces \o Cut(e.piece) /\ z \in Seq(Symbols)
    <3>1. z \in Seq(Symbols)
      BY <2>1
    <3>2. u = IF Trim(e.piece) = <<>> THEN e.pieces ELSE Append(e.pieces, Trim(e.piece))
      BY <2>1
    <3>3. e \in ReadState
      BY <1>5
    <3>4. u \in Seq(Seq(Symbols)) /\ u = e.pieces \o Cut(e.piece)
      BY ONLY <3>2, <3>3, CutForm
    <3>5. QED BY <3>1, <3>4
  <2>4. ReadFields(r, e.mode, e.prev, e.tag, e.tail, e.depth, z, u, e.word, e.words, e.named, e.beyond)
    BY <2>2, <2>3, ReadSetPiecesForm
  <2>5. QED BY <2>3, <2>4 DEF ReadFields
<1>9. ~ s.beyond /\ s.mode # "dollar"
  BY <1>5, <1>7, <1>8 DEF Known, LeftAlone, Is
<1>10. ReadsAlike(s, o)
  BY <1>4, <1>9
<1>11. o.mode # "dollar"
  BY <1>9, <1>10 DEF ReadsAlike, ReadAlike
<1>12. r.pieces = o.pieces \o Cut(o.piece)
  BY <1>5, <1>8, <1>10 DEF ReadsAlike, LeftAlone, SameText
<1>13. r.words \cup r.named = Range(Ended(o))
  <2>1. PICK p : p = [word |-> <<>>, words |-> Ended(o)]
    OBVIOUS
  <2>2. WordEnded(o, p) /\ p.words = Ended(o)
    BY <2>1 DEF WordEnded, Ended
  <2>3. SeenAlike(s, o)
    BY <1>10 DEF ReadsAlike, ReadAlike
  <2>4. SeenAlike(e, p)
    BY <1>5, <2>2, <2>3, StopsAlike
  <2>5. QED BY <1>8, <2>2, <2>4 DEF SeenAlike, Seen
<1>14. QED BY <1>1, <1>3, <1>7, <1>11, <1>12, <1>13, ReferenceIs

-----------------------------------------------------------------------------
(* A text is split at the semicolons outside of the literals, quoted names *)
(* and comments of its dialect, and nowhere else, whatever the text and    *)
(* for each of the dialects, unless the text holds what the code does not  *)
(* know of that dialect (see Lexed): what the splitter skips ahead over is *)
(* what a lexer that never looks ahead is inside of                        *)
(* (split_sql_statements).                                                 *)
THEOREM StatementsAreFound == Spec => []SplitsOutsideQuotes
<1>1. Answered => SplitsOutsideQuotes
  <2> SUFFICES ASSUME Answered, Returned("text"), NEW d \in Dialects, Known(Reference(d, input))
               PROVE  output.statements = Reference(d, input).pieces
    BY Zenon DEF SplitsOutsideQuotes
  <2>1. /\ input \in Texts
        /\ output = [statements |-> SplitSqlStatements(input), mayWrite |-> SqlMayWrite(input),
                     mayChange |-> SqlMayChangeMetadata(input)]
    BY DEF Answered, Returned
  <2>2. output.statements = SplitSqlStatements(input)
    BY <2>1
  <2>3. input \in Seq(Symbols)
    BY <2>1, TextAssumption
  <2>4. QED BY <2>2, <2>3, KnownIsRead, SplitsByReference
<1>2. QED
  BY <1>1, InitAnswered, NextAnswered, PTL DEF Spec

(* A word that makes a text one that writes, or one that changes metadata, *)
(* is found wherever the text has it outside of the literals, quoted names *)
(* and comments of its dialect, and nowhere else but in bracketed names,   *)
(* whatever the text and the words and for each of the dialects, with the  *)
(* same exceptions: the two lexers of query.rs, one of which reads what    *)
(* the other has cut off and trimmed, agree with one that never looks      *)
(* ahead (sql_may_write, sql_may_change_metadata, SqlTokenIter).           *)
THEOREM WritesAreFound == Spec => []WritesAreSeen
<1>1. Answered => WritesAreSeen
  <2> SUFFICES ASSUME Answered, Returned("text"), Range(input) \cap {"cr", "bq"} = {},
                      NEW d \in Dialects, Known(Reference(d, input))
               PROVE  LET seen == Reference(d, input).words \cup Reference(d, input).named IN
                        /\ output.mayWrite = (seen \cap WriteWords # {})
                        /\ output.mayChange = (seen \cap MetadataWords # {})
    BY Zenon DEF WritesAreSeen
  <2>1. /\ input \in Texts
        /\ output = [statements |-> SplitSqlStatements(input), mayWrite |-> SqlMayWrite(input),
                     mayChange |-> SqlMayChangeMetadata(input)]
    BY DEF Answered, Returned
  <2>2. output.mayWrite = SqlMayWrite(input) /\ output.mayChange = SqlMayChangeMetadata(input)
    BY <2>1
  <2>3. input \in Seq(Symbols)
    BY <2>1, TextAssumption
  <2>4. Clean(input)
    <3>1. \A m \in 1..Len(input) : input[m] \in Range(input)
      BY <2>3 DEF Range
    <3>2. QED BY <3>1 DEF Clean
  <2>5. PICK seen : seen = Reference(d, input).words \cup Reference(d, input).named
    OBVIOUS
  <2>6. seen = TokensOf(SplitSqlStatements(input))
    BY <2>3, <2>4, <2>5, KnownIsRead, WordsAreTokens
  <2>7. /\ HasWord(input, WriteWords) = (seen \cap WriteWords # {})
        /\ HasWord(input, MetadataWords) = (seen \cap MetadataWords # {})
    <3>1. HasWord(input, WriteWords) \in BOOLEAN /\ HasWord(input, MetadataWords) \in BOOLEAN
      BY Zenon DEF HasWord
    <3>2. QED BY <2>6, <3>1, HasWordIs
  <2>8. QED BY <2>2, <2>5, <2>7 DEF SqlMayWrite, SqlMayChangeMetadata
<1>2. QED
  BY <1>1, InitAnswered, NextAnswered, PTL DEF Spec
=============================================================================
