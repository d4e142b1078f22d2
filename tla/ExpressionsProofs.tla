-------------------------- MODULE ExpressionsProofs --------------------------
(***************************************************************************)
(* The expression language keeps what it promises, for every table of      *)
(* interpolations, documents of every depth and integers of every width.   *)
(* Three inductions, each along one of the loops of a call: an amount is   *)
(* exact (the loops of formatMinorUnits), a path resolves to what the      *)
(* grammar says it denotes (the loop of Extract), and replacing one        *)
(* interpolation after another is replacing all at once (the loop of       *)
(* interpolateString).  The third rests on the other two.                  *)
(***************************************************************************)
EXTENDS ExpressionLanguage, WellFoundedInduction, SequenceTheorems, TLAPS

-----------------------------------------------------------------------------
(***************************************************************************)
(* Amounts.  One invariant says what each loop of formatMinorUnits has     *)
(* computed so far, and every other step of a call leaves it alone.        *)
(***************************************************************************)
Size(n) == IF n < 0 THEN -n ELSE n

Formatting == {"format", "scale", "pad", "formatted"}

(* The decimal stands for the size of the amount, with this many digits.   *)
Represents(d, places) ==
  /\ d.negative = (amount < 0)
  /\ d.whole \in Nat /\ d.frac \in Nat
  /\ d.whole * Ten[exponent] + d.frac = Size(amount)
  /\ d.places \in places

FormatInv ==
  /\ pc \in Formatting => amount \in Signed /\ exponent \in 0 .. MaxExponent
  /\ pc = "scale" => /\ exponent # 0 /\ mag = Size(amount)
                     /\ count \in 0 .. exponent /\ div = Ten[count]
  /\ pc = "pad" => exponent # 0 /\ Represents(printed, 1 .. exponent)
  /\ pc = "formatted" => Represents(printed, {exponent})

-----------------------------------------------------------------------------
LEMMA SmallRemainder ==
  ASSUME NEW a \in Nat, NEW b \in Nat, a < b
  PROVE  a % b = a
  BY SMT

LEMMA QuotientAndRemainder ==
  ASSUME NEW a \in Nat, NEW b \in Nat \ {0}
  PROVE  /\ a \div b \in Nat /\ a % b \in 0 .. b - 1
         /\ (a \div b) * b + (a % b) = a
  BY SMT

(* The magnitude of every signed integer, the least one included, is an    *)
(* unsigned integer.                                                       *)
LEMMA MagnitudeIsSize ==
  ASSUME NEW n \in Signed
  PROVE  Magnitude(n) = Size(n) /\ Size(n) \in 0 .. Half
<1>1. Half \in Nat \ {0} /\ 2 * Half \in Nat /\ Half < 2 * Half
  BY PowersFit
<1>2. CASE n < 0
  <2>1. -(n + 1) \in Nat /\ -(n + 1) < 2 * Half
    BY <1>1, <1>2 DEF Signed
  <2>2. Unsigned(-(n + 1)) = -(n + 1)
    BY <2>1, <1>1, SmallRemainder DEF Unsigned
  <2>3. -(n + 1) + 1 = -n /\ -n \in Nat /\ -n <= Half /\ -n < 2 * Half
    BY <1>1, <1>2 DEF Signed
  <2>4. Unsigned(-(n + 1) + 1) = -n
    BY <2>3, <1>1, SmallRemainder DEF Unsigned
  <2> QED BY <1>2, <2>2, <2>3, <2>4 DEF Magnitude, Size
<1>3. CASE ~ (n < 0)
  <2>1. n \in Nat /\ n < 2 * Half /\ n <= Half
    BY <1>1, <1>3 DEF Signed
  <2>2. Unsigned(n) = n
    BY <2>1, <1>1, SmallRemainder DEF Unsigned
  <2> QED BY <1>3, <2>1, <2>2 DEF Magnitude, Size
<1> QED BY <1>2, <1>3

(* A set of natural numbers that is not empty has a least element.         *)
LEMMA LeastOf ==
  ASSUME NEW T \in SUBSET Nat, T # {}
  PROVE  \E i \in T : \A j \in T : i <= j
<1>1. PICK i \in T : \A j \in T : ~ (<<j, i>> \in OpToRel(<, Nat))
  BY NatLessThanWellFounded, WFMin
<1>2. \A j \in T : ~ (j < i)
  BY <1>1 DEF OpToRel
<1> QED BY <1>2

(* A fraction below a power of ten is written with at most that many digits.*)
LEMMA WidthIsBounded ==
  ASSUME NEW n \in Nat, NEW e \in 1 .. MaxExponent, n < Ten[e]
  PROVE  Width(n) \in 1 .. e
<1> DEFINE T == {k \in 1 .. MaxExponent : n < Ten[k]}
<1>1. MaxExponent \in Nat /\ \A k \in 1 .. MaxExponent : Ten[k] \in Nat
  BY PowersFit
<1>2. T \in SUBSET Nat /\ e \in T
  BY <1>1
<1>3. PICK k \in T : \A j \in T : k <= j
  <2> HIDE DEF T
  <2> QED BY <1>2, LeastOf
<1>4. \A j \in 1 .. k - 1 : Ten[j] <= n
  BY <1>1, <1>3
<1>5. \E w \in 1 .. MaxExponent : n < Ten[w] /\ \A j \in 1 .. w - 1 : Ten[j] <= n
  BY <1>3, <1>4
<1> DEFINE w == Width(n)
<1>6. w \in 1 .. MaxExponent /\ n < Ten[w] /\ \A j \in 1 .. w - 1 : Ten[j] <= n
  BY <1>5 DEF Width
<1>7. ~ (e < w)
  <2> SUFFICES ASSUME e < w PROVE FALSE
    OBVIOUS
  <2>1. e \in 1 .. w - 1
    BY <1>1, <1>6
  <2>2. Ten[e] <= n
    BY <1>6, <2>1
  <2> QED BY <1>1, <2>2
<1> QED BY <1>1, <1>6, <1>7

-----------------------------------------------------------------------------
LEMMA InitFormat == Init => FormatInv
  BY DEF Init, FormatInv, Formatting

LEMMA FormatWholeInv ==
  ASSUME FormatInv, FormatWhole
  PROVE  FormatInv'
<1>1. amount \in Signed /\ exponent = 0 /\ Ten[0] = 1 /\ Half \in Nat /\ 0 \in 0 .. MaxExponent
  BY PowersFit DEF FormatInv, FormatWhole, Formatting
<1>2. Size(amount) \in Nat /\ Size(amount) * 1 + 0 = Size(amount)
  BY <1>1 DEF Size, Signed
<1>3. /\ pc' = "formatted" /\ amount' = amount /\ exponent' = exponent
      /\ printed' = Decimal(amount < 0, Size(amount), 0, 0)
  BY DEF FormatWhole, Size
<1>4. Represents(printed, {exponent})'
  BY <1>1, <1>2, <1>3 DEF Represents, Decimal, Size
<1> QED BY <1>1, <1>3, <1>4 DEF FormatInv, Formatting

LEMMA BeginScaleInv ==
  ASSUME FormatInv, BeginScale
  PROVE  FormatInv'
<1>1. amount \in Signed /\ exponent \in 0 .. MaxExponent /\ exponent # 0
  BY DEF FormatInv, BeginScale, Formatting
<1>2. /\ pc' = "scale" /\ amount' = amount /\ exponent' = exponent
      /\ mag' = Size(amount) /\ count' = 0 /\ div' = Ten[0]
  BY <1>1, MagnitudeIsSize, PowersFit DEF BeginScale
<1>3. 0 \in 0 .. exponent
  BY <1>1, PowersFit
<1> QED BY <1>1, <1>2, <1>3 DEF FormatInv, Formatting, Size

LEMMA ScaleInv ==
  ASSUME FormatInv, Scale
  PROVE  FormatInv'
<1>1. /\ amount \in Signed /\ exponent \in 0 .. MaxExponent /\ exponent # 0
      /\ mag = Size(amount) /\ count \in 0 .. exponent /\ count < exponent
      /\ div = Ten[count] /\ MaxExponent \in Nat /\ Half \in Nat \ {0}
  BY PowersFit DEF FormatInv, Scale, Formatting
<1>2. count + 1 \in 1 .. MaxExponent /\ count + 1 \in 0 .. exponent
  BY <1>1
<1>3. Ten[count + 1] = 10 * Ten[count + 1 - 1] /\ count + 1 - 1 = count
  BY <1>1, <1>2, PowersFit
<1>4. Ten[count] \in Nat /\ Ten[count + 1] \in 1 .. 2 * Half - 1
  BY <1>1, <1>2, PowersFit
<1>5. Ten[count] * 10 = Ten[count + 1]
  BY <1>3, <1>4
<1>6. Ten[count + 1] \in Nat /\ 2 * Half \in Nat /\ Ten[count + 1] < 2 * Half
  BY <1>1, <1>4
<1>7. Unsigned(div * 10) = Ten[count + 1]
  BY <1>1, <1>5, <1>6, SmallRemainder DEF Unsigned
<1>8. /\ pc' = "scale" /\ amount' = amount /\ exponent' = exponent /\ mag' = mag
      /\ count' = count + 1 /\ div' = Ten[count + 1]
  BY <1>7 DEF Scale
<1> QED BY <1>1, <1>2, <1>8 DEF FormatInv, Formatting, Size

LEMMA SplitInv ==
  ASSUME FormatInv, Split
  PROVE  FormatInv'
<1>1. /\ amount \in Signed /\ exponent \in 1 .. MaxExponent
      /\ mag = Size(amount) /\ div = Ten[exponent]
  BY PowersFit DEF FormatInv, Split, Formatting
<1>2. mag \in Nat /\ Ten[exponent] \in Nat \ {0}
  BY <1>1, MagnitudeIsSize, PowersFit
<1> DEFINE whole == mag \div div
           frac  == mag % div
<1>3. /\ whole \in Nat /\ frac \in 0 .. Ten[exponent] - 1
      /\ whole * Ten[exponent] + frac = mag
  BY <1>1, <1>2, QuotientAndRemainder
<1>4. frac \in Nat /\ frac < Ten[exponent]
  BY <1>2, <1>3
<1>5. Width(frac) \in 1 .. exponent
  <2> HIDE DEF frac
  <2> QED BY <1>1, <1>4, WidthIsBounded
<1>6. /\ pc' = "pad" /\ amount' = amount /\ exponent' = exponent
      /\ printed' = Decimal(amount < 0, whole, frac, Width(frac))
  BY DEF Split
<1>7. Represents(printed, 1 .. exponent)'
  <2> HIDE DEF whole, frac
  <2> QED BY <1>1, <1>3, <1>4, <1>5, <1>6 DEF Represents, Decimal, Size
<1>8. exponent # 0 /\ exponent \in 0 .. MaxExponent
  BY <1>1, PowersFit
<1> QED BY <1>1, <1>6, <1>7, <1>8 DEF FormatInv, Formatting

LEMMA PadInv ==
  ASSUME FormatInv, Pad
  PROVE  FormatInv'
<1>1. /\ amount \in Signed /\ exponent \in 0 .. MaxExponent /\ exponent # 0
      /\ Represents(printed, 1 .. exponent) /\ exponent \in Nat
  BY PowersFit DEF FormatInv, Pad, Formatting
<1>2. CASE printed.places < exponent
  <2>1. /\ printed' = [printed EXCEPT !.places = @ + 1] /\ pc' = "pad"
        /\ amount' = amount /\ exponent' = exponent
    BY <1>2 DEF Pad
  <2>2. printed.places + 1 \in 1 .. exponent
    BY <1>1, <1>2 DEF Represents
  <2>3. /\ printed'.negative = printed.negative /\ printed'.whole = printed.whole
        /\ printed'.frac = printed.frac
    BY <2>1
  <2> QED BY <1>1, <2>1, <2>2, <2>3 DEF FormatInv, Formatting, Represents, Size
<1>3. CASE ~ (printed.places < exponent)
  <2>1. /\ printed' = printed /\ pc' = "formatted"
        /\ amount' = amount /\ exponent' = exponent
    BY <1>3 DEF Pad
  <2>2. printed.places = exponent
    BY <1>1, <1>3 DEF Represents
  <2> QED BY <1>1, <2>1, <2>2 DEF FormatInv, Formatting, Represents, Size
<1> QED BY <1>2, <1>3

LEMMA AmountMajorInv ==
  ASSUME FormatInv, AmountMajor
  PROVE  FormatInv'
<1>1. \/ pc' = "error" 
      \/ /\ pc' = "format" /\ amount' \in ToInt64(value)
         /\ exponent' \in 0 .. MaxExponent
  BY ExponentsFit DEF AmountMajor, Raise, HasExponent
<1>2. ToInt64(value) \subseteq Signed
  BY DEF ToInt64
<1>3. pc' = "format" => amount' \in Signed
  BY <1>1, <1>2
<1>4. CASE pc' = "error"
  BY <1>4 DEF FormatInv, Formatting
<1>5. CASE pc' = "format"
  <2>1. (exponent \in 0 .. MaxExponent)'
    BY <1>1, <1>5
  <2>2. (amount \in Signed)'
    BY <1>3, <1>5 DEF Signed
  <2> QED BY <1>5, <2>1, <2>2 DEF FormatInv, Formatting
<1> QED BY <1>1, <1>4, <1>5

(* Every other step ends outside of formatMinorUnits.                      *)
LEMMA OtherInv ==
  ASSUME FormatInv,
         \/ Begin \/ NextInterpolation \/ EndOfPath \/ FieldSegment \/ IndexSegment
         \/ Project \/ Malformed \/ Missing \/ Bare \/ OtherTransform \/ Formatted
         \/ Replace \/ Compare
  PROVE  FormatInv'
<1>1. pc' \notin Formatting
  BY DEF Begin, NextInterpolation, EndOfPath, FieldSegment, IndexSegment, Project,
         Malformed, Missing, Bare, OtherTransform, Formatted, Replace, Compare, At,
         Step, Found, Unresolved, Made, Raise, Lookup, Formatting
<1> QED BY <1>1 DEF FormatInv, Formatting

LEMMA NextFormat == FormatInv /\ [Next]_vars => FormatInv'
<1> SUFFICES ASSUME FormatInv, [Next]_vars PROVE FormatInv'
  OBVIOUS
<1>1. CASE FormatAmount
  BY <1>1, FormatWholeInv, BeginScaleInv, ScaleInv, SplitInv, PadInv DEF FormatAmount, Format
<1>2. CASE AmountMajor
  BY <1>2, AmountMajorInv
<1>3. CASE UNCHANGED vars
  BY <1>3 DEF vars, amountVars, FormatInv, Formatting, Represents, Size, Signed
<1>4. CASE Finished
  BY <1>3, <1>4 DEF Finished
<1> QED
  BY <1>1, <1>2, <1>3, <1>4, OtherInv DEF Next

LEMMA ExactWhenFormatted == FormatInv => AmountIsExact
<1> SUFFICES ASSUME FormatInv, pc = "formatted"
             PROVE  printed.places = exponent /\ MinorUnits(printed) = amount
  BY DEF AmountIsExact
<1>1. Represents(printed, {exponent}) /\ amount \in Signed /\ Half \in Nat
  BY PowersFit DEF FormatInv, Formatting
<1>2. amount \in Int
  BY <1>1 DEF Signed
<1>3. MinorUnits(printed) = IF amount < 0 THEN -Size(amount) ELSE Size(amount)
  BY <1>1 DEF Represents, MinorUnits
<1> QED BY <1>1, <1>2, <1>3 DEF Represents, Size

(* amount_major (vectors/money/conversions.json) is exact: whatever the    *)
(* width of the integers and the table of exponents, what formatMinorUnits *)
(* returns has the exponent's number of digits and reads as the amount.    *)
THEOREM ExactAmounts == Spec => []AmountIsExact
<1>1. Spec => []FormatInv
  BY InitFormat, NextFormat, PTL DEF Spec
<1> QED BY <1>1, ExactWhenFormatted, PTL

-----------------------------------------------------------------------------
(***************************************************************************)
(* Extraction.  The routes of a document are levels of a recursion; what   *)
(* the proofs need of them is how a route is continued, that it is         *)
(* determined by its path, and that it passes every prefix of its path.    *)
(***************************************************************************)
IsLevels(level, doc, k) ==
  level = [n \in 0 .. k |-> IF n = 0 THEN {<<<<>>, doc>>}
                            ELSE UNION {Beyond(r) : r \in level[n - 1]}]

(* The recursion that defines the levels has a solution.                   *)
LEMMA LevelsExist ==
  ASSUME NEW doc, NEW k \in Nat
  PROVE  \E level : IsLevels(level, doc, k)
<1> DEFINE T == {n \in Nat : ~ \E level : IsLevels(level, doc, n)}
<1> SUFFICES ASSUME T # {} PROVE FALSE
  OBVIOUS
<1>1. PICK n \in T : \A j \in T : n <= j
  <2> T \in SUBSET Nat
    OBVIOUS
  <2> HIDE DEF T
  <2> QED
    BY LeastOf
<1>2. CASE n = 0
  <2>1. IsLevels([i \in 0 .. 0 |-> {<<<<>>, doc>>}], doc, 0)
    BY DEF IsLevels
  <2> QED
    BY <1>1, <1>2, <2>1
<1>3. CASE n # 0
  <2>1. n - 1 \in Nat /\ n \in Nat /\ n - 1 \notin T
    BY <1>1, <1>3
  <2>2. PICK low : IsLevels(low, doc, n - 1)
    BY <2>1
  <2> DEFINE Further(S) == UNION {Beyond(r) : r \in S}
             level == [i \in 0 .. n |-> IF i = n THEN Further(low[n - 1]) ELSE low[i]]
  <2>3. \A i \in 0 .. n - 1 : low[i] = IF i = 0 THEN {<<<<>>, doc>>} ELSE Further(low[i - 1])
    BY <2>2 DEF IsLevels
  <2>4. level[n] = Further(low[n - 1]) /\ level[n - 1] = low[n - 1]
    BY <2>1
  <2>5. \A i \in 0 .. n - 1 : level[i] = low[i] /\ (i # 0 => level[i - 1] = low[i - 1])
    BY <2>1
  <2>6. level = [i \in 0 .. n |-> level[i]]
    OBVIOUS
  <2> HIDE DEF level, Further
  <2>7. \A i \in 0 .. n - 1 :
          level[i] = IF i = 0 THEN {<<<<>>, doc>>} ELSE Further(level[i - 1])
    BY <2>3, <2>5
  <2>8. level[n] = IF n = 0 THEN {<<<<>>, doc>>} ELSE Further(level[n - 1])
    BY <1>3, <2>4
  <2>9. \A i \in 0 .. n : i \in 0 .. n - 1 \/ i = n
    BY <2>1
  <2>10. \A i \in 0 .. n :
           level[i] = IF i = 0 THEN {<<<<>>, doc>>} ELSE Further(level[i - 1])
    BY <2>7, <2>8, <2>9
  <2>11. IsLevels(level, doc, n)
    BY <2>6, <2>10 DEF IsLevels, Further
  <2> QED
    BY <1>1, <2>11
<1> QED
  BY <1>2, <1>3

LEMMA RoutesAreLevels ==
  ASSUME NEW doc
  PROVE  \E level : /\ IsLevels(level, doc, MaxDepth)
                    /\ Routes(doc) = UNION {level[n] : n \in 0 .. MaxDepth}
<1> DEFINE level == CHOOSE level : IsLevels(level, doc, MaxDepth)
<1>1. IsLevels(level, doc, MaxDepth)
  BY DocumentsAreShallow, LevelsExist, Zenon
<1>2. Routes(doc) = UNION {level[n] : n \in 0 .. MaxDepth}
  BY DEF Routes, IsLevels
<1> QED
  BY <1>1, <1>2

-----------------------------------------------------------------------------
(* Every sequence is a list of what it holds.                              *)
LEMMA SequencesAreLists == ASSUME NEW S, NEW s \in Seq(S) PROVE IsList(s)
<1>1. Len(s) \in Nat /\ s \in [1 .. Len(s) -> S]
  OBVIOUS
<1>2. s \in [1 .. Len(s) -> ToSet(s)]
  BY <1>1 DEF ToSet
<1> QED
  BY <1>1, <1>2, SeqDef DEF IsList

LEMMA ListFacts ==
  ASSUME NEW s, IsList(s)
  PROVE  Len(s) \in Nat /\ DOMAIN s = 1 .. Len(s)
  BY DEF IsList

(* A list with one thing more at its end.                                  *)
LEMMA Appended ==
  ASSUME NEW s, IsList(s), NEW e
  PROVE  /\ IsList(Append(s, e)) /\ Len(Append(s, e)) = Len(s) + 1
         /\ Append(s, e)[Len(s) + 1] = e
         /\ \A i \in 1 .. Len(s) : Append(s, e)[i] = s[i]
         /\ \A m \in 0 .. Len(s) : SubSeq(Append(s, e), 1, m) = SubSeq(s, 1, m)
         /\ SubSeq(s, 1, Len(s)) = s
<1> DEFINE S == ToSet(s) \cup {e}
<1>1. s \in Seq(S) /\ e \in S
  <2>1. s \in Seq(ToSet(s))
    BY DEF IsList
  <2> QED
    BY <2>1, SeqMonotonic
<1> HIDE DEF S
<1>2. /\ Append(s, e) \in Seq(S) /\ Len(Append(s, e)) = Len(s) + 1
      /\ \A i \in 1 .. Len(s) : Append(s, e)[i] = s[i]
      /\ Append(s, e)[Len(s) + 1] = e
  BY <1>1, AppendProperties
<1>3. ASSUME NEW m \in 0 .. Len(s)
      PROVE  SubSeq(Append(s, e), 1, m) = SubSeq(s, 1, m)
  <2>1. Len(s) \in Nat /\ m \in Nat
    BY <1>1
  <2>2. \A i \in 1 .. m : s[i] \in S /\ Append(s, e)[i] = s[i]
    BY <1>1, <1>2, <2>1
  <2>3. /\ SubSeq(Append(s, e), 1, m) \in Seq(S) /\ SubSeq(s, 1, m) \in Seq(S)
        /\ Len(SubSeq(Append(s, e), 1, m)) = IF 1 <= m THEN m - 1 + 1 ELSE 0
        /\ Len(SubSeq(s, 1, m)) = IF 1 <= m THEN m - 1 + 1 ELSE 0
        /\ \A i \in 1 .. m - 1 + 1 : /\ SubSeq(Append(s, e), 1, m)[i] = Append(s, e)[1 + i - 1]
                                     /\ SubSeq(s, 1, m)[i] = s[1 + i - 1]
    BY <2>1, <2>2, SubSeqProperties
  <2>4. Len(SubSeq(s, 1, m)) = m /\ Len(SubSeq(Append(s, e), 1, m)) = m
    BY <2>1, <2>3
  <2>5. \A i \in 1 .. m : SubSeq(Append(s, e), 1, m)[i] = SubSeq(s, 1, m)[i]
    BY <2>1, <2>2, <2>3
  <2> QED
    BY <2>3, <2>4, <2>5, SeqEqual
<1> QED
  BY <1>1, <1>2, <1>3, SequencesAreLists, SubSeqFull

LEMMA AppendedSame ==
  ASSUME NEW s, IsList(s), NEW t, IsList(t), NEW e, NEW f, Append(s, e) = Append(t, f)
  PROVE  s = t /\ e = f
<1> DEFINE a == Append(s, e)
           b == Append(t, f)
<1>1. /\ Len(a) = Len(s) + 1 /\ a[Len(s) + 1] = e /\ Len(s) \in Nat
      /\ SubSeq(a, 1, Len(s)) = SubSeq(s, 1, Len(s)) /\ SubSeq(s, 1, Len(s)) = s
  <2>1. Len(s) \in Nat /\ Len(s) \in 0 .. Len(s)
    BY ListFacts
  <2> QED
    BY <2>1, Appended
<1>2. /\ Len(b) = Len(t) + 1 /\ b[Len(t) + 1] = f /\ Len(t) \in Nat
      /\ SubSeq(b, 1, Len(t)) = SubSeq(t, 1, Len(t)) /\ SubSeq(t, 1, Len(t)) = t
  <2>1. Len(t) \in Nat /\ Len(t) \in 0 .. Len(t)
    BY ListFacts
  <2> QED
    BY <2>1, Appended
<1>3. a = b
  OBVIOUS
<1> HIDE DEF a, b
<1>4. Len(s) = Len(t)
  <2>1. Len(s) + 1 = Len(t) + 1
    BY <1>1, <1>2, <1>3, Zenon
  <2>2. Len(s) \in Nat /\ Len(t) \in Nat
    BY <1>1, <1>2, Zenon
  <2> QED
    BY <2>1, <2>2
<1> QED
  BY <1>1, <1>2, <1>3, <1>4, Zenon

-----------------------------------------------------------------------------
(* What a segment leads to, from a value.                                  *)
Leads(v, segment, w) ==
  \/ /\ segment = [field |-> segment.field]
     /\ HasField(v, segment.field) /\ w = v.fields[segment.field]
  \/ /\ segment = [index |-> segment.index] /\ Is("items", v)
     /\ \E i \in DOMAIN v.items : segment.index = i - 1 /\ w = v.items[i]

LEMMA BeyondLeads ==
  ASSUME NEW r, NEW s
  PROVE  s \in Beyond(r) <=> \E segment, w : /\ Leads(r[2], segment, w)
                                             /\ s = <<Append(r[1], segment), w>>
<1> DEFINE path == r[1]
           v == r[2]
<1>1. ASSUME s \in Beyond(r)
      PROVE  \E segment, w : Leads(v, segment, w) /\ s = <<Append(path, segment), w>>
  <2>1. CASE Is("fields", v) /\ \E f \in DOMAIN v.fields :
                                  s = <<Append(path, [field |-> f]), v.fields[f]>>
    <3>1. PICK f \in DOMAIN v.fields : s = <<Append(path, [field |-> f]), v.fields[f]>>
      BY <2>1
    <3>2. Leads(v, [field |-> f], v.fields[f])
      BY <2>1 DEF Leads, HasField
    <3> QED
      BY <3>1, <3>2
  <2>2. CASE Is("items", v) /\ \E i \in DOMAIN v.items :
                                 s = <<Append(path, [index |-> i - 1]), v.items[i]>>
    <3>1. PICK i \in DOMAIN v.items : s = <<Append(path, [index |-> i - 1]), v.items[i]>>
      BY <2>2
    <3>2. Leads(v, [index |-> i - 1], v.items[i])
      BY <2>2 DEF Leads
    <3> QED
      BY <3>1, <3>2
  <2> QED
    BY <1>1, <2>1, <2>2 DEF Beyond
<1>2. ASSUME NEW segment, NEW w, Leads(v, segment, w), s = <<Append(path, segment), w>>
      PROVE  s \in Beyond(r)
  <2>1. CASE /\ segment = [field |-> segment.field]
             /\ HasField(v, segment.field) /\ w = v.fields[segment.field]
    <3> DEFINE f == segment.field
    <3>1. f \in DOMAIN v.fields /\ Is("fields", v) /\ segment = [field |-> f] /\ w = v.fields[f]
      BY <2>1 DEF HasField
    <3> HIDE DEF f
    <3> QED
      BY <1>2, <3>1 DEF Beyond
  <2>2. CASE /\ segment = [index |-> segment.index] /\ Is("items", v)
             /\ \E i \in DOMAIN v.items : segment.index = i - 1 /\ w = v.items[i]
    <3>1. PICK i \in DOMAIN v.items : segment.index = i - 1 /\ w = v.items[i]
      BY <2>2
    <3>2. segment = [index |-> i - 1]
      BY <2>2, <3>1
    <3> QED
      BY <1>2, <2>2, <3>1, <3>2 DEF Beyond
  <2> QED
    BY <1>2, <2>1, <2>2 DEF Leads
<1> QED
  BY <1>1, <1>2

(* From a value with sequences for slices a segment leads to one thing.    *)
LEMMA LeadsToOne ==
  ASSUME NEW v, IsValue(v), NEW segment, NEW w, NEW x, Leads(v, segment, w), Leads(v, segment, x)
  PROVE  w = x
<1>1. CASE segment = [field |-> segment.field]
  <2>1. segment # [index |-> segment.index]
    <3>1. "field" \in DOMAIN segment
      BY <1>1
    <3>2. "field" \notin DOMAIN [index |-> segment.index]
      OBVIOUS
    <3> QED
      BY <3>1, <3>2
  <2> QED
    BY <2>1 DEF Leads
<1>2. CASE segment # [field |-> segment.field]
  <2>1. /\ Is("items", v)
        /\ \E i \in DOMAIN v.items : segment.index = i - 1 /\ w = v.items[i]
        /\ \E i \in DOMAIN v.items : segment.index = i - 1 /\ x = v.items[i]
    BY <1>2 DEF Leads
  <2>2. DOMAIN v.items \subseteq Nat
    BY <2>1, ListFacts DEF IsValue
  <2> QED
    BY <2>1, <2>2
<1> QED
  BY <1>1, <1>2

(* A route at a level is as long as the level is deep.                     *)
LEMMA LevelLength ==
  ASSUME NEW doc, NEW level, IsLevels(level, doc, MaxDepth),
         NEW n \in 0 .. MaxDepth, NEW r \in level[n]
  PROVE  r = <<r[1], r[2]>> /\ IsList(r[1]) /\ Len(r[1]) = n
<1> DEFINE Fits(k) == \A q \in level[k] : q = <<q[1], q[2]>> /\ IsList(q[1]) /\ Len(q[1]) = k
           T == {k \in 0 .. MaxDepth : ~ Fits(k)}
<1> SUFFICES ASSUME T # {} PROVE FALSE
  OBVIOUS
<1>1. PICK k \in T : \A j \in T : k <= j
  <2> T \in SUBSET Nat
    OBVIOUS
  <2> HIDE DEF T
  <2> QED
    BY LeastOf
<1>2. /\ k \in 0 .. MaxDepth /\ ~ Fits(k)
      /\ level[k] = IF k = 0 THEN {<<<<>>, doc>>} ELSE UNION {Beyond(q) : q \in level[k - 1]}
  BY <1>1 DEF IsLevels
<1>3. k # 0
  <2>1. IsList(<<>>) /\ Len(<<>>) = 0
    BY SequencesAreLists, EmptySeq
  <2> SUFFICES ASSUME k = 0 PROVE FALSE
    OBVIOUS
  <2>2. level[k] = {<<<<>>, doc>>}
    BY <1>2
  <2> QED
    BY <1>2, <2>1, <2>2
<1>4. Fits(k - 1)
  <2> HIDE DEF Fits
  <2>1. k - 1 \in 0 .. MaxDepth /\ ~ (k <= k - 1)
    <3>1. MaxDepth \in Nat /\ k \in 0 .. MaxDepth
      BY <1>2, DocumentsAreShallow
    <3> QED
      BY <1>3, <3>1
  <2> QED
    BY <1>1, <2>1
<1>5. ASSUME NEW q \in level[k]
      PROVE  q = <<q[1], q[2]>> /\ IsList(q[1]) /\ Len(q[1]) = k
  <2>1. PICK p \in level[k - 1] : q \in Beyond(p)
    BY <1>2, <1>3
  <2>2. PICK segment, w : q = <<Append(p[1], segment), w>>
    BY <2>1, BeyondLeads
  <2>3. IsList(p[1]) /\ Len(p[1]) = k - 1
    BY <1>4
  <2>4. q[1] = Append(p[1], segment) /\ q[2] = w
    BY <2>2
  <2>5. IsList(q[1]) /\ Len(q[1]) = k - 1 + 1
    BY <2>3, <2>4, Appended
  <2> QED
    BY <1>2, <2>2, <2>4, <2>5
<1> QED
  BY <1>2, <1>5

(* What the proofs use of the routes of a document.                        *)
LEMMA RouteFacts ==
  ASSUME NEW j \in Jobs, NEW doc \in DocumentsOf(j)
  PROVE  /\ <<<<>>, doc>> \in Routes(doc)
         /\ \A r \in Routes(doc) : IsList(r[1]) /\ IsValue(r[2])
         /\ \A r \in Routes(doc) : \A segment, w :
              Leads(r[2], segment, w) => <<Append(r[1], segment), w>> \in Routes(doc)
         /\ \A r \in Routes(doc) :
              \/ r[1] = <<>> /\ r[2] = doc
              \/ \E q \in Routes(doc) : \E segment :
                   r[1] = Append(q[1], segment) /\ Leads(q[2], segment, r[2])
<1>1. PICK level : /\ IsLevels(level, doc, MaxDepth)
                   /\ Routes(doc) = UNION {level[n] : n \in 0 .. MaxDepth}
  BY RoutesAreLevels
<1>2. MaxDepth \in Nat
  BY DocumentsAreShallow
<1>3. /\ level[0] = {<<<<>>, doc>>}
      /\ \A n \in 1 .. MaxDepth : level[n] = UNION {Beyond(q) : q \in level[n - 1]}
  <2>1. \A n \in 0 .. MaxDepth :
          level[n] = IF n = 0 THEN {<<<<>>, doc>>} ELSE UNION {Beyond(q) : q \in level[n - 1]}
    BY <1>1 DEF IsLevels
  <2>2. 0 \in 0 .. MaxDepth /\ \A n \in 1 .. MaxDepth : n \in 0 .. MaxDepth /\ n # 0
    BY <1>2
  <2> QED
    BY <2>1, <2>2
<1>4. <<<<>>, doc>> \in Routes(doc)
  <2>1. 0 \in 0 .. MaxDepth
    BY <1>2
  <2> QED
    BY <1>1, <1>3, <2>1
<1>5. ASSUME NEW r \in Routes(doc)
      PROVE  \E n \in 0 .. MaxDepth : r \in level[n] /\ IsList(r[1]) /\ Len(r[1]) = n
  <2>1. PICK n \in 0 .. MaxDepth : r \in level[n]
    BY <1>1
  <2>2. IsList(r[1]) /\ Len(r[1]) = n
    BY <1>1, <2>1, LevelLength
  <2> QED
    BY <2>1, <2>2
<1>6. ASSUME NEW r \in Routes(doc), NEW segment, NEW w, Leads(r[2], segment, w)
      PROVE  <<Append(r[1], segment), w>> \in Routes(doc)
  <2> DEFINE s == <<Append(r[1], segment), w>>
  <2>1. s \in Beyond(r)
    BY <1>6, BeyondLeads
  <2> HIDE DEF s
  <2>2. PICK n \in 0 .. MaxDepth : r \in level[n] /\ Len(r[1]) = n
    BY <1>5
  <2>3. n # MaxDepth
    BY <2>1, <2>2, DocumentsAreShallow
  <2>4. n + 1 \in 0 .. MaxDepth /\ n + 1 \in 1 .. MaxDepth /\ n + 1 - 1 = n
    BY <1>2, <2>3
  <2>5. s \in level[n + 1]
    <3>1. level[n + 1] = UNION {Beyond(q) : q \in level[n]}
      BY <1>3, <2>4
    <3> QED
      BY <2>1, <2>2, <3>1
  <2>6. s \in Routes(doc)
    BY <1>1, <2>4, <2>5
  <2> QED
    BY <2>6 DEF s
<1>7. ASSUME NEW r \in Routes(doc)
      PROVE  \/ r[1] = <<>> /\ r[2] = doc
             \/ \E q \in Routes(doc) : \E segment :
                  r[1] = Append(q[1], segment) /\ Leads(q[2], segment, r[2])
  <2>1. PICK n \in 0 .. MaxDepth : r \in level[n]
    BY <1>5
  <2>2. CASE n = 0
    <3>1. r = <<<<>>, doc>>
      BY <1>3, <2>1, <2>2
    <3> QED
      BY <3>1
  <2>3. CASE n # 0
    <3>1. PICK q \in level[n - 1] : r \in Beyond(q)
      <4>1. n \in 1 .. MaxDepth
        BY <1>2, <2>3
      <4> QED
        BY <1>3, <2>1, <4>1
    <3>2. n - 1 \in 0 .. MaxDepth
      BY <1>2, <2>3
    <3>3. q \in Routes(doc)
      BY <1>1, <3>1, <3>2
    <3>4. PICK segment, w : Leads(q[2], segment, w) /\ r = <<Append(q[1], segment), w>>
      BY <3>1, BeyondLeads
    <3>5. r[1] = Append(q[1], segment) /\ r[2] = w
      BY <3>4
    <3> QED
      BY <3>3, <3>4, <3>5
  <2> QED
    BY <2>2, <2>3
<1>8. \A r \in Routes(doc) : IsList(r[1]) /\ IsValue(r[2])
  BY <1>5, DocumentsHoldValues
<1> QED
  BY <1>4, <1>6, <1>7, <1>8

(* A route is determined by its path.                                      *)
LEMMA RouteOfPath ==
  ASSUME NEW j \in Jobs, NEW doc \in DocumentsOf(j),
         NEW r \in Routes(doc), NEW s \in Routes(doc), r[1] = s[1]
  PROVE  r[2] = s[2]
<1> DEFINE Twice(p, q) == p[1] = q[1] /\ p[2] # q[2]
           T == {n \in Nat : \E p, q \in Routes(doc) : Twice(p, q) /\ Len(p[1]) = n}
<1> SUFFICES ASSUME T # {} PROVE FALSE
  <2>1. Len(r[1]) \in Nat
    BY RouteFacts, ListFacts
  <2> QED
    BY <2>1
<1>1. PICK n \in T : \A i \in T : n <= i
  <2> T \in SUBSET Nat
    OBVIOUS
  <2> HIDE DEF T
  <2> QED
    BY LeastOf
<1>2. PICK p \in Routes(doc), q \in Routes(doc) : Twice(p, q) /\ Len(p[1]) = n
  BY <1>1
<1>3. CASE p[1] = <<>>
  <2>1. \A t \in Routes(doc) : t[1] = <<>> => t[2] = doc
    <3>1. ASSUME NEW u \in Routes(doc), NEW segment, <<>> = Append(u[1], segment)
          PROVE  FALSE
      <4>1. IsList(u[1]) /\ Len(u[1]) \in Nat
        BY RouteFacts, ListFacts
      <4>2. Len(Append(u[1], segment)) = Len(u[1]) + 1
        BY <4>1, Appended
      <4>3. Len(<<>>) = 0
        BY EmptySeq
      <4>4. Len(u[1]) + 1 = 0
        BY <3>1, <4>2, <4>3, Zenon
      <4> QED
        BY <4>1, <4>4
    <3>2. \A t \in Routes(doc) :
            \/ t[1] = <<>> /\ t[2] = doc
            \/ \E u \in Routes(doc) : \E segment :
                 t[1] = Append(u[1], segment) /\ Leads(u[2], segment, t[2])
      BY RouteFacts
    <3> SUFFICES ASSUME NEW t \in Routes(doc), t[1] = <<>>, t[2] # doc PROVE FALSE
      OBVIOUS
    <3>3. PICK u \in Routes(doc) : \E segment : t[1] = Append(u[1], segment)
      BY <3>2
    <3>4. PICK segment : t[1] = Append(u[1], segment)
      BY <3>3
    <3>5. <<>> = Append(u[1], segment)
      BY <3>4, Zenon
    <3> QED
      BY <3>1, <3>5, Zenon
  <2> QED
    BY <1>2, <1>3, <2>1
<1>4. CASE p[1] # <<>>
  <2>1. PICK u \in Routes(doc) : \E segment :
          p[1] = Append(u[1], segment) /\ Leads(u[2], segment, p[2])
    BY <1>4, RouteFacts
  <2>2. PICK segment : p[1] = Append(u[1], segment) /\ Leads(u[2], segment, p[2])
    BY <2>1
  <2>3. PICK v \in Routes(doc) : \E other :
          q[1] = Append(v[1], other) /\ Leads(v[2], other, q[2])
    BY <1>2, <1>4, RouteFacts
  <2>4. PICK other : q[1] = Append(v[1], other) /\ Leads(v[2], other, q[2])
    BY <2>3
  <2>5. IsList(u[1]) /\ IsList(v[1]) /\ IsValue(u[2])
    BY RouteFacts
  <2>6. u[1] = v[1] /\ segment = other
    <3>1. Append(u[1], segment) = Append(v[1], other)
      BY <1>2, <2>2, <2>4
    <3> DEFINE up == u[1]  vp == v[1]
    <3>2. IsList(up) /\ IsList(vp) /\ Append(up, segment) = Append(vp, other)
      BY <2>5, <3>1
    <3> HIDE DEF up, vp
    <3>3. up = vp /\ segment = other
      BY <3>2, AppendedSame
    <3> QED
      BY <3>3 DEF up, vp
  <2>7. Len(u[1]) \in Nat /\ n = Len(u[1]) + 1
    BY <1>2, <2>2, <2>5, Appended, ListFacts
  <2>8. u[2] = v[2]
    <3>1. ~ (n <= Len(u[1]))
      BY <2>7
    <3>2. Len(u[1]) \notin T
      <4> HIDE DEF T
      <4> QED
        BY <1>1, <3>1
    <3> QED
      BY <2>6, <2>7, <3>2
  <2>9. p[2] = q[2]
    BY <2>2, <2>4, <2>5, <2>6, <2>8, LeadsToOne
  <2> QED
    BY <1>2, <2>9
<1> QED
  BY <1>3, <1>4

(* A route passes every prefix of its path, and goes on from there.        *)
LEMMA RoutePrefixes ==
  ASSUME NEW j \in Jobs, NEW doc \in DocumentsOf(j),
         NEW r \in Routes(doc), NEW m \in Nat, m < Len(r[1])
  PROVE  \E q \in Routes(doc) : \E w :
           q[1] = SubSeq(r[1], 1, m) /\ Leads(q[2], r[1][m + 1], w)
<1> DEFINE Passes(p) == \E q \in Routes(doc) : \E w :
                          q[1] = SubSeq(p[1], 1, m) /\ Leads(q[2], p[1][m + 1], w)
           T == {n \in Nat : \E p \in Routes(doc) :
                   Len(p[1]) = n /\ m < n /\ ~ Passes(p)}
<1> SUFFICES ASSUME T # {} PROVE FALSE
  <2>1. Len(r[1]) \in Nat
    BY RouteFacts, ListFacts
  <2> QED
    BY <2>1
<1>1. PICK n \in T : \A i \in T : n <= i
  <2> T \in SUBSET Nat
    OBVIOUS
  <2> HIDE DEF T
  <2> QED
    BY LeastOf
<1>2. PICK p \in Routes(doc) : Len(p[1]) = n /\ m < n /\ ~ Passes(p)
  BY <1>1
<1>3. p[1] # <<>>
  <2>1. Len(<<>>) = 0
    BY EmptySeq
  <2> QED
    BY <1>2, <2>1
<1>4. PICK u \in Routes(doc) : \E segment :
        p[1] = Append(u[1], segment) /\ Leads(u[2], segment, p[2])
  BY <1>3, RouteFacts
<1>5. PICK segment : p[1] = Append(u[1], segment) /\ Leads(u[2], segment, p[2])
  BY <1>4
<1>6. IsList(u[1]) /\ Len(u[1]) \in Nat
  BY RouteFacts, ListFacts
<1>7. /\ n = Len(u[1]) + 1 /\ p[1][Len(u[1]) + 1] = segment
      /\ \A i \in 1 .. Len(u[1]) : p[1][i] = u[1][i]
      /\ \A k \in 0 .. Len(u[1]) : SubSeq(p[1], 1, k) = SubSeq(u[1], 1, k)
      /\ SubSeq(u[1], 1, Len(u[1])) = u[1]
  BY <1>2, <1>5, <1>6, Appended
<1>8. CASE m = Len(u[1])
  <2>1. u[1] = SubSeq(p[1], 1, m) /\ p[1][m + 1] = segment
    BY <1>6, <1>7, <1>8
  <2> QED
    BY <1>2, <1>5, <2>1
<1>9. CASE m # Len(u[1])
  <2>1. m < Len(u[1]) /\ m + 1 \in 1 .. Len(u[1]) /\ m \in 0 .. Len(u[1]) /\ ~ (n <= Len(u[1]))
    BY <1>2, <1>6, <1>7, <1>9
  <2>2. Len(u[1]) \notin T
    <3> HIDE DEF T
    <3> QED
      BY <1>1, <2>1
  <2>3. Passes(u)
    BY <1>6, <2>1, <2>2
  <2>4. SubSeq(p[1], 1, m) = SubSeq(u[1], 1, m) /\ p[1][m + 1] = u[1][m + 1]
    BY <1>7, <2>1
  <2>5. Passes(p)
    BY <2>3, <2>4
  <2> QED
    BY <1>2, <2>5
<1> QED
  BY <1>8, <1>9

-----------------------------------------------------------------------------
(* A segment has one form.                                                 *)
Leg(segment) == Is("field", segment) \/ Is("index", segment)

LEMMA SegmentForms ==
  ASSUME NEW s, IsSegment(s)
  PROVE  /\ Is("field", s) => s = [field |-> s.field] /\ ~ Is("index", s)
         /\ Is("index", s) => s = [index |-> s.index]
         /\ Is("all", s) \/ Is("malformed", s) => ~ Leg(s)
         /\ ~ (Is("all", s) /\ Is("malformed", s))
<1>1. CASE s = [field |-> s.field]
  <2>1. DOMAIN s = {"field"}
    BY <1>1
  <2> QED
    BY <1>1, <2>1 DEF Is, Leg
<1>2. CASE s = [index |-> s.index]
  <2>1. DOMAIN s = {"index"}
    BY <1>2
  <2> QED
    BY <1>2, <2>1 DEF Is, Leg
<1>3. CASE s = [all |-> TRUE]
  <2>1. DOMAIN s = {"all"}
    BY <1>3
  <2> QED
    BY <2>1 DEF Is, Leg
<1>4. CASE s = [malformed |-> TRUE]
  <2>1. DOMAIN s = {"malformed"}
    BY <1>4
  <2> QED
    BY <2>1 DEF Is, Leg
<1> QED
  BY <1>1, <1>2, <1>3, <1>4 DEF IsSegment

IsPath(path) == IsList(path) /\ \A i \in DOMAIN path : IsSegment(path[i])

(* A path of the grammar is made of fields and indices, but for a          *)
(* projection in front of its last field.                                  *)
LEMMA GrammarForms ==
  ASSUME NEW path, IsPath(path), Shaped(path)
  PROVE  LET n == Len(path) IN
         \/ Single(path) /\ n > 0 /\ \A i \in 1 .. n : Leg(path[i])
         \/ /\ ~ Single(path) /\ n > 1 /\ Is("all", path[n - 1]) /\ Is("field", path[n])
            /\ \A i \in 1 .. n - 2 : Leg(path[i])
<1> DEFINE n == Len(path)
<1>1. n \in Nat /\ DOMAIN path = 1 .. n /\ path \in Seq(ToSet(path))
  BY ListFacts DEF IsPath, IsList
<1>2. CASE Single(path)
  <2>1. n > 0
    BY <1>1, <1>2, EmptySeq DEF Single
  <2> QED
    BY <1>1, <1>2, <2>1 DEF Single, Leg
<1>3. CASE Projecting(path)
  <2>1. /\ n > 1 /\ Is("field", path[n]) /\ Is("all", path[n - 1])
        /\ n = 2 \/ Single(SubSeq(path, 1, n - 2))
    BY <1>3 DEF Projecting
  <2>2. ~ Single(path)
    <3>1. n - 1 \in DOMAIN path /\ IsSegment(path[n - 1])
      BY <1>1, <2>1 DEF IsPath
    <3>2. ~ Leg(path[n - 1])
      BY <2>1, <3>1, SegmentForms
    <3> QED
      BY <3>1, <3>2 DEF Single, Leg
  <2>3. ASSUME NEW i \in 1 .. n - 2
        PROVE  Leg(path[i])
    <3>1. n - 2 \in Nat /\ n - 2 # 0 /\ \A k \in 1 .. n - 2 : path[k] \in ToSet(path)
      BY <1>1, <2>1, <2>3 DEF ToSet
    <3>2. Single(SubSeq(path, 1, n - 2))
      BY <2>1, <3>1
    <3>3. /\ Len(SubSeq(path, 1, n - 2)) = n - 2 - 1 + 1
          /\ \A k \in 1 .. n - 2 - 1 + 1 : SubSeq(path, 1, n - 2)[k] = path[1 + k - 1]
          /\ SubSeq(path, 1, n - 2) \in Seq(ToSet(path))
      BY <1>1, <3>1, SubSeqProperties
    <3>4. i \in DOMAIN SubSeq(path, 1, n - 2) /\ SubSeq(path, 1, n - 2)[i] = path[i]
      BY <3>1, <3>3
    <3> QED
      BY <3>2, <3>4 DEF Single, Leg
  <2> QED
    BY <2>1, <2>2, <2>3
<1> QED
  BY <1>2, <1>3 DEF Shaped

-----------------------------------------------------------------------------
(* So many segments of the path lead from the document to the value.       *)
Reached(doc, path, n, v) ==
  /\ n \in 0 .. Len(path) /\ <<SubSeq(path, 1, n), v>> \in Routes(doc)
  /\ \A i \in 1 .. n : Leg(path[i])

LEMMA ReachedAtFirst ==
  ASSUME NEW j \in Jobs, NEW doc \in DocumentsOf(j), NEW path, IsPath(path)
  PROVE  Reached(doc, path, 0, doc)
<1>1. Len(path) \in Nat /\ SubSeq(path, 1, 0) = <<>>
  BY ListFacts, SubSeqEmpty DEF IsPath
<1>2. <<<<>>, doc>> \in Routes(doc)
  BY RouteFacts
<1> QED
  BY <1>1, <1>2 DEF Reached

LEMMA OneMore ==
  ASSUME NEW path, IsList(path), NEW n \in Nat, n < Len(path)
  PROVE  SubSeq(path, 1, n + 1) = Append(SubSeq(path, 1, n), path[n + 1])
<1> DEFINE S == ToSet(path)
<1>1. path \in Seq(S)
  BY DEF IsList
<1>2. Len(path) \in Nat /\ n + 1 \in 1 .. Len(path) /\ 1 \in 1 .. Len(path) /\ n + 1 - 1 = n
  BY <1>1
<1>3. \A i \in 1 .. Len(path) : path[i] \in S
  BY <1>1, ElementOfSeq
<1> HIDE DEF S
<1>4. SubSeq(path, 1, n + 1) = SubSeq(path, 1, n) \o <<path[n + 1]>>
  <2>1. SubSeq(path, 1, n + 1) = SubSeq(path, 1, n + 1 - 1) \o <<path[n + 1]>>
    BY <1>1, <1>2, SubSeqRecursiveSecond
  <2> QED
    BY <1>2, <2>1, Zenon
<1>5. SubSeq(path, 1, n) \in Seq(S)
  BY <1>1, <1>2, <1>3, SubSeqProperties
<1>6. Append(SubSeq(path, 1, n), path[n + 1]) = SubSeq(path, 1, n) \o <<path[n + 1]>>
  BY <1>2, <1>3, <1>5, AppendIsConcat
<1> QED
  BY <1>4, <1>6, Zenon

LEMMA ReachedNext ==
  ASSUME NEW j \in Jobs, NEW doc \in DocumentsOf(j), NEW path, IsPath(path),
         NEW n, NEW v, Reached(doc, path, n, v), n < Len(path),
         NEW w, Leads(v, path[n + 1], w)
  PROVE  Reached(doc, path, n + 1, w)
<1>1. /\ n \in Nat /\ Len(path) \in Nat /\ n + 1 \in 0 .. Len(path)
      /\ <<SubSeq(path, 1, n), v>> \in Routes(doc) /\ \A i \in 1 .. n : Leg(path[i])
  BY ListFacts DEF Reached, IsPath
<1>2. <<Append(SubSeq(path, 1, n), path[n + 1]), w>> \in Routes(doc)
  <2> DEFINE r == <<SubSeq(path, 1, n), v>>
  <2>1. r \in Routes(doc) /\ Leads(r[2], path[n + 1], w)
    BY <1>1
  <2>2. r[1] = SubSeq(path, 1, n)
    OBVIOUS
  <2> HIDE DEF r
  <2>3. <<Append(r[1], path[n + 1]), w>> \in Routes(doc)
    BY <2>1, RouteFacts
  <2> QED
    BY <2>2, <2>3
<1>3. SubSeq(path, 1, n + 1) = Append(SubSeq(path, 1, n), path[n + 1])
  BY <1>1, OneMore DEF IsPath
<1>4. Leg(path[n + 1])
  BY DEF Leads, Leg, Is
<1>5. \A i \in 1 .. n + 1 : i \in 1 .. n \/ i = n + 1
  BY <1>1
<1>6. <<SubSeq(path, 1, n + 1), w>> \in Routes(doc)
  BY <1>2, <1>3, Zenon
<1> QED
  BY <1>1, <1>4, <1>5, <1>6 DEF Reached

LEMMA ReachedIsOne ==
  ASSUME NEW j \in Jobs, NEW doc \in DocumentsOf(j), NEW path, NEW n, NEW v,
         Reached(doc, path, n, v), NEW q \in Routes(doc), q[1] = SubSeq(path, 1, n)
  PROVE  q[2] = v
<1> DEFINE r == <<SubSeq(path, 1, n), v>>
<1>1. r \in Routes(doc)
  BY DEF Reached
<1>2. r[1] = SubSeq(path, 1, n) /\ r[2] = v
  OBVIOUS
<1> HIDE DEF r
<1>3. q[1] = r[1]
  BY <1>2
<1> QED
  BY <1>1, <1>2, <1>3, RouteOfPath

(* A path of the grammar that leads all the way denotes what is there.     *)
LEMMA EndMeans ==
  ASSUME NEW j \in Jobs, NEW doc \in DocumentsOf(j), NEW path, IsPath(path), Shaped(path),
         NEW v, Reached(doc, path, Len(path), v)
  PROVE  Denotes(doc, path) = {v}
<1>1. Len(path) \in Nat /\ DOMAIN path = 1 .. Len(path) /\ SubSeq(path, 1, Len(path)) = path
  BY ListFacts, SubSeqFull DEF IsPath, IsList
<1>2. Single(path)
  <2> SUFFICES ASSUME Len(path) > 1, Is("all", path[Len(path) - 1]) PROVE FALSE
    BY GrammarForms
  <2>1. Len(path) - 1 \in 1 .. Len(path)
    BY <1>1
  <2>2. Leg(path[Len(path) - 1]) /\ IsSegment(path[Len(path) - 1])
    BY <1>1, <2>1 DEF Reached, IsPath
  <2> QED
    BY <2>2, SegmentForms
<1>3. Denotes(doc, path) = {r[2] : r \in {q \in Routes(doc) : q[1] = path}}
  BY <1>2 DEF Denotes
<1>4. \A q \in Routes(doc) : q[1] = path => q[2] = v
  BY <1>1, ReachedIsOne
<1>5. <<path, v>> \in Routes(doc)
  BY <1>1 DEF Reached
<1> QED
  BY <1>3, <1>4, <1>5

(* The part of a path of the grammar that has to lead somewhere.           *)
Legs(path) == IF Single(path) THEN Len(path) ELSE Len(path) - 2

LEMMA DenotesFrom ==
  ASSUME NEW doc, NEW path, IsPath(path), Shaped(path), Denotes(doc, path) # {}
  PROVE  \E r \in Routes(doc) : r[1] = SubSeq(path, 1, Legs(path))
<1>1. CASE Single(path)
  <2>1. SubSeq(path, 1, Len(path)) = path
    BY SubSeqFull DEF IsPath, IsList
  <2>2. \E r \in Routes(doc) : r[1] = path
    BY <1>1 DEF Denotes
  <2> QED
    BY <1>1, <2>1, <2>2 DEF Legs
<1>2. CASE ~ Single(path)
  BY <1>2 DEF Denotes, Legs
<1> QED
  BY <1>1, <1>2

LEMMA LegsBound ==
  ASSUME NEW doc, NEW path, IsPath(path), Shaped(path), NEW n, NEW v,
         Reached(doc, path, n, v), n < Len(path)
  PROVE  /\ n \in Nat /\ Legs(path) \in 0 .. Len(path)
         /\ Leg(path[n + 1]) => n < Legs(path)
         /\ Is("all", path[n + 1]) => ~ Single(path) /\ n = Len(path) - 2
         /\ ~ Is("malformed", path[n + 1])
<1>1. Len(path) \in Nat /\ DOMAIN path = 1 .. Len(path) /\ n \in Nat /\ n + 1 \in DOMAIN path
  BY ListFacts DEF IsPath, Reached
<1>2. /\ IsSegment(path[n + 1])
      /\ \A i \in 1 .. n : Leg(path[i])
  BY <1>1 DEF IsPath, Reached
<1>3. CASE Single(path) /\ \A i \in 1 .. Len(path) : Leg(path[i])
  BY <1>1, <1>2, <1>3, SegmentForms DEF Legs
<1>4. CASE /\ ~ Single(path) /\ Len(path) > 1
           /\ Is("all", path[Len(path) - 1]) /\ Is("field", path[Len(path)])
           /\ \A i \in 1 .. Len(path) - 2 : Leg(path[i])
  <2>1. ~ Leg(path[Len(path) - 1]) /\ IsSegment(path[Len(path) - 1])
    <3>1. Len(path) - 1 \in DOMAIN path
      BY <1>1, <1>4
    <3> QED
      BY <1>4, <3>1, SegmentForms DEF IsPath
  <2>2. n # Len(path) - 1
    <3> SUFFICES ASSUME n = Len(path) - 1 PROVE FALSE
      OBVIOUS
    <3> DEFINE m == Len(path)
    <3>1. m \in Nat /\ m > 1 /\ n = m - 1
      BY <1>1, <1>4
    <3> HIDE DEF m
    <3>2. m - 1 \in 1 .. n
      BY <3>1
    <3> QED
      BY <1>2, <2>1, <3>2 DEF m
  <2>3. CASE n + 1 = Len(path) - 1
    BY <1>1, <1>4, <2>1, <2>3, SegmentForms DEF Legs
  <2>4. CASE n + 1 # Len(path) - 1
    <3>1. n + 1 \in 1 .. Len(path) - 2
      <4> DEFINE m == Len(path)
      <4>1. m \in Nat /\ n \in Nat /\ n < m /\ n # m - 1 /\ n + 1 # m - 1
        BY <1>1, <2>2, <2>4
      <4> HIDE DEF m
      <4>2. n + 1 \in 1 .. m - 2
        BY <4>1
      <4> QED
        BY <4>2 DEF m
    <3>2. Leg(path[n + 1])
      BY <1>4, <3>1
    <3> QED
      BY <1>1, <1>2, <1>4, <3>1, <3>2, SegmentForms DEF Legs
  <2> QED
    BY <2>3, <2>4
<1> QED
  BY <1>3, <1>4, GrammarForms

(* A path of the grammar whose next segment leads nowhere denotes nothing. *)
LEMMA DeadEnd ==
  ASSUME NEW j \in Jobs, NEW doc \in DocumentsOf(j), NEW path, IsPath(path), Shaped(path),
         NEW n, NEW v, Reached(doc, path, n, v), n < Len(path), Leg(path[n + 1]),
         \A w : ~ Leads(v, path[n + 1], w)
  PROVE  Denotes(doc, path) = {}
<1> SUFFICES ASSUME Denotes(doc, path) # {} PROVE FALSE
  OBVIOUS
<1> DEFINE k == Legs(path)
<1>1. n \in Nat /\ k \in 0 .. Len(path) /\ n < k /\ Len(path) \in Nat
  BY LegsBound, ListFacts DEF IsPath
<1>2. PICK r \in Routes(doc) : r[1] = SubSeq(path, 1, k)
  BY DenotesFrom
<1> HIDE DEF k
<1>3. path \in Seq(ToSet(path))
  BY DEF IsPath, IsList
<1> DEFINE part == SubSeq(path, 1, k)
<1>4. Len(part) = k /\ part[n + 1] = path[n + 1] /\ SubSeq(part, 1, n) = SubSeq(path, 1, n)
  <2> DEFINE S == ToSet(path)
  <2>1. \A i \in 1 .. k : path[i] \in S
    BY <1>1, <1>3, ElementOfSeq
  <2> HIDE DEF S
  <2>2. /\ part \in Seq(S) /\ Len(part) = IF 1 <= k THEN k - 1 + 1 ELSE 0
        /\ \A i \in 1 .. k - 1 + 1 : part[i] = path[1 + i - 1]
    BY <1>1, <2>1, SubSeqProperties
  <2> HIDE DEF part
  <2>3. Len(part) = k /\ \A i \in 1 .. k : part[i] = path[i]
    <3>1. k \in Nat /\ k - 1 + 1 = k /\ (~ (1 <= k) => k = 0) /\ \A i \in 1 .. k : 1 + i - 1 = i
      BY <1>1
    <3> QED
      BY <2>2, <3>1
  <2>4. \A i \in 1 .. n : path[i] \in S /\ part[i] \in S /\ part[i] = path[i]
    BY <1>1, <2>1, <2>3
  <2>5. /\ SubSeq(part, 1, n) \in Seq(S) /\ SubSeq(path, 1, n) \in Seq(S)
        /\ Len(SubSeq(part, 1, n)) = IF 1 <= n THEN n - 1 + 1 ELSE 0
        /\ Len(SubSeq(path, 1, n)) = IF 1 <= n THEN n - 1 + 1 ELSE 0
        /\ \A i \in 1 .. n - 1 + 1 : /\ SubSeq(part, 1, n)[i] = part[1 + i - 1]
                                     /\ SubSeq(path, 1, n)[i] = path[1 + i - 1]
    BY <1>1, <2>4, SubSeqProperties
  <2>6. Len(SubSeq(part, 1, n)) = n /\ Len(SubSeq(path, 1, n)) = n
    BY <1>1, <2>5
  <2>7. \A i \in 1 .. n : SubSeq(part, 1, n)[i] = SubSeq(path, 1, n)[i]
    BY <1>1, <2>4, <2>5
  <2>8. SubSeq(part, 1, n) = SubSeq(path, 1, n)
    BY <2>5, <2>6, <2>7, SeqEqual
  <2>9. n + 1 \in 1 .. k
    BY <1>1
  <2> QED
    BY <2>3, <2>8, <2>9
<1> HIDE DEF part
<1>5. r[1] = part
  BY <1>2 DEF part
<1>6. n < Len(r[1])
  BY <1>1, <1>4, <1>5
<1>7. PICK q \in Routes(doc) : \E w :
        q[1] = SubSeq(r[1], 1, n) /\ Leads(q[2], r[1][n + 1], w)
  BY <1>1, <1>6, RoutePrefixes
<1>8. PICK w : q[1] = SubSeq(r[1], 1, n) /\ Leads(q[2], r[1][n + 1], w)
  BY <1>7
<1>9. q[1] = SubSeq(path, 1, n) /\ Leads(q[2], path[n + 1], w)
  BY <1>4, <1>5, <1>8, Zenon
<1>10. q[2] = v
  BY <1>9, ReachedIsOne
<1> QED
  BY <1>9, <1>10

(* A projection denotes the field of every element, if all have it.        *)
Projectable(v, field) == Is("items", v) /\ \A i \in DOMAIN v.items : HasField(v.items[i], field)
Projection(v, field) == [items |-> [i \in DOMAIN v.items |-> v.items[i].fields[field]]]

LEMMA ProjectionMeans ==
  ASSUME NEW j \in Jobs, NEW doc \in DocumentsOf(j), NEW path, IsPath(path), Shaped(path),
         NEW n, NEW v, Reached(doc, path, n, v), n < Len(path), Is("all", path[n + 1])
  PROVE  LET field == path[Len(path)].field IN
         /\ Len(path) \in Nat /\ n = Len(path) - 2 /\ Is("field", path[n + 2])
         /\ path[n + 2].field = field
         /\ Denotes(doc, path) = IF Projectable(v, field) THEN {Projection(v, field)} ELSE {}
<1>1. ~ Single(path) /\ n = Len(path) - 2 /\ n \in Nat /\ Len(path) \in Nat
  BY LegsBound, ListFacts DEF IsPath
<1>2. Is("field", path[Len(path)]) /\ n + 2 = Len(path)
  BY <1>1, GrammarForms
<1> DEFINE field == path[Len(path)].field
           Ends == {q \in Routes(doc) : /\ q[1] = SubSeq(path, 1, Len(path) - 2)
                                        /\ Projectable(q[2], field)}
<1>3. Denotes(doc, path) = {Projection(q[2], field) : q \in Ends}
  BY <1>1 DEF Denotes, Projection, Projectable
<1>4. <<SubSeq(path, 1, n), v>> \in Routes(doc)
  BY DEF Reached
<1>5. \A q \in Routes(doc) : q[1] = SubSeq(path, 1, n) => q[2] = v
  BY ReachedIsOne
<1> HIDE DEF field
<1>6. Denotes(doc, path) = IF Projectable(v, field) THEN {Projection(v, field)} ELSE {}
  <2>1. CASE Projectable(v, field)
    <3>1. <<SubSeq(path, 1, n), v>> \in Ends
      BY <1>1, <1>4, <2>1
    <3>2. \A q \in Ends : q[2] = v
      BY <1>1, <1>5
    <3> HIDE DEF Ends
    <3> QED
      BY <1>3, <2>1, <3>1, <3>2
  <2>2. CASE ~ Projectable(v, field)
    <3>1. Ends = {}
      BY <1>1, <1>5, <2>2
    <3> HIDE DEF Ends
    <3> QED
      BY <1>3, <2>2, <3>1
  <2> QED
    BY <2>1, <2>2
<1> QED
  BY <1>1, <1>2, <1>6 DEF field

-----------------------------------------------------------------------------
(***************************************************************************)
(* The loop of Extract.  Its invariant says where the loop stands in the   *)
(* path: the segments behind it lead from the root to its value, and the   *)
(* segments before it are what is left.                                    *)
(***************************************************************************)
Using == {"lookup", "unresolved", "transform", "format", "scale", "pad", "formatted",
          "replace"}
Substituting == {"next", "transform", "format", "scale", "pad", "formatted", "replace"}

LookupInv ==
  /\ job \in Jobs
  /\ pc \in Substituting => IsTemplate
  /\ IsTemplate => todo \subseteq Raws(job.template)
  /\ IsTemplate /\ pc \in Using => todo # {} /\ HasRoot(Reference.ns)
  /\ pc = "lookup" => \E n \in 0 .. Len(Sought) :
       Reached(Root, Sought, n, cur) /\ rest = SubSeq(Sought, n + 1, Len(Sought))

(* What is left of a path after some of its segments.                      *)
Remains(path, n, left) ==
  /\ n = Len(path) => left = <<>>
  /\ n # Len(path) => /\ left # <<>> /\ n < Len(path)
                      /\ Head(left) = path[n + 1]
                      /\ Tail(left) = SubSeq(path, n + 1 + 1, Len(path))
                      /\ Len(left) > 1 <=> n + 1 < Len(path)
                      /\ Len(left) > 1 => left[2] = path[n + 2]

LEMMA RestFacts ==
  ASSUME NEW path, IsList(path), NEW n \in 0 .. Len(path), NEW left,
         left = SubSeq(path, n + 1, Len(path))
  PROVE  Remains(path, n, left)
<1> DEFINE S == ToSet(path)
           m == Len(path)
<1>1. path \in Seq(S) /\ m \in Nat /\ n \in Nat /\ n \in 0 .. m
  BY ListFacts DEF IsList
<1>2. \A i \in 1 .. m : path[i] \in S
  BY <1>1, ElementOfSeq
<1>3. left = SubSeq(path, n + 1, m)
  OBVIOUS
<1> HIDE DEF S
<1>4. CASE n = m
  BY <1>1, <1>3, <1>4, SubSeqEmpty DEF Remains
<1>5. CASE n # m
  <2> HIDE DEF m
  <2>1. n + 1 \in 1 .. m /\ m \in n + 1 .. m /\ n < m /\ n + 1 \in Int /\ m \in Int
    BY <1>1, <1>5
  <2>2. Head(left) = path[n + 1] /\ Tail(left) = SubSeq(path, n + 1 + 1, m)
    BY <1>1, <1>3, <2>1, HeadTailOfSubSeq DEF m
  <2>3. \A i \in n + 1 .. m : path[i] \in S
    <3>1. \A i \in n + 1 .. m : i \in 1 .. m
      BY <2>1
    <3> QED
      BY <1>2, <3>1 DEF m
  <2>4. /\ left \in Seq(S)
        /\ Len(left) = IF n + 1 <= m THEN m - (n + 1) + 1 ELSE 0
        /\ \A i \in 1 .. m - (n + 1) + 1 : left[i] = path[n + 1 + i - 1]
    <3>1. /\ SubSeq(path, n + 1, m) \in Seq(S)
          /\ Len(SubSeq(path, n + 1, m)) = IF n + 1 <= m THEN m - (n + 1) + 1 ELSE 0
          /\ \A i \in 1 .. m - (n + 1) + 1 : SubSeq(path, n + 1, m)[i] = path[n + 1 + i - 1]
      BY <2>1, <2>3, SubSeqProperties
    <3> QED
      BY <1>3, <3>1, Zenon
  <2>5. Len(left) = m - n /\ Len(left) > 0 /\ (Len(left) > 1 <=> n + 1 < m)
    BY <1>1, <2>1, <2>4
  <2>6. left # <<>>
    <3> SUFFICES ASSUME left = <<>> PROVE FALSE
      OBVIOUS
    <3>1. Len(left) = Len(<<>>) /\ Len(<<>>) = 0
      BY EmptySeq
    <3>2. Len(left) = 0
      BY <3>1, Zenon
    <3> QED
      BY <2>5, <3>2
  <2>7. ASSUME Len(left) > 1
        PROVE  left[2] = path[n + 2]
    <3>1. 2 \in 1 .. m - (n + 1) + 1 /\ n + 1 + 2 - 1 = n + 2
      BY <1>1, <2>5, <2>7
    <3>2. left[2] = path[n + 1 + 2 - 1]
      BY <2>4, <3>1
    <3> QED
      BY <3>1, <3>2, Zenon
  <2>8. n # m /\ n < m
    BY <1>5, <2>1
  <2> QED
    BY <2>2, <2>5, <2>6, <2>7, <2>8 DEF m, Remains
<1> QED
  BY <1>4, <1>5 DEF m

-----------------------------------------------------------------------------
LEMMA LeastIn ==
  ASSUME NEW T \in SUBSET Nat, T # {}
  PROVE  Min(T) \in T /\ \A i \in T : Min(T) <= i
<1>1. \E i \in T : \A k \in T : i =< k
  BY LeastOf
<1> QED
  BY <1>1 DEF Min

(* The place of the interpolation that is being replaced.                  *)
LEMMA PlaceFacts ==
  ASSUME NEW j \in Jobs, Is("template", j)
  PROVE  /\ IsList(j.template) /\ Raws(j.template) \subseteq 1 .. Len(j.template)
         /\ Len(j.template) \in Nat /\ Raws(j.template) \subseteq Nat
         /\ \A i \in Raws(j.template) : j.template[i].raw \in DOMAIN Interpolations
<1>1. IsList(j.template) /\ \A i \in Raws(j.template) : j.template[i].raw \in DOMAIN Interpolations
  BY TemplatesAreParsed
<1>2. Len(j.template) \in Nat /\ DOMAIN j.template = 1 .. Len(j.template)
  BY <1>1, ListFacts
<1>3. Raws(j.template) \subseteq 1 .. Len(j.template)
  BY <1>2 DEF Raws
<1> QED
  BY <1>1, <1>2, <1>3

LEMMA ReferenceFacts ==
  ASSUME job \in Jobs, IsTemplate, todo \subseteq Raws(job.template), todo # {}
  PROVE  /\ Min(todo) \in todo /\ \A i \in todo : Min(todo) <= i
         /\ IsPath(Reference.path)
         /\ \A i \in DOMAIN Reference.path : Is("field", Reference.path[i])
<1>1. /\ todo \subseteq Nat
      /\ \A i \in Raws(job.template) : job.template[i].raw \in DOMAIN Interpolations
  BY PlaceFacts DEF IsTemplate
<1>2. Min(todo) \in todo /\ \A i \in todo : Min(todo) <= i
  BY <1>1, LeastIn
<1>3. Interp.raw \in DOMAIN Interpolations
  BY <1>1, <1>2 DEF Interp
<1> QED
  BY <1>2, <1>3, InterpolationsNameFields DEF Reference, IsPath

LEMMA RootFacts ==
  ASSUME job \in Jobs, IsTemplate => todo \subseteq Raws(job.template),
         IsTemplate => todo # {} /\ HasRoot(Reference.ns)
  PROVE  Root \in DocumentsOf(job) /\ IsPath(Sought)
<1>1. CASE IsTemplate
  <2>1. IsPath(Sought)
    BY <1>1, ReferenceFacts DEF Sought
  <2>2. \/ Root = job.doc \/ Root = job.state
        \/ Root = job.namespaces[Reference.ns] /\ Reference.ns \in DOMAIN job.namespaces
    BY <1>1 DEF Root, HasRoot
  <2> QED
    BY <1>1, <2>1, <2>2 DEF DocumentsOf, IsTemplate
<1>2. CASE ~ IsTemplate
  BY <1>2, PathsAreSegments DEF Root, Sought, DocumentsOf, IsPath, IsTemplate
<1> QED
  BY <1>1, <1>2

(* A call that stays at its interpolation stays at its root and its path.  *)
LEMMA SameReference ==
  ASSUME job' = job, todo' = todo
  PROVE  /\ Root' = Root /\ Sought' = Sought /\ Reference' = Reference
         /\ IsTemplate' = IsTemplate /\ HasRoot(Reference.ns)' = HasRoot(Reference.ns)
         /\ Raws(job.template)' = Raws(job.template)
  BY DEF Root, Sought, Reference, Interp, IsTemplate, HasRoot

-----------------------------------------------------------------------------
(* Where the loop stands, in the terms of its next segment.                *)
LEMMA Standing ==
  ASSUME LookupInv, pc = "lookup"
  PROVE  /\ Root \in DocumentsOf(job) /\ IsPath(Sought) /\ Len(Sought) \in Nat
         /\ \E n \in 0 .. Len(Sought) :
              /\ Reached(Root, Sought, n, cur) /\ n \in Nat
              /\ rest = SubSeq(Sought, n + 1, Len(Sought))
              /\ Remains(Sought, n, rest)
              /\ n # Len(Sought) => IsSegment(Sought[n + 1])
<1>1. Root \in DocumentsOf(job) /\ IsPath(Sought)
  BY RootFacts DEF LookupInv, Using
<1>2. IsList(Sought) /\ Len(Sought) \in Nat /\ DOMAIN Sought = 1 .. Len(Sought)
  BY <1>1, ListFacts DEF IsPath
<1>3. PICK n \in 0 .. Len(Sought) :
        Reached(Root, Sought, n, cur) /\ rest = SubSeq(Sought, n + 1, Len(Sought))
  BY DEF LookupInv
<1>4. n \in Nat /\ (n # Len(Sought) => n + 1 \in 1 .. Len(Sought))
  <2> DEFINE m == Len(Sought)
  <2>1. m \in Nat /\ n \in 0 .. m
    BY <1>2, <1>3
  <2> HIDE DEF m
  <2>2. n \in Nat /\ (n # m => n + 1 \in 1 .. m)
    BY <2>1
  <2> QED
    BY <2>2 DEF m
<1>5. n # Len(Sought) => IsSegment(Sought[n + 1])
  BY <1>1, <1>2, <1>4 DEF IsPath
<1>6. Remains(Sought, n, rest)
  BY <1>2, <1>3, RestFacts
<1> QED
  BY <1>1, <1>2, <1>3, <1>4, <1>5, <1>6

(* A field or an index leads to one thing or nowhere.                      *)
LEMMA FieldLeads ==
  ASSUME NEW v, NEW segment, IsSegment(segment), Is("field", segment)
  PROVE  \A w : Leads(v, segment, w) <=> HasField(v, segment.field) /\ w = v.fields[segment.field]
<1>1. segment = [field |-> segment.field] /\ ~ Is("index", segment)
  BY SegmentForms
<1>2. segment # [index |-> segment.index]
  <2>1. "index" \in DOMAIN [index |-> segment.index]
    OBVIOUS
  <2> QED
    BY <1>1, <2>1 DEF Is
<1> QED
  BY <1>1, <1>2 DEF Leads

LEMMA IndexLeads ==
  ASSUME NEW v, IsValue(v), NEW segment, IsSegment(segment), Is("index", segment)
  PROVE  \A w : Leads(v, segment, w) <=> /\ Is("items", v)
                                         /\ segment.index \in 0 .. Len(v.items) - 1
                                         /\ w = v.items[segment.index + 1]
<1>1. segment = [index |-> segment.index] /\ ~ Is("field", segment)
  BY SegmentForms
<1>2. segment # [field |-> segment.field]
  <2>1. "field" \in DOMAIN [field |-> segment.field]
    OBVIOUS
  <2> QED
    BY <1>1, <2>1 DEF Is
<1> DEFINE k == segment.index
<1> SUFFICES ASSUME NEW w
             PROVE  Leads(v, segment, w) <=> /\ Is("items", v) /\ k \in 0 .. Len(v.items) - 1
                                             /\ w = v.items[k + 1]
  OBVIOUS
<1>3. Leads(v, segment, w) <=> /\ Is("items", v)
                               /\ \E i \in DOMAIN v.items : k = i - 1 /\ w = v.items[i]
  BY <1>1, <1>2 DEF Leads
<1>4. CASE Is("items", v)
  <2>1. Len(v.items) \in Nat /\ DOMAIN v.items = 1 .. Len(v.items)
    BY <1>4, ListFacts DEF IsValue
  <2> HIDE DEF k
  <2>2. ASSUME NEW i \in DOMAIN v.items, k = i - 1, w = v.items[i]
        PROVE  k \in 0 .. Len(v.items) - 1 /\ w = v.items[k + 1]
    <3>1. k \in 0 .. Len(v.items) - 1 /\ k + 1 = i
      BY <2>1, <2>2
    <3> QED
      BY <2>2, <3>1
  <2>3. ASSUME k \in 0 .. Len(v.items) - 1, w = v.items[k + 1]
        PROVE  \E i \in DOMAIN v.items : k = i - 1 /\ w = v.items[i]
    <3>1. k + 1 \in DOMAIN v.items /\ k = k + 1 - 1
      BY <2>1, <2>3
    <3> QED
      BY <2>3, <3>1
  <2> QED
    BY <1>3, <1>4, <2>2, <2>3
<1>5. CASE ~ Is("items", v)
  BY <1>3, <1>5
<1> QED
  BY <1>4, <1>5

LEMMA ReachedIsValue ==
  ASSUME NEW j \in Jobs, NEW doc \in DocumentsOf(j), NEW path, NEW n, NEW v,
         Reached(doc, path, n, v)
  PROVE  IsValue(v)
<1> DEFINE r == <<SubSeq(path, 1, n), v>>
<1>1. r \in Routes(doc) /\ r[2] = v
  BY DEF Reached
<1> HIDE DEF r
<1> QED
  BY <1>1, RouteFacts

(* A step of the loop that goes on keeps its invariant.                    *)
LEMMA StepAhead ==
  ASSUME LookupInv, pc = "lookup", rest # <<>>, NEW w, Leads(cur, Head(rest), w),
         Step(w, Tail(rest))
  PROVE  LookupInv'
<1>1. /\ Root' = Root /\ Sought' = Sought /\ Reference' = Reference
      /\ IsTemplate' = IsTemplate /\ HasRoot(Reference.ns)' = HasRoot(Reference.ns)
      /\ Raws(job.template)' = Raws(job.template)
      /\ job' = job /\ todo' = todo /\ pc' = "lookup" /\ cur' = w /\ rest' = Tail(rest)
  BY SameReference DEF Step
<1>2. PICK n \in 0 .. Len(Sought) :
        /\ Reached(Root, Sought, n, cur) /\ n \in Nat
        /\ n < Len(Sought) /\ Head(rest) = Sought[n + 1]
        /\ Tail(rest) = SubSeq(Sought, n + 1 + 1, Len(Sought))
  BY Standing DEF Remains
<1>3. Reached(Root, Sought, n + 1, w)
  BY <1>2, Standing, ReachedNext DEF LookupInv
<1>4. n + 1 \in 0 .. Len(Sought)
  BY <1>3 DEF Reached
<1>5. \E k \in 0 .. Len(Sought) :
        Reached(Root, Sought, k, w) /\ Tail(rest) = SubSeq(Sought, k + 1, Len(Sought))
  BY <1>2, <1>3, <1>4
<1>6. (\E k \in 0 .. Len(Sought) :
         Reached(Root, Sought, k, cur) /\ rest = SubSeq(Sought, k + 1, Len(Sought)))'
  BY <1>1, <1>5
<1> QED
  BY <1>1, <1>6 DEF LookupInv, Substituting

LEMMA InitLookup == Init => LookupInv
  BY DEF Init, LookupInv, Using, Substituting

(* The loop begins at the root, with the whole path before it.             *)
LEMMA BeginsAtRoot ==
  ASSUME job \in Jobs, IsTemplate => todo \subseteq Raws(job.template),
         IsTemplate => todo # {} /\ HasRoot(Reference.ns)
  PROVE  \E n \in 0 .. Len(Sought) :
           Reached(Root, Sought, n, Root) /\ Sought = SubSeq(Sought, n + 1, Len(Sought))
<1>1. Root \in DocumentsOf(job) /\ IsPath(Sought)
  BY RootFacts
<1>2. Reached(Root, Sought, 0, Root)
  BY <1>1, ReachedAtFirst
<1>3. SubSeq(Sought, 1, Len(Sought)) = Sought /\ 0 + 1 = 1
  BY <1>1, SubSeqFull DEF IsPath, IsList
<1>4. 0 \in 0 .. Len(Sought) /\ Sought = SubSeq(Sought, 0 + 1, Len(Sought))
  BY <1>2, <1>3 DEF Reached
<1> QED
  BY <1>2, <1>4

LEMMA BeginLookup ==
  ASSUME LookupInv, Begin
  PROVE  LookupInv'
<1>1. CASE IsTemplate
  <2>1. pc' = "next" /\ job' = job /\ todo' = Raws(job.template)
    BY <1>1 DEF Begin
  <2> QED
    BY <1>1, <2>1 DEF LookupInv, IsTemplate, Using
<1>2. CASE ~ IsTemplate
  <2>1. /\ pc' = "lookup" /\ job' = job /\ todo' = todo
        /\ cur' = job.doc /\ rest' = job.path
    BY <1>2 DEF Begin, Lookup
  <2>2. Root = job.doc /\ Sought = job.path
    BY <1>2 DEF Root, Sought
  <2>3. \E n \in 0 .. Len(Sought) :
          Reached(Root, Sought, n, cur') /\ rest' = SubSeq(Sought, n + 1, Len(Sought))
    BY <1>2, <2>1, <2>2, BeginsAtRoot DEF LookupInv
  <2> QED
    BY <1>2, <2>1, <2>3, SameReference DEF LookupInv, Substituting
<1> QED
  BY <1>1, <1>2

LEMMA NextInterpolationLookup ==
  ASSUME LookupInv, NextInterpolation
  PROVE  LookupInv'
<1>1. job' = job /\ todo' = todo /\ pc = "next"
  BY DEF NextInterpolation
<1>2. CASE todo # {} /\ HasRoot(Reference.ns)
  <2>1. pc' = "lookup" /\ cur' = Root /\ rest' = Reference.path
    BY <1>2 DEF NextInterpolation, Lookup
  <2>2. IsTemplate /\ Sought = Reference.path
    BY <1>1 DEF Sought, LookupInv, Substituting
  <2>3. \E n \in 0 .. Len(Sought) :
          Reached(Root, Sought, n, cur') /\ rest' = SubSeq(Sought, n + 1, Len(Sought))
    BY <1>2, <2>1, <2>2, BeginsAtRoot DEF LookupInv
  <2>4. /\ Root' = Root /\ Sought' = Sought /\ IsTemplate' = IsTemplate
        /\ HasRoot(Reference.ns)' = HasRoot(Reference.ns)
        /\ Raws(job.template)' = Raws(job.template)
    BY <1>1, SameReference
  <2>5. (\E n \in 0 .. Len(Sought) :
           Reached(Root, Sought, n, cur) /\ rest = SubSeq(Sought, n + 1, Len(Sought)))'
    BY <2>3, <2>4
  <2> QED
    BY <1>1, <1>2, <2>1, <2>2, <2>4, <2>5 DEF LookupInv
<1>3. CASE ~ (todo # {} /\ HasRoot(Reference.ns))
  <2>1. pc' \in {"done", "error"}
    BY <1>3 DEF NextInterpolation
  <2> QED
    BY <1>1, <2>1, SameReference DEF LookupInv, Using, Substituting
<1> QED
  BY <1>2, <1>3

(* The steps that end the loop, or come after it, stay at their            *)
(* interpolation.                                                          *)
LEMMA AfterLookup ==
  ASSUME LookupInv, job' = job, todo' = todo, pc \in Using,
         pc' \in Using \cup {"compare", "done", "error"}, pc' # "lookup",
         pc' \in Substituting => IsTemplate
  PROVE  LookupInv'
<1>1. /\ IsTemplate' = IsTemplate /\ HasRoot(Reference.ns)' = HasRoot(Reference.ns)
      /\ Raws(job.template)' = Raws(job.template)
  BY SameReference
<1> QED
  BY <1>1 DEF LookupInv

LEMMA FieldSegmentLookup ==
  ASSUME LookupInv, FieldSegment
  PROVE  LookupInv'
<1> DEFINE f == Head(rest).field
<1>1. pc = "lookup" /\ rest # <<>> /\ Is("field", Head(rest))
  BY DEF FieldSegment, At
<1>2. IsSegment(Head(rest))
  BY <1>1, Standing DEF Remains
<1>3. CASE HasField(cur, f) /\ ~ (InDocument /\ f = "")
  <2>1. Step(cur.fields[f], Tail(rest))
    BY <1>3 DEF FieldSegment
  <2>2. Leads(cur, Head(rest), cur.fields[f])
    BY <1>1, <1>2, <1>3, FieldLeads
  <2> QED
    BY <1>1, <2>1, <2>2, StepAhead
<1>4. CASE ~ (HasField(cur, f) /\ ~ (InDocument /\ f = ""))
  <2>1. Unresolved
    BY <1>4 DEF FieldSegment
  <2> QED
    BY <1>1, <2>1, AfterLookup DEF Unresolved, Using, Substituting
<1> QED
  BY <1>3, <1>4

LEMMA IndexSegmentLookup ==
  ASSUME LookupInv, IndexSegment
  PROVE  LookupInv'
<1> DEFINE k == Head(rest).index
<1>1. pc = "lookup" /\ rest # <<>> /\ Is("index", Head(rest))
  BY DEF IndexSegment, At
<1>2. IsSegment(Head(rest)) /\ IsValue(cur)
  BY <1>1, Standing, ReachedIsValue DEF Remains, LookupInv
<1>3. CASE Is("items", cur) /\ k \in 0 .. Len(cur.items) - 1
  <2>1. Step(cur.items[k + 1], Tail(rest))
    BY <1>3 DEF IndexSegment
  <2>2. Leads(cur, Head(rest), cur.items[k + 1])
    BY <1>1, <1>2, <1>3, IndexLeads
  <2> QED
    BY <1>1, <2>1, <2>2, StepAhead
<1>4. CASE ~ (Is("items", cur) /\ k \in 0 .. Len(cur.items) - 1)
  <2>1. Unresolved
    BY <1>4 DEF IndexSegment
  <2> QED
    BY <1>1, <2>1, AfterLookup DEF Unresolved, Using, Substituting
<1> QED
  BY <1>3, <1>4

LEMMA ReplaceLookup ==
  ASSUME LookupInv, Replace
  PROVE  LookupInv'
<1>1. job' = job /\ pc = "replace" /\ pc' = "next" /\ todo' = todo \ {Min(todo)}
  BY DEF Replace
<1>2. Raws(job.template)' = Raws(job.template) /\ IsTemplate' = IsTemplate
  BY <1>1 DEF IsTemplate
<1> QED
  BY <1>1, <1>2 DEF LookupInv, Using, Substituting

LEMMA NextIsLookup == LookupInv /\ [Next]_vars => LookupInv'
<1> SUFFICES ASSUME LookupInv, [Next]_vars PROVE LookupInv'
  OBVIOUS
<1>1. CASE EndOfPath \/ Project \/ Malformed
  <2>1. pc = "lookup" /\ (Unresolved \/ \E v : Found(v))
    BY <1>1 DEF EndOfPath, Project, Malformed, At
  <2> QED
    BY <2>1, AfterLookup DEF Unresolved, Found, Using, Substituting
<1>2. CASE Missing
  BY <1>2, AfterLookup DEF Missing, Using, Substituting
<1>3. CASE Bare \/ OtherTransform \/ AmountMajor
  BY <1>3, AfterLookup DEF Bare, OtherTransform, AmountMajor, Made, Raise, Using, Substituting,
                           LookupInv
<1>4. CASE FormatAmount \/ Formatted
  BY <1>4, AfterLookup DEF FormatAmount, Format, FormatWhole, BeginScale, Scale, Split, Pad,
                           Formatted, Made, Using, Substituting, LookupInv
<1>5. CASE Compare
  BY <1>5, SameReference DEF Compare, LookupInv, Using, Substituting
<1>6. CASE Finished \/ UNCHANGED vars
  <2>1. UNCHANGED <<job, pc, todo, cur, rest>>
    BY <1>6 DEF Finished, vars
  <2>2. UNCHANGED <<IsTemplate, Raws(job.template), HasRoot(Reference.ns), Root, Sought>>
    BY <2>1, SameReference
  <2> QED
    BY <2>1, <2>2 DEF LookupInv
<1> QED
  BY <1>1, <1>2, <1>3, <1>4, <1>5, <1>6, BeginLookup, NextInterpolationLookup,
     FieldSegmentLookup, IndexSegmentLookup, ReplaceLookup DEF Next

-----------------------------------------------------------------------------
(* A path that ends denotes what the loop holds.                           *)
LEMMA EndOfPathFollows ==
  ASSUME LookupInv, EndOfPath
  PROVE  ExtractFollowsGrammar'
<1>1. pc = "lookup" /\ rest = <<>> /\ job' = job /\ todo' = todo
  BY DEF EndOfPath, Unresolved, Found
<1>2. Root' = Root /\ Sought' = Sought
  BY <1>1, SameReference
<1> SUFFICES ASSUME Shaped(Sought)
             PROVE  /\ pc' \in {"transform", "compare"} /\ Denotes(Root, Sought) = {value'}
                    /\ pc' # "unresolved"
  BY <1>2 DEF ExtractFollowsGrammar, InGrammar
<1>3. Reached(Root, Sought, Len(Sought), cur)
  BY <1>1, Standing DEF Remains
<1>4. Denotes(Root, Sought) = {cur}
  BY <1>3, Standing, EndMeans, <1>1 DEF LookupInv
<1>5. Sought # <<>>
  <2> SUFFICES ASSUME Sought = <<>> PROVE FALSE
    OBVIOUS
  <2>1. Len(Sought) = 0
    BY EmptySeq
  <2> QED
    BY <2>1 DEF Shaped, Single, Projecting
<1>6. Found(cur)
  BY <1>5 DEF EndOfPath
<1> QED
  BY <1>4, <1>6 DEF Found

(* A segment that leads nowhere belongs to a path that denotes nothing.    *)
LEMMA DeadEndFollows ==
  ASSUME LookupInv, pc = "lookup", rest # <<>>, Leg(Head(rest)), Unresolved,
         \A w : ~ Leads(cur, Head(rest), w)
  PROVE  ExtractFollowsGrammar'
<1>1. Root' = Root /\ Sought' = Sought /\ pc' = "unresolved"
  BY SameReference DEF Unresolved
<1> SUFFICES ASSUME Shaped(Sought) PROVE Denotes(Root, Sought) = {}
  BY <1>1 DEF ExtractFollowsGrammar, InGrammar
<1>2. PICK n \in 0 .. Len(Sought) : /\ Reached(Root, Sought, n, cur) /\ n < Len(Sought)
                                    /\ Head(rest) = Sought[n + 1]
  BY Standing DEF Remains
<1>3. Leg(Sought[n + 1]) /\ \A w : ~ Leads(cur, Sought[n + 1], w)
  BY <1>2
<1> QED
  BY <1>2, <1>3, Standing, DeadEnd DEF LookupInv

LEMMA NextPlace == ASSUME NEW m \in Nat, NEW k \in Nat, k < m PROVE k + 1 \in 1 .. m
  OBVIOUS

(* A field without a name belongs to no path of the grammar.               *)
LEMMA NamelessFollows ==
  ASSUME LookupInv, pc = "lookup", rest # <<>>, Is("field", Head(rest)),
         Head(rest).field = "", Unresolved
  PROVE  ExtractFollowsGrammar'
<1>1. Sought' = Sought /\ pc' = "unresolved"
  BY SameReference DEF Unresolved
<1>2. PICK n \in 0 .. Len(Sought) : /\ n \in Nat /\ n < Len(Sought) /\ Len(Sought) \in Nat
                                    /\ Head(rest) = Sought[n + 1] /\ IsSegment(Sought[n + 1])
                                    /\ IsPath(Sought)
  BY Standing DEF Remains
<1>3. Sought[n + 1] = [field |-> ""]
  BY <1>2, SegmentForms
<1>4. n + 1 \in DOMAIN Sought
  <2> DEFINE m == Len(Sought)
  <2>1. n \in Nat /\ n < m /\ m \in Nat
    BY <1>2
  <2>2. DOMAIN Sought = 1 .. m
    BY <1>2, ListFacts DEF IsPath
  <2>3. n + 1 \in 1 .. m
    <3> HIDE DEF m
    <3> QED BY <2>1, NextPlace
  <2> QED
    BY <2>2, <2>3
<1> QED
  BY <1>1, <1>3, <1>4 DEF ExtractFollowsGrammar, InGrammar

LEMMA SegmentFollows ==
  ASSUME LookupInv, FieldSegment \/ IndexSegment
  PROVE  ExtractFollowsGrammar'
<1>1. pc = "lookup" /\ rest # <<>> /\ Leg(Head(rest))
  BY DEF FieldSegment, IndexSegment, At, Leg
<1>2. IsSegment(Head(rest)) /\ IsValue(cur)
  BY <1>1, Standing, ReachedIsValue DEF Remains, LookupInv
<1>3. CASE pc' = "lookup"
  BY <1>3 DEF ExtractFollowsGrammar
<1>4. CASE pc' # "lookup" /\ FieldSegment
  <2>1. /\ Is("field", Head(rest)) /\ Unresolved
        /\ ~ HasField(cur, Head(rest).field) \/ Head(rest).field = ""
    BY <1>1, <1>4 DEF FieldSegment, Step, At
  <2>2. CASE Head(rest).field = ""
    BY <1>1, <2>1, <2>2, NamelessFollows
  <2>3. CASE ~ HasField(cur, Head(rest).field)
    <3>1. \A w : ~ Leads(cur, Head(rest), w)
      BY <1>2, <2>1, <2>3, FieldLeads
    <3> QED
      BY <1>1, <2>1, <3>1, DeadEndFollows
  <2> QED
    BY <2>1, <2>2, <2>3
<1>5. CASE pc' # "lookup" /\ IndexSegment
  <2>1. /\ ~ (Is("items", cur) /\ Head(rest).index \in 0 .. Len(cur.items) - 1)
        /\ Is("index", Head(rest)) /\ Unresolved
    BY <1>1, <1>5 DEF IndexSegment, Step, At
  <2>2. \A w : ~ Leads(cur, Head(rest), w)
    BY <1>2, <2>1, IndexLeads
  <2> QED
    BY <1>1, <2>1, <2>2, DeadEndFollows
<1> QED
  BY <1>3, <1>4, <1>5

(* A projection denotes what the loop makes of it, an empty one aside.     *)
LEMMA ProjectFollows ==
  ASSUME LookupInv, Project
  PROVE  ExtractFollowsGrammar'
<1>1. pc = "lookup" /\ rest # <<>> /\ Is("all", Head(rest)) /\ job' = job /\ todo' = todo
  BY DEF Project, At, Found, Unresolved
<1>2. Root' = Root /\ Sought' = Sought
  BY <1>1, SameReference
<1>3. PICK n \in 0 .. Len(Sought) : /\ Reached(Root, Sought, n, cur) /\ n < Len(Sought)
                                    /\ Is("all", Sought[n + 1]) /\ n \in Nat
                                    /\ Len(rest) > 1 <=> n + 1 < Len(Sought)
                                    /\ Len(rest) > 1 => rest[2] = Sought[n + 2]
  BY <1>1, Standing DEF Remains
<1> SUFFICES ASSUME Shaped(Sought) PROVE ExtractFollowsGrammar'
  BY <1>2 DEF ExtractFollowsGrammar, InGrammar
<1> DEFINE field == Sought[Len(Sought)].field
<1>4. /\ Len(Sought) \in Nat /\ n = Len(Sought) - 2 /\ Is("field", Sought[n + 2])
      /\ Sought[n + 2].field = field
      /\ Denotes(Root, Sought) = IF Projectable(cur, field) THEN {Projection(cur, field)} ELSE {}
  BY <1>1, <1>3, Standing, ProjectionMeans DEF LookupInv
<1>5. Len(rest) > 1 /\ Is("field", rest[2]) /\ rest[2].field = field
  <2> DEFINE m == Len(Sought)
  <2>1. m \in Nat /\ n \in Nat /\ n = m - 2
    BY <1>3, <1>4
  <2> HIDE DEF m
  <2>2. n + 1 < m
    BY <2>1
  <2>3. Len(rest) > 1
    BY <1>3, <2>2 DEF m
  <2> QED
    BY <1>3, <1>4, <2>3
<1> HIDE DEF field
<1>6. CASE Projectable(cur, field)
  <2>1. pc' \in {"transform", "compare"}
        /\ value' = IF cur.items = <<>> THEN [no_items |-> TRUE] ELSE Projection(cur, field)
    BY <1>5, <1>6 DEF Project, Projectable, Projection, Found
  <2>2. Denotes(Root, Sought) = {Projection(cur, field)}
    BY <1>4, <1>6
  <2>3. cur.items = <<>> => Projection(cur, field) = [items |-> <<>>]
    <3> SUFFICES ASSUME cur.items = <<>> PROVE Projection(cur, field) = [items |-> <<>>]
      OBVIOUS
    <3>1. DOMAIN cur.items = {}
      OBVIOUS
    <3>2. [i \in DOMAIN cur.items |-> cur.items[i].fields[field]] = <<>>
      BY <3>1
    <3> QED
      BY <3>2 DEF Projection
  <2> QED
    BY <1>2, <2>1, <2>2, <2>3 DEF ExtractFollowsGrammar
<1>7. CASE ~ Projectable(cur, field)
  <2>1. pc' = "unresolved"
    BY <1>5, <1>7 DEF Project, Projectable, Unresolved
  <2> QED
    BY <1>2, <1>4, <1>7, <2>1 DEF ExtractFollowsGrammar
<1> QED
  BY <1>6, <1>7

(* No path of the grammar has a segment that is none.                      *)
LEMMA MalformedFollows ==
  ASSUME LookupInv, Malformed
  PROVE  ExtractFollowsGrammar'
<1>1. pc = "lookup" /\ rest # <<>> /\ Is("malformed", Head(rest))
  BY DEF Malformed, At
<1>2. Root' = Root /\ Sought' = Sought
  BY SameReference DEF Malformed, Unresolved
<1> SUFFICES ASSUME Shaped(Sought) PROVE FALSE
  BY <1>2 DEF ExtractFollowsGrammar, InGrammar
<1>3. PICK n \in 0 .. Len(Sought) : /\ Reached(Root, Sought, n, cur) /\ n < Len(Sought)
                                    /\ Is("malformed", Sought[n + 1])
  BY <1>1, Standing DEF Remains
<1> QED
  BY <1>1, <1>3, Standing, LegsBound

LEMMA NextFollows ==
  ASSUME LookupInv, ExtractFollowsGrammar, [Next]_vars
  PROVE  ExtractFollowsGrammar'
<1>1. CASE \/ Begin \/ NextInterpolation \/ Missing \/ Bare \/ OtherTransform \/ AmountMajor
           \/ FormatAmount \/ Formatted \/ Replace \/ Compare
  <2>1. pc' \notin {"transform", "compare", "unresolved"}
    BY <1>1 DEF Begin, NextInterpolation, Missing, Bare, OtherTransform, AmountMajor,
                FormatAmount, Format, FormatWhole, BeginScale, Scale, Split, Pad, Formatted,
                Replace, Compare, Lookup, Made, Raise
  <2> QED
    BY <2>1 DEF ExtractFollowsGrammar
<1>2. CASE Finished \/ UNCHANGED vars
  <2>1. UNCHANGED <<job, pc, todo, value>>
    BY <1>2 DEF Finished, vars
  <2>2. Root' = Root /\ Sought' = Sought
    BY <2>1, SameReference
  <2> QED
    BY <2>1, <2>2 DEF ExtractFollowsGrammar
<1> QED
  BY <1>1, <1>2, EndOfPathFollows, SegmentFollows, ProjectFollows, MalformedFollows DEF Next

LEMMA InitFollows == Init => ExtractFollowsGrammar
  BY DEF Init, ExtractFollowsGrammar

(* Extract and lookupDotPath read a path as its grammar says (spec/04):    *)
(* whatever the documents hold, however deep they nest and however long    *)
(* the path is, a path of the grammar resolves to what the document holds  *)
(* there, an empty projection to a nil slice, and to nothing only where    *)
(* the document holds nothing.                                             *)
THEOREM ExtractionFollowsGrammar == Spec => []ExtractFollowsGrammar
<1>1. Init => LookupInv /\ ExtractFollowsGrammar
  BY InitLookup, InitFollows
<1>2. /\ LookupInv /\ ExtractFollowsGrammar /\ [Next]_vars
      => (LookupInv /\ ExtractFollowsGrammar)'
  BY NextIsLookup, NextFollows
<1> QED
  BY <1>1, <1>2, PTL DEF Spec

-----------------------------------------------------------------------------
(***************************************************************************)
(* Interpolation.  What replaces an interpolation is its meaning: the      *)
(* value its path denotes, as its transform writes it.                     *)
(***************************************************************************)
Currency == job.namespaces["intent"].fields["currency"].text

MeaningInv ==
  /\ pc \in {"transform"} \cup Formatting =>
       value = Denoted(Reference) /\ \E r \in Routes(Root) : r[2] = value
  /\ pc \in Formatting => /\ Reference.transform = "amount_major"
                          /\ amount \in ToInt64(value) /\ exponent = Exponents[Currency]
  /\ pc = "pad" => \E k \in 1 .. exponent :
       printed = Decimal(amount < 0, Size(amount) \div Ten[exponent],
                         Size(amount) % Ten[exponent], k)
  /\ pc = "formatted" => printed = ExactDecimal(amount, exponent)
  /\ pc = "replace" /\ IsWhole(Reference) =>
       value = [text |-> Meaning(Reference)] /\ IsList(Meaning(Reference))

(* Every operator that says what a reference means looks at the arguments  *)
(* of the call alone.                                                      *)
LEMMA SameMeaning ==
  ASSUME job' = job, todo' = todo
  PROVE  /\ Denoted(Reference)' = Denoted(Reference) /\ Root' = Root
         /\ Meaning(Reference)' = Meaning(Reference) /\ Reference' = Reference
         /\ IsWhole(Reference)' = IsWhole(Reference) /\ Currency' = Currency
<1>1. Reference' = Reference /\ Root' = Root
  BY SameReference
<1>2. Denoted(Reference)' = Denoted(Reference) /\ Currency' = Currency
  BY <1>1 DEF Denoted, Base, Currency
<1>3. Meaning(Reference)' = Meaning(Reference) /\ IsWhole(Reference)' = IsWhole(Reference)
  BY <1>1 DEF Meaning, IsWhole, Denoted, Base
<1> QED
  BY <1>1, <1>2, <1>3

LEMMA MeaningCases ==
  /\ Reference.transform = "" => Meaning(Reference) = Printed(Denoted(Reference))
  /\ Reference.transform = "amount_major" =>
       Meaning(Reference) = AsText(ExactDecimal(CHOOSE n \in IntegerOf(Denoted(Reference)) : TRUE,
                                                Exponents[Currency]))
  /\ Reference.transform \notin {"", "amount_major"} =>
       Meaning(Reference) = CHOOSE text \in Convert(Reference.transform, Denoted(Reference)) : TRUE
  BY DEF Meaning, Currency

(* The integer a number is comes back from its units.                      *)
LEMMA UnitsOfInteger ==
  ASSUME NEW n \in Int
  PROVE  Truncated(n * Grain) = n
<1>1. Grain \in Nat \ {0}
  BY ConversionsAreSigned
<1>2. ASSUME NEW k \in Nat PROVE (k * Grain) \div Grain = k
  <2> DEFINE q == (k * Grain) \div Grain
             r == (k * Grain) % Grain
  <2>1. k * Grain \in Nat
    BY <1>1
  <2>2. q \in Nat /\ r \in 0 .. Grain - 1 /\ k * Grain = q * Grain + r
    BY <1>1, <2>1, QuotientAndRemainder
  <2> HIDE DEF q, r
  <2>3. CASE q < k
    <3>1. k >= q + 1 /\ k * Grain >= (q + 1) * Grain /\ (q + 1) * Grain = q * Grain + Grain
      BY <1>1, <2>2, <2>3
    <3> QED
      BY <1>1, <2>1, <2>2, <3>1
  <2>4. CASE q > k
    <3>1. q >= k + 1 /\ q * Grain >= (k + 1) * Grain /\ (k + 1) * Grain = k * Grain + Grain
      BY <1>1, <2>2, <2>4
    <3> QED
      BY <1>1, <2>1, <2>2, <3>1
  <2> QED
    BY <2>2, <2>3, <2>4 DEF q
<1>3. CASE n >= 0
  <2>1. ~ (n * Grain < 0) /\ n \in Nat
    BY <1>1, <1>3
  <2> QED
    BY <1>2, <2>1 DEF Truncated
<1>4. CASE n < 0
  <2>1. n * Grain < 0 /\ -(n * Grain) = (-n) * Grain /\ -n \in Nat
    BY <1>1, <1>4
  <2>2. ((-n) * Grain) \div Grain = -n
    BY <1>2, <2>1
  <2> QED
    BY <2>1, <2>2 DEF Truncated
<1> QED
  BY <1>3, <1>4

(* A value that is an integer is no other, and toInt64 makes that of it.   *)
LEMMA OneInteger ==
  ASSUME NEW v, IsValue(v), NEW n \in ToInt64(v), IntegerOf(v) # {}
  PROVE  (CHOOSE m \in IntegerOf(v) : TRUE) = n
<1>1. ASSUME NEW m \in IntegerOf(v)
      PROVE  m = n
  <2>1. \A x, y \in DOMAIN v : x = y
    BY DEF IsValue
  <2>2. CASE Is("int", v)
    BY <1>1, <2>1, <2>2 DEF ToInt64, IntegerOf, Is
  <2>3. CASE Is("number", v)
    <3>1. n = Int64(v.number) /\ v.number = m * Grain /\ m \in Signed
      BY <1>1, <2>1, <2>3 DEF ToInt64, IntegerOf, Is
    <3>2. m \in Int
      BY <3>1, PowersFit DEF Signed
    <3>3. Truncated(v.number) = m
      BY <3>1, <3>2, UnitsOfInteger
    <3> QED
      BY <3>1, <3>3 DEF Int64
  <2>4. CASE Is("text", v)
    <3>1. v.text = <<[decimal |-> m]>> /\ v.text = <<[decimal |-> n]>>
      BY <1>1, <2>1, <2>4 DEF ToInt64, IntegerOf, Is
    <3>2. v.text[1] = [decimal |-> m] /\ v.text[1] = [decimal |-> n]
      BY <3>1
    <3>3. [decimal |-> m].decimal = m /\ [decimal |-> n].decimal = n
      OBVIOUS
    <3> QED
      BY <3>2, <3>3, Zenon
  <2> QED
    BY <1>1, <2>2, <2>3, <2>4 DEF IntegerOf
<1> QED
  BY <1>1

(* What is printed is a text.                                              *)
LEMMA PrintedIsList ==
  ASSUME NEW v, IsValue(v)
  PROVE  IsList(Printed(v))
<1>1. \A t : IsList(<<t>>)
  <2> TAKE t
  <2>1. <<t>> \in Seq({t})
    OBVIOUS
  <2> QED
    BY <2>1, SequencesAreLists
<1>2. CASE Is("text", v)
  <2>1. \A kind \in {"int", "number", "bool", "null"} : ~ Is(kind, v)
    BY <1>2 DEF IsValue, Is
  <2>2. Printed(v) = v.text
    BY <1>2, <2>1 DEF Printed
  <2> QED
    BY <1>2, <2>2 DEF IsValue
<1>3. CASE ~ Is("text", v)
  BY <1>1, <1>3 DEF Printed
<1> QED
  BY <1>2, <1>3

LEMMA AmountIsList == ASSUME NEW d PROVE IsList(AsText(d))
<1>1. \A t : IsList(<<t>>)
  <2> TAKE t
  <2>1. <<t>> \in Seq({t})
    OBVIOUS
  <2> QED
    BY <2>1, SequencesAreLists
<1> QED
  BY <1>1 DEF AsText

LEMMA InitMeaning == Init => MeaningInv
  BY DEF Init, MeaningInv, Formatting

(* An interpolation has nothing but fields: what it resolves to is what it *)
(* denotes, or the namespace itself where it names no field.               *)
LEMMA EndOfPathMeaning ==
  ASSUME LookupInv, EndOfPath
  PROVE  MeaningInv'
<1>1. pc = "lookup" /\ rest = <<>> /\ job' = job /\ todo' = todo
  BY DEF EndOfPath, Unresolved, Found
<1>2. CASE ~ IsTemplate \/ (InDocument /\ Sought = <<>>)
  <2>1. pc' \in {"unresolved", "compare"}
    BY <1>2 DEF EndOfPath, Unresolved, Found
  <2> QED
    BY <2>1 DEF MeaningInv, Formatting
<1>3. CASE IsTemplate /\ ~ (InDocument /\ Sought = <<>>)
  <2>1. pc' = "transform" /\ value' = cur
    BY <1>3 DEF EndOfPath, Found
  <2>2. Reached(Root, Sought, Len(Sought), cur) /\ Root \in DocumentsOf(job) /\ IsPath(Sought)
    BY <1>1, Standing DEF Remains
  <2>3. Sought = Reference.path /\ Root = Base(Reference)
    BY <1>3 DEF Sought, Root, Base
  <2>4. \A i \in DOMAIN Sought : Is("field", Sought[i])
    BY <1>1, <1>3, <2>3, ReferenceFacts DEF LookupInv, Using
  <2>5. \E r \in Routes(Root) : r[2] = cur
    <3> DEFINE r == <<SubSeq(Sought, 1, Len(Sought)), cur>>
    <3>1. r \in Routes(Root) /\ r[2] = cur
      BY <2>2 DEF Reached
    <3> HIDE DEF r
    <3> QED
      BY <3>1
  <2>6. Denoted(Reference) = cur
    <3>1. CASE Sought = <<>>
      <4> DEFINE r == <<<<>>, Root>>
      <4>1. r \in Routes(Root)
        BY <2>2, RouteFacts DEF LookupInv
      <4>2. Len(Sought) = 0 /\ SubSeq(Sought, 1, 0) = <<>>
        BY <3>1, EmptySeq, SubSeqEmpty
      <4>3. r[1] = SubSeq(Sought, 1, Len(Sought)) /\ r[2] = Root
        BY <4>2
      <4> HIDE DEF r
      <4>4. Root = cur
        BY <2>2, <4>1, <4>3, ReachedIsOne DEF LookupInv
      <4> QED
        BY <2>3, <3>1, <4>4 DEF Denoted
    <3>2. CASE Sought # <<>>
      <4>1. Shaped(Sought)
        BY <2>4, <3>2 DEF Shaped, Single
      <4>2. Denotes(Root, Sought) = {cur}
        BY <2>2, <4>1, EndMeans DEF LookupInv
      <4> QED
        BY <2>3, <3>2, <4>2 DEF Denoted
    <3> QED
      BY <3>1, <3>2
  <2> QED
    BY <1>1, <2>1, <2>5, <2>6, SameMeaning DEF MeaningInv, Formatting
<1> QED
  BY <1>2, <1>3

(* An interpolation has no projection.                                     *)
LEMMA ProjectMeaning ==
  ASSUME LookupInv, Project
  PROVE  MeaningInv'
<1>1. CASE ~ IsTemplate
  BY <1>1 DEF Project, Found, Unresolved, MeaningInv, Formatting
<1>2. CASE IsTemplate
  <2>1. pc = "lookup" /\ rest # <<>> /\ Is("all", Head(rest))
    BY DEF Project, At
  <2>2. PICK n \in 0 .. Len(Sought) : /\ Head(rest) = Sought[n + 1] /\ n < Len(Sought)
                                      /\ IsSegment(Sought[n + 1]) /\ n \in Nat
    BY <2>1, Standing DEF Remains
  <2>3. Sought = Reference.path /\ IsPath(Sought) /\ Len(Sought) \in Nat
    BY <1>2, <2>1, Standing DEF Sought
  <2>4. \A i \in DOMAIN Sought : Is("field", Sought[i])
    BY <1>2, <2>1, <2>3, ReferenceFacts DEF LookupInv, Using
  <2>5. n + 1 \in DOMAIN Sought
    BY <2>2, <2>3, ListFacts DEF IsPath
  <2>6. Is("field", Head(rest)) /\ IsSegment(Head(rest))
    BY <2>2, <2>4, <2>5
  <2> QED
    BY <2>1, <2>6, SegmentForms DEF Leg
<1> QED
  BY <1>1, <1>2

(* The value a transform gets is one of the root's.                        *)
LEMMA ValueFacts ==
  ASSUME LookupInv, MeaningInv, pc \in {"transform"} \cup Formatting
  PROVE  /\ IsTemplate /\ value = Denoted(Reference) /\ IsValue(value)
         /\ Reference.transform \notin {"", "amount_major"} =>
              \A t, u \in Convert(Reference.transform, value) : t = u /\ IsList(t)
<1>1. /\ IsTemplate /\ todo # {} /\ todo \subseteq Raws(job.template) /\ job \in Jobs
      /\ HasRoot(Reference.ns) /\ value = Denoted(Reference)
  BY DEF LookupInv, MeaningInv, Using, Substituting, Formatting
<1>2. PICK r \in Routes(Root) : r[2] = value
  BY DEF MeaningInv
<1>3. Root \in DocumentsOf(job)
  BY <1>1, RootFacts
<1>4. IsValue(value)
  BY <1>1, <1>2, <1>3, RouteFacts
<1>5. Interp.raw \in DOMAIN Interpolations /\ Reference = Interpolations[Interp.raw]
  BY <1>1, ReferenceFacts, PlaceFacts DEF Interp, Reference, IsTemplate
<1>6. \A t, u \in Convert(Reference.transform, value) : t = u /\ IsList(t)
  <2>1. \A t, u \in Convert(Interpolations[Interp.raw].transform, r[2]) : t = u /\ IsList(t)
    BY <1>1, <1>2, <1>3, <1>5, TransformsReturnOneText DEF IsTemplate
  <2> QED
    BY <1>2, <1>5, <2>1
<1> QED
  BY <1>1, <1>4, <1>6

LEMMA BareMeaning ==
  ASSUME LookupInv, MeaningInv, Bare
  PROVE  MeaningInv'
<1>1. /\ pc = "transform" /\ Reference.transform = "" /\ job' = job /\ todo' = todo
      /\ pc' = "replace" /\ value' = [text |-> Printed(value)]
  BY DEF Bare, Made
<1>2. Meaning(Reference) = Printed(value) /\ IsList(Printed(value))
  BY <1>1, ValueFacts, MeaningCases, PrintedIsList
<1> QED
  BY <1>1, <1>2, SameMeaning DEF MeaningInv, Formatting

LEMMA OtherTransformMeaning ==
  ASSUME LookupInv, MeaningInv, OtherTransform
  PROVE  MeaningInv'
<1>1. /\ pc = "transform" /\ Reference.transform \notin {"", "amount_major"}
      /\ job' = job /\ todo' = todo
  BY DEF OtherTransform, Made, Raise
<1>2. CASE pc' = "error"
  BY <1>2 DEF MeaningInv, Formatting
<1>3. CASE pc' # "error"
  <2>1. PICK text \in Convert(Reference.transform, value) :
          pc' = "replace" /\ value' = [text |-> text]
    BY <1>3 DEF OtherTransform, Made, Raise
  <2>2. Meaning(Reference) = text /\ IsList(text)
    <3>1. \A t, u \in Convert(Reference.transform, value) : t = u /\ IsList(t)
      BY <1>1, ValueFacts
    <3>2. Meaning(Reference) = CHOOSE t \in Convert(Reference.transform, value) : TRUE
      BY <1>1, ValueFacts, MeaningCases
    <3> QED
      BY <2>1, <3>1, <3>2
  <2> QED
    BY <1>1, <2>1, <2>2, SameMeaning DEF MeaningInv, Formatting
<1> QED
  BY <1>2, <1>3

LEMMA AmountMajorMeaning ==
  ASSUME LookupInv, MeaningInv, AmountMajor
  PROVE  MeaningInv'
<1>1. pc = "transform" /\ Reference.transform = "amount_major"
  BY DEF AmountMajor
<1>2. CASE pc' = "error"
  BY <1>2 DEF MeaningInv, Formatting
<1>3. CASE pc' # "error"
  <2>1. /\ pc' = "format" /\ amount' \in ToInt64(value) /\ exponent' = Exponents[Currency]
        /\ value' = value /\ job' = job /\ todo' = todo
    BY <1>3 DEF AmountMajor, Raise, Currency
  <2>2. value = Denoted(Reference) /\ \E r \in Routes(Root) : r[2] = value
    BY <1>1 DEF MeaningInv
  <2> QED
    BY <1>1, <2>1, <2>2, SameMeaning DEF MeaningInv, Formatting
<1> QED
  BY <1>2, <1>3

(* formatMinorUnits leaves its caller's locals alone.                      *)
LEMMA FormatAmountMeaning ==
  ASSUME FormatInv, LookupInv, MeaningInv, FormatAmount
  PROVE  MeaningInv'
<1>1. /\ job' = job /\ todo' = todo /\ value' = value
      /\ amount' = amount /\ exponent' = exponent
      /\ pc \in Formatting /\ pc' \in Formatting
  BY DEF FormatAmount, Format, FormatWhole, BeginScale, Scale, Split, Pad, Formatting
<1>2. /\ value = Denoted(Reference) /\ \E r \in Routes(Root) : r[2] = value
      /\ Reference.transform = "amount_major"
      /\ amount \in ToInt64(value) /\ exponent = Exponents[Currency]
  BY <1>1 DEF MeaningInv
<1>3. /\ value' = Denoted(Reference)' /\ (\E r \in Routes(Root) : r[2] = value)'
      /\ Reference.transform' = "amount_major"
      /\ amount' \in ToInt64(value') /\ exponent' = Exponents[Currency]'
  BY <1>1, <1>2, SameMeaning
<1>4. /\ amount \in Signed /\ exponent \in 0 .. MaxExponent /\ Ten[0] = 1
      /\ MaxExponent \in Nat /\ Half \in Nat
  BY <1>1, PowersFit DEF FormatInv
<1> DEFINE whole == Size(amount) \div Ten[exponent]
           frac  == Size(amount) % Ten[exponent]
<1>5. Size(amount) \in Nat
  BY <1>4 DEF Size, Signed
<1>6. ExactDecimal(amount, exponent) = Decimal(amount < 0, whole, frac, exponent)
  BY DEF ExactDecimal, Size
<1>7. CASE FormatWhole
  <2>1. exponent = 0 /\ pc' = "formatted" /\ printed' = Decimal(amount < 0, Size(amount), 0, 0)
    BY <1>7 DEF FormatWhole, Size
  <2>2. whole = Size(amount) /\ frac = 0
    <3>1. \A s \in Nat : s \div 1 = s /\ s % 1 = 0
      OBVIOUS
    <3> QED
      BY <1>4, <1>5, <2>1, <3>1
  <2>3. printed' = ExactDecimal(amount, exponent)
    BY <1>6, <2>1, <2>2
  <2> QED
    BY <1>1, <1>3, <2>1, <2>3 DEF MeaningInv
<1>8. CASE BeginScale \/ Scale
  <2>1. pc' = "scale"
    BY <1>8 DEF BeginScale, Scale
  <2> QED
    BY <1>3, <2>1 DEF MeaningInv, Formatting
<1>9. CASE Split
  <2>1. mag = Size(amount) /\ div = Ten[exponent] /\ pc' = "pad" /\ exponent \in 1 .. MaxExponent
    BY <1>4, <1>9 DEF Split, FormatInv
  <2>2. printed' = Decimal(amount < 0, whole, frac, Width(frac))
    BY <1>9, <2>1 DEF Split
  <2>3. Width(frac) \in 1 .. exponent
    <3>1. Ten[exponent] \in Nat \ {0}
      BY <1>4, PowersFit
    <3>2. frac \in 0 .. Ten[exponent] - 1
      BY <1>5, <3>1, QuotientAndRemainder
    <3>3. frac \in Nat /\ frac < Ten[exponent]
      BY <3>1, <3>2
    <3> HIDE DEF frac
    <3> QED
      BY <2>1, <3>3, WidthIsBounded
  <2> HIDE DEF whole, frac
  <2>4. \E k \in 1 .. exponent : printed' = Decimal(amount < 0, whole, frac, k)
    BY <2>2, <2>3
  <2> QED
    BY <1>1, <1>3, <2>1, <2>4 DEF MeaningInv, Formatting, whole, frac
<1>10. CASE Pad
  <2>1. PICK k \in 1 .. exponent : printed = Decimal(amount < 0, whole, frac, k)
    BY <1>10 DEF Pad, MeaningInv
  <2> HIDE DEF whole, frac
  <2>2. CASE printed.places < exponent
    <3>1. pc' = "pad" /\ printed' = [printed EXCEPT !.places = @ + 1]
      BY <1>10, <2>2 DEF Pad
    <3>2. printed' = Decimal(amount < 0, whole, frac, k + 1)
      BY <2>1, <3>1 DEF Decimal
    <3>3. k + 1 \in 1 .. exponent
      BY <1>4, <2>1, <2>2 DEF Decimal
    <3> QED
      BY <1>1, <1>3, <3>1, <3>2, <3>3 DEF MeaningInv, Formatting, whole, frac
  <2>3. CASE ~ (printed.places < exponent)
    <3>1. pc' = "formatted" /\ printed' = printed
      BY <1>10, <2>3 DEF Pad
    <3>2. k = exponent
      BY <1>4, <2>1, <2>3 DEF Decimal
    <3>3. printed' = ExactDecimal(amount, exponent)
      BY <1>6, <2>1, <3>1, <3>2
    <3> QED
      BY <1>1, <1>3, <3>1, <3>3 DEF MeaningInv, Formatting
  <2> QED
    BY <2>2, <2>3
<1> QED
  BY <1>7, <1>8, <1>9, <1>10 DEF FormatAmount, Format

LEMMA FormattedMeaning ==
  ASSUME LookupInv, MeaningInv, Formatted
  PROVE  MeaningInv'
<1>1. /\ pc = "formatted" /\ pc' = "replace" /\ value' = [text |-> AsText(printed)]
      /\ job' = job /\ todo' = todo
  BY DEF Formatted, Made
<1>2. /\ printed = ExactDecimal(amount, exponent) /\ amount \in ToInt64(value)
      /\ exponent = Exponents[Currency] /\ Reference.transform = "amount_major"
      /\ value = Denoted(Reference) /\ IsValue(value)
  BY <1>1, ValueFacts DEF MeaningInv, Formatting
<1>3. IsWhole(Reference) => Meaning(Reference) = AsText(printed)
  BY <1>2, OneInteger, MeaningCases DEF IsWhole
<1>4. IsList(AsText(printed))
  BY AmountIsList
<1> QED
  BY <1>1, <1>3, <1>4, SameMeaning DEF MeaningInv, Formatting

LEMMA NextMeaning ==
  ASSUME FormatInv, LookupInv, MeaningInv, [Next]_vars
  PROVE  MeaningInv'
<1>1. CASE \/ Begin \/ NextInterpolation \/ FieldSegment \/ IndexSegment \/ Malformed
           \/ Missing \/ Replace \/ Compare
  <2>1. pc' \notin {"transform", "replace"} \cup Formatting
    BY <1>1 DEF Begin, NextInterpolation, FieldSegment, IndexSegment, Malformed, Missing,
                Replace, Compare, Lookup, Step, Unresolved, At, Formatting
  <2> QED
    BY <2>1 DEF MeaningInv, Formatting
<1>2. CASE Finished \/ UNCHANGED vars
  <2>1. UNCHANGED <<job, pc, todo, value, amount, exponent, printed>>
    BY <1>2 DEF Finished, vars, amountVars
  <2>2. UNCHANGED <<Denoted(Reference), Root, Meaning(Reference), IsWhole(Reference),
                    Reference, Currency>>
    BY <2>1, SameMeaning
  <2> QED
    BY <2>1, <2>2 DEF MeaningInv
<1> QED
  BY <1>1, <1>2, EndOfPathMeaning, ProjectMeaning, BareMeaning, OtherTransformMeaning,
     AmountMajorMeaning, FormatAmountMeaning, FormattedMeaning DEF Next

-----------------------------------------------------------------------------
(***************************************************************************)
(* Substitution.  The template is cut at its tokens into pieces: a token   *)
(* of its own is a piece, and so is the meaning of an interpolation.  The  *)
(* text so far is the pieces of the tokens that have been passed, put      *)
(* together, and the tokens that have not.                                 *)
(***************************************************************************)
Pieces ==
  [i \in DOMAIN job.template |->
     IF Is("raw", job.template[i]) THEN Meaning(Interpolations[job.template[i].raw])
     ELSE <<job.template[i]>>]

IsJoined(f, pieces, n) ==
  f = [i \in 0 .. n |-> IF i = 0 THEN <<>>
                        ELSE IF i = 1 THEN pieces[i] ELSE f[i - 1] \o pieces[i]]

(* The recursion that joins the pieces has a solution.                     *)
LEMMA JoinedExists ==
  ASSUME NEW pieces, NEW k \in Nat
  PROVE  \E f : IsJoined(f, pieces, k)
<1> DEFINE T == {n \in Nat : ~ \E f : IsJoined(f, pieces, n)}
<1> SUFFICES ASSUME T # {} PROVE FALSE
  OBVIOUS
<1>1. PICK n \in T : \A j \in T : n <= j
  <2> T \in SUBSET Nat
    OBVIOUS
  <2> HIDE DEF T
  <2> QED
    BY LeastOf
<1>2. CASE n = 0
  <2>1. IsJoined([i \in 0 .. 0 |-> <<>>], pieces, 0)
    BY DEF IsJoined
  <2> QED
    BY <1>1, <1>2, <2>1
<1>3. CASE n # 0
  <2>1. n - 1 \in Nat /\ n \in Nat /\ n - 1 \notin T
    BY <1>1, <1>3
  <2>2. PICK low : IsJoined(low, pieces, n - 1)
    BY <2>1
  <2> DEFINE Joined(f, i) == IF i = 0 THEN <<>>
                             ELSE IF i = 1 THEN pieces[i] ELSE f[i - 1] \o pieces[i]
             high == [i \in 0 .. n |-> IF i = n THEN Joined(low, n) ELSE low[i]]
  <2>3. \A i \in 0 .. n - 1 : low[i] = Joined(low, i)
    BY <2>2 DEF IsJoined
  <2>4. high[n] = Joined(low, n) /\ high[n - 1] = low[n - 1]
    BY <2>1
  <2>5. \A i \in 0 .. n - 1 : high[i] = low[i] /\ (i # 0 => high[i - 1] = low[i - 1])
    BY <2>1
  <2>6. high = [i \in 0 .. n |-> high[i]]
    OBVIOUS
  <2> HIDE DEF high
  <2>7. \A i \in 0 .. n - 1 : high[i] = Joined(high, i)
    BY <2>3, <2>5
  <2>8. high[n] = Joined(high, n)
    BY <1>3, <2>4
  <2>9. \A i \in 0 .. n : i \in 0 .. n - 1 \/ i = n
    BY <2>1
  <2>10. \A i \in 0 .. n : high[i] = Joined(high, i)
    BY <2>7, <2>8, <2>9
  <2>11. IsJoined(high, pieces, n)
    BY <2>6, <2>10 DEF IsJoined
  <2> QED
    BY <1>1, <2>11
<1> QED
  BY <1>2, <1>3

JoinedUpTo(pieces, n) == CHOOSE f : IsJoined(f, pieces, n)

LEMMA JoinedFacts ==
  ASSUME NEW pieces, NEW n \in Nat
  PROVE  /\ JoinedUpTo(pieces, n)[0] = <<>>
         /\ \A i \in 1 .. n : JoinedUpTo(pieces, n)[i] =
              IF i = 1 THEN pieces[i] ELSE JoinedUpTo(pieces, n)[i - 1] \o pieces[i]
<1> DEFINE f == JoinedUpTo(pieces, n)
<1>1. IsJoined(f, pieces, n)
  BY JoinedExists, Zenon DEF JoinedUpTo
<1> HIDE DEF f
<1>2. \A i \in 0 .. n : f[i] = IF i = 0 THEN <<>>
                               ELSE IF i = 1 THEN pieces[i] ELSE f[i - 1] \o pieces[i]
  BY <1>1 DEF IsJoined
<1>3. 0 \in 0 .. n /\ \A i \in 1 .. n : i \in 0 .. n /\ i # 0
  OBVIOUS
<1> QED
  BY <1>2, <1>3 DEF f

(* All pieces put together are FlattenSeq of the pieces.                   *)
LEMMA FlattenIsJoined ==
  ASSUME NEW n \in Nat, NEW pieces, DOMAIN pieces = 1 .. n, Len(pieces) = n,
         n = 0 => pieces = <<>>
  PROVE  FlattenSeq(pieces) = JoinedUpTo(pieces, n)[n]
<1> DEFINE f == JoinedUpTo(pieces, n)
           IsFlat(g) == g = [i \in 1 .. n |-> IF i = 1 THEN pieces[i] ELSE g[i - 1] \o pieces[i]]
           flat == CHOOSE g : IsFlat(g)
<1>1. f[0] = <<>> /\ \A i \in 1 .. n : f[i] = IF i = 1 THEN pieces[i] ELSE f[i - 1] \o pieces[i]
  BY JoinedFacts
<1>2. FlattenSeq(pieces) = IF n = 0 THEN pieces ELSE flat[n]
  BY DEF FlattenSeq
<1> HIDE DEF f
<1>3. IsFlat(flat)
  <2> DEFINE g == [i \in 1 .. n |-> f[i]]
  <2>1. \A i \in 1 .. n : g[i] = f[i] /\ (i # 1 => i - 1 \in 1 .. n /\ g[i - 1] = f[i - 1])
    OBVIOUS
  <2>2. \A i \in 1 .. n : g[i] = IF i = 1 THEN pieces[i] ELSE g[i - 1] \o pieces[i]
    BY <1>1, <2>1
  <2>3. g = [i \in 1 .. n |-> g[i]]
    OBVIOUS
  <2> HIDE DEF g
  <2>4. IsFlat(g)
    BY <2>2, <2>3
  <2> HIDE DEF IsFlat
  <2> QED
    BY <2>4, Zenon
<1> HIDE DEF flat
<1>4. \A i \in 1 .. n : flat[i] = IF i = 1 THEN pieces[i] ELSE flat[i - 1] \o pieces[i]
  BY <1>3
<1>5. \A i \in 1 .. n : flat[i] = f[i]
  <2> DEFINE T == {i \in 1 .. n : flat[i] # f[i]}
  <2> SUFFICES ASSUME T # {} PROVE FALSE
    OBVIOUS
  <2>1. PICK i \in T : \A k \in T : i <= k
    <3> T \in SUBSET Nat
      OBVIOUS
    <3> HIDE DEF T
    <3> QED
      BY LeastOf
  <2>2. i \in 1 .. n /\ flat[i] # f[i]
    BY <2>1
  <2>3. i # 1
    BY <1>1, <1>4, <2>2
  <2>4. i - 1 \in 1 .. n /\ ~ (i <= i - 1)
    BY <2>2, <2>3
  <2>5. flat[i - 1] = f[i - 1]
    BY <2>1, <2>4
  <2> QED
    BY <1>1, <1>4, <2>2, <2>3, <2>5
<1>6. CASE n = 0
  BY <1>1, <1>2, <1>6 DEF f
<1>7. CASE n # 0
  <2>1. n \in 1 .. n
    BY <1>7
  <2> QED
    BY <1>2, <1>5, <1>7, <2>1 DEF f
<1> QED
  BY <1>6, <1>7

-----------------------------------------------------------------------------
(* Lists put together.                                                     *)
LEMMA JoinFacts ==
  ASSUME NEW s, IsList(s), NEW t, IsList(t)
  PROVE  /\ IsList(s \o t) /\ Len(s \o t) = Len(s) + Len(t)
         /\ \A i \in 1 .. Len(s) : (s \o t)[i] = s[i]
         /\ \A i \in 1 .. Len(t) : (s \o t)[Len(s) + i] = t[i]
<1> DEFINE S == ToSet(s) \cup ToSet(t)
<1>1. s \in Seq(S) /\ t \in Seq(S)
  <2>1. s \in Seq(ToSet(s)) /\ t \in Seq(ToSet(t))
    BY DEF IsList
  <2> QED
    BY <2>1, SeqMonotonic
<1> HIDE DEF S
<1>2. Len(s) \in Nat /\ Len(t) \in Nat
  BY ListFacts
<1>3. /\ s \o t \in Seq(S) /\ Len(s \o t) = Len(s) + Len(t)
      /\ \A i \in 1 .. Len(s) + Len(t) :
           (s \o t)[i] = IF i <= Len(s) THEN s[i] ELSE t[i - Len(s)]
  BY <1>1, ConcatProperties
<1>4. IsList(s \o t)
  BY <1>3, SequencesAreLists
<1>5. ASSUME NEW i \in 1 .. Len(s)
      PROVE  (s \o t)[i] = s[i]
  <2>1. i \in 1 .. Len(s) + Len(t) /\ i <= Len(s)
    BY <1>2
  <2> QED
    BY <1>3, <2>1
<1>6. ASSUME NEW i \in 1 .. Len(t)
      PROVE  (s \o t)[Len(s) + i] = t[i]
  <2> DEFINE k == Len(s) + i
  <2>1. k \in 1 .. Len(s) + Len(t) /\ ~ (k <= Len(s)) /\ k - Len(s) = i
    BY <1>2
  <2> HIDE DEF k
  <2>2. (s \o t)[k] = t[k - Len(s)]
    BY <1>3, <2>1
  <2>3. (s \o t)[k] = t[i]
    BY <2>1, <2>2
  <2> QED
    BY <2>3 DEF k
<1> QED
  BY <1>3, <1>4, <1>5, <1>6

LEMMA JoinAssociates ==
  ASSUME NEW s, IsList(s), NEW t, IsList(t), NEW u, IsList(u)
  PROVE  (s \o t) \o u = s \o (t \o u)
<1> DEFINE S == ToSet(s) \cup ToSet(t) \cup ToSet(u)
<1>1. s \in Seq(S) /\ t \in Seq(S) /\ u \in Seq(S)
  <2>1. s \in Seq(ToSet(s)) /\ t \in Seq(ToSet(t)) /\ u \in Seq(ToSet(u))
    BY DEF IsList
  <2> QED
    BY <2>1, SeqMonotonic
<1> HIDE DEF S
<1> QED
  BY <1>1, ConcatAssociative

LEMMA JoinEmpty == ASSUME NEW s, IsList(s) PROVE <<>> \o s = s /\ s \o <<>> = s
  BY ConcatEmptySeq DEF IsList

LEMMA OneIsList ==
  ASSUME NEW e
  PROVE  IsList(<<e>>) /\ Len(<<e>>) = 1 /\ <<e>>[1] = e
<1>1. <<e>> \in Seq({e})
  OBVIOUS
<1> QED
  BY <1>1, SequencesAreLists

(* A part of a list.                                                       *)
LEMMA PartFacts ==
  ASSUME NEW s, IsList(s), NEW m \in Nat, NEW k \in Nat, k <= Len(s), m <= k
  PROVE  /\ IsList(SubSeq(s, m + 1, k)) /\ Len(SubSeq(s, m + 1, k)) = k - m
         /\ \A i \in 1 .. k - m : SubSeq(s, m + 1, k)[i] = s[m + i]
<1> DEFINE S == ToSet(s)
           n == Len(s)
<1>1. s \in Seq(S) /\ n \in Nat /\ k <= n
  BY DEF IsList
<1>2. \A i \in 1 .. n : s[i] \in S
  BY <1>1, ElementOfSeq
<1> HIDE DEF S, n
<1>3. m + 1 \in Int /\ k \in Int /\ \A i \in m + 1 .. k : i \in 1 .. n
  BY <1>1
<1>4. \A i \in m + 1 .. k : s[i] \in S
  BY <1>2, <1>3
<1>5. /\ SubSeq(s, m + 1, k) \in Seq(S)
      /\ Len(SubSeq(s, m + 1, k)) = IF m + 1 <= k THEN k - (m + 1) + 1 ELSE 0
      /\ \A i \in 1 .. k - (m + 1) + 1 : SubSeq(s, m + 1, k)[i] = s[m + 1 + i - 1]
  BY <1>3, <1>4, SubSeqProperties
<1>6. /\ (IF m + 1 <= k THEN k - (m + 1) + 1 ELSE 0) = k - m /\ k - (m + 1) + 1 = k - m
      /\ \A i \in 1 .. k - m : m + 1 + i - 1 = m + i
  OBVIOUS
<1>7. IsList(SubSeq(s, m + 1, k))
  BY <1>5, SequencesAreLists
<1>8. Len(SubSeq(s, m + 1, k)) = k - m
  BY <1>5, <1>6, Zenon
<1>9. ASSUME NEW i \in 1 .. k - m
      PROVE  SubSeq(s, m + 1, k)[i] = s[m + i]
  <2>1. i \in 1 .. k - (m + 1) + 1 /\ m + 1 + i - 1 = m + i
    BY <1>6
  <2>2. SubSeq(s, m + 1, k)[i] = s[m + 1 + i - 1]
    BY <1>5, <2>1
  <2> QED
    BY <2>1, <2>2, Zenon
<1> QED
  BY <1>7, <1>8, <1>9

LEMMA SameLists ==
  ASSUME NEW s, IsList(s), NEW t, IsList(t), Len(s) = Len(t), \A i \in 1 .. Len(s) : s[i] = t[i]
  PROVE  s = t
<1> DEFINE S == ToSet(s) \cup ToSet(t)
<1>1. s \in Seq(S) /\ t \in Seq(S)
  <2>1. s \in Seq(ToSet(s)) /\ t \in Seq(ToSet(t))
    BY DEF IsList
  <2> QED
    BY <2>1, SeqMonotonic
<1> HIDE DEF S
<1> QED
  BY <1>1, SeqEqual

(* Two lists put together come apart again.                                *)
LEMMA JoinedParts ==
  ASSUME NEW s, IsList(s), NEW t, IsList(t)
  PROVE  /\ SubSeq(s \o t, 1, Len(s)) = s
         /\ SubSeq(s \o t, Len(s) + 1, Len(s \o t)) = t
<1> DEFINE a == s \o t
<1>1. /\ IsList(a) /\ Len(a) = Len(s) + Len(t)
      /\ \A i \in 1 .. Len(s) : a[i] = s[i]
      /\ \A i \in 1 .. Len(t) : a[Len(s) + i] = t[i]
      /\ Len(s) \in Nat /\ Len(t) \in Nat
  BY JoinFacts, ListFacts
<1> HIDE DEF a
<1>2. SubSeq(a, 1, Len(s)) = s
  <2>1. 0 \in Nat /\ Len(s) <= Len(a) /\ 0 <= Len(s) /\ Len(s) - 0 = Len(s) /\ 0 + 1 = 1
        /\ \A i \in 1 .. Len(s) : 0 + i = i
    BY <1>1
  <2>2. /\ IsList(SubSeq(a, 0 + 1, Len(s))) /\ Len(SubSeq(a, 0 + 1, Len(s))) = Len(s) - 0
        /\ \A i \in 1 .. Len(s) - 0 : SubSeq(a, 0 + 1, Len(s))[i] = a[0 + i]
    BY <1>1, <2>1, PartFacts
  <2> DEFINE b == SubSeq(a, 1, Len(s))
  <2>3. IsList(b) /\ Len(b) = Len(s) /\ \A i \in 1 .. Len(s) : b[i] = a[i]
    BY <2>1, <2>2
  <2> HIDE DEF b
  <2>4. b = s
    BY <1>1, <2>3, SameLists
  <2> QED
    BY <2>4 DEF b
<1>3. SubSeq(a, Len(s) + 1, Len(a)) = t
  <2>1. Len(a) <= Len(a) /\ Len(s) <= Len(a) /\ Len(a) - Len(s) = Len(t) /\ Len(a) \in Nat
    BY <1>1
  <2> DEFINE b == SubSeq(a, Len(s) + 1, Len(a))
  <2>2. IsList(b) /\ Len(b) = Len(t) /\ \A i \in 1 .. Len(t) : b[i] = a[Len(s) + i]
    BY <1>1, <2>1, PartFacts
  <2> HIDE DEF b
  <2>3. b = t
    BY <1>1, <2>2, SameLists
  <2> QED
    BY <2>3 DEF b
<1> QED
  BY <1>2, <1>3 DEF a

Occurrences(text, e) == {i \in 1 .. Len(text) : text[i] = e}

(* The leftmost occurrence is the one behind a text without it.            *)
LEMMA FirstBehind ==
  ASSUME NEW done, IsList(done), NEW raw, ~ Contains(done, raw), NEW ahead, IsList(ahead),
         Len(ahead) > 0, ahead[1] = raw
  PROVE  /\ Occurrences(done \o ahead, raw) # {}
         /\ Min(Occurrences(done \o ahead, raw)) = Len(done) + 1
<1> DEFINE text == done \o ahead
           n == Len(done)
           I == Occurrences(text, raw)
<1>1. /\ Len(text) = n + Len(ahead) /\ n \in Nat /\ Len(ahead) \in Nat
      /\ \A i \in 1 .. n : text[i] = done[i]
      /\ \A i \in 1 .. Len(ahead) : text[n + i] = ahead[i]
  BY JoinFacts, ListFacts
<1> HIDE DEF text
<1> USE DEF Occurrences
<1>2. n + 1 \in I
  <2>1. n + 1 \in 1 .. Len(text) /\ 1 \in 1 .. Len(ahead)
    BY <1>1
  <2> QED
    BY <1>1, <2>1
<1>3. \A i \in I : n + 1 <= i
  <2> SUFFICES ASSUME NEW i \in I, ~ (n + 1 <= i) PROVE FALSE
    OBVIOUS
  <2>1. i \in 1 .. n
    BY <1>1
  <2>2. done[i] = raw
    BY <1>1, <2>1
  <2> QED
    BY <2>1, <2>2 DEF Contains
<1>4. I \in SUBSET Nat
  BY <1>1
<1> HIDE DEF I, Occurrences
<1>5. Min(I) \in I /\ Min(I) <= n + 1
  BY <1>2, <1>4, LeastIn
<1>6. n + 1 <= Min(I) /\ Min(I) \in Nat
  BY <1>3, <1>4, <1>5
<1>7. Min(I) = n + 1
  BY <1>1, <1>5, <1>6
<1> QED
  BY <1>2, <1>7 DEF I, text

LEMMA ReplacesBehind ==
  ASSUME NEW done, IsList(done), NEW raw, ~ Contains(done, raw),
         NEW one, IsList(one), Len(one) = 1, one[1] = raw,
         NEW left, IsList(left), NEW new, IsList(new)
  PROVE  ReplaceFirst(done \o (one \o left), raw, new) = done \o (new \o left)
<1> DEFINE ahead == one \o left
           text == done \o ahead
           n == Len(done)
           I == Occurrences(text, raw)
<1>1. IsList(one) /\ Len(one) = 1 /\ one[1] = raw
  OBVIOUS
<1>2. /\ IsList(ahead) /\ Len(ahead) = Len(one) + Len(left)
      /\ \A i \in 1 .. Len(one) : ahead[i] = one[i]
  BY <1>1, JoinFacts
<1>3. IsList(ahead) /\ Len(ahead) > 0 /\ ahead[1] = raw
  <2>1. Len(left) \in Nat
    BY ListFacts
  <2> HIDE DEF ahead
  <2> QED
    BY <1>1, <1>2, <2>1
<1>4. I # {} /\ Min(I) = n + 1
  <2> HIDE DEF ahead
  <2> QED
    BY <1>3, FirstBehind
<1>5. ReplaceFirst(text, raw, new)
        = SubSeq(text, 1, Min(I) - 1) \o new \o SubSeq(text, Min(I) + 1, Len(text))
  <2> HIDE DEF text
  <2>1. Contains(text, raw)
    BY <1>4 DEF Contains, Occurrences
  <2> QED
    BY <1>4, <2>1 DEF ReplaceFirst, SelectInSeq, Occurrences
<1>6. SubSeq(text, 1, n) = done
  <2> HIDE DEF ahead
  <2> QED
    BY <1>3, JoinedParts
<1>7. SubSeq(text, n + 1 + 1, Len(text)) = left
  <2> DEFINE both == done \o one
  <2>1. IsList(both) /\ Len(both) = n + Len(one)
    BY <1>1, JoinFacts
  <2>2. text = both \o left
    BY <1>1, JoinAssociates
  <2> HIDE DEF both, text
  <2>3. SubSeq(both \o left, Len(both) + 1, Len(both \o left)) = left
    BY <2>1, JoinedParts
  <2> QED
    BY <1>1, <2>1, <2>2, <2>3, Zenon
<1>8. (done \o new) \o left = done \o (new \o left)
  BY JoinAssociates
<1>9. n \in Nat
  BY ListFacts
<1> HIDE DEF I, text, n
<1>10. SubSeq(text, 1, Min(I) - 1) = done
  <2> DEFINE first == Min(I)
  <2>1. first = n + 1
    BY <1>4, Zenon
  <2> HIDE DEF first
  <2>2. first - 1 = n
    BY <1>9, <2>1
  <2>3. Min(I) - 1 = n
    BY <2>2 DEF first
  <2> QED
    BY <1>6, <2>3, Zenon
<1>11. SubSeq(text, Min(I) + 1, Len(text)) = left
  BY <1>4, <1>7, Zenon
<1>12. ReplaceFirst(text, raw, new) = done \o (new \o left)
  BY <1>5, <1>8, <1>10, <1>11, Zenon
<1> QED
  BY <1>12 DEF text

(* What is left of a template begins with its next token.                  *)
LEMMA NextToken ==
  ASSUME NEW s, IsList(s), NEW k \in Nat, k < Len(s)
  PROVE  /\ SubSeq(s, k + 1, Len(s)) = <<s[k + 1]>> \o SubSeq(s, k + 1 + 1, Len(s))
         /\ IsList(SubSeq(s, k + 1, Len(s))) /\ IsList(SubSeq(s, k + 1 + 1, Len(s)))
<1> DEFINE m == Len(s)
<1>1. s \in Seq(ToSet(s)) /\ m \in Nat /\ k < m
  BY DEF IsList
<1> HIDE DEF m
<1>2. k + 1 \in 1 .. m /\ m \in k + 1 .. m /\ m <= m /\ k <= m /\ k + 1 <= m /\ k + 1 \in Nat
  BY <1>1
<1>3. SubSeq(s, k + 1, m) = <<s[k + 1]>> \o SubSeq(s, k + 1 + 1, m)
  BY <1>1, <1>2, SubSeqRecursiveFirst DEF m
<1>4. IsList(SubSeq(s, k + 1, m)) /\ IsList(SubSeq(s, k + 1 + 1, m))
  BY <1>1, <1>2, PartFacts DEF m
<1> QED
  BY <1>3, <1>4 DEF m

-----------------------------------------------------------------------------
(***************************************************************************)
(* The invariant of the replacements, where nothing is captured: all       *)
(* tokens up to one have been passed, the interpolations after it are      *)
(* still to be replaced, and none of their texts is in what they stand     *)
(* behind.                                                                 *)
(***************************************************************************)
Passed(k) == JoinedUpTo(Pieces, Len(job.template))[k]

Stands(k, text) ==
  /\ IsList(Passed(k))
  /\ text = Passed(k) \o SubSeq(job.template, k + 1, Len(job.template))
  /\ \A q \in Raws(job.template) : q > k => ~ Contains(Passed(k), job.template[q])

After(k) == {i \in Raws(job.template) : i > k}

SubstitutionInv ==
  IsTemplate /\ pc \notin {"start", "error"} /\ AmountsAreWhole /\ NothingCaptured =>
    \E k \in 0 .. Len(job.template) : todo = After(k) /\ Stands(k, out)

LEMMA SamePieces ==
  ASSUME job' = job
  PROVE  /\ Pieces' = Pieces /\ IsTemplate' = IsTemplate
         /\ NothingCaptured' = NothingCaptured /\ AmountsAreWhole' = AmountsAreWhole
         /\ \A k : Passed(k)' = Passed(k) /\ After(k)' = After(k)
<1>1. Pieces' = Pieces
  BY DEF Pieces, Meaning, Denoted, Base
<1>2. NothingCaptured' = NothingCaptured /\ AmountsAreWhole' = AmountsAreWhole
  BY DEF NothingCaptured, AmountsAreWhole, IsWhole, Meaning, Denoted, Base
<1>3. IsTemplate' = IsTemplate
  BY DEF IsTemplate
<1>4. \A k : Passed(k)' = Passed(k)
  BY <1>1 DEF Passed
<1> QED
  BY <1>1, <1>2, <1>3, <1>4 DEF After

LEMMA PassedFacts ==
  ASSUME job \in Jobs, IsTemplate
  PROVE  /\ Passed(0) = <<>>
         /\ \A k \in Nat : k < Len(job.template) /\ IsList(Passed(k)) /\ IsList(Pieces[k + 1])
              => Passed(k + 1) = Passed(k) \o Pieces[k + 1]
<1> DEFINE n == Len(job.template)
<1>1. n \in Nat
  BY PlaceFacts DEF IsTemplate
<1>2. /\ Passed(0) = <<>>
      /\ \A i \in 1 .. n : Passed(i) = IF i = 1 THEN Pieces[i] ELSE Passed(i - 1) \o Pieces[i]
  BY <1>1, JoinedFacts DEF Passed
<1> HIDE DEF n
<1>3. ASSUME NEW k \in Nat, k < n, IsList(Pieces[k + 1])
      PROVE  Passed(k + 1) = Passed(k) \o Pieces[k + 1]
  <2> DEFINE i == k + 1
  <2>1. i \in 1 .. n /\ i - 1 = k /\ (i = 1 <=> k = 0)
    BY <1>1, <1>3
  <2>2. IsList(Pieces[i])
    BY <1>3
  <2> HIDE DEF i
  <2>3. Passed(i) = IF i = 1 THEN Pieces[i] ELSE Passed(i - 1) \o Pieces[i]
    BY <1>2, <2>1
  <2>4. CASE k = 0
    <3>1. Passed(i) = Pieces[i]
      BY <2>1, <2>3, <2>4
    <3>2. <<>> \o Pieces[i] = Pieces[i]
      BY <2>2, JoinEmpty
    <3>3. Passed(i) = Passed(k) \o Pieces[i]
      BY <1>2, <2>4, <3>1, <3>2, Zenon
    <3> QED
      BY <3>3 DEF i
  <2>5. CASE k # 0
    <3>1. Passed(i) = Passed(i - 1) \o Pieces[i]
      BY <2>1, <2>3, <2>5
    <3>2. Passed(i) = Passed(k) \o Pieces[i]
      BY <2>1, <3>1, Zenon
    <3> QED
      BY <3>2 DEF i
  <2> QED
    BY <2>4, <2>5
<1> QED
  BY <1>2, <1>3 DEF n

LEMMA ContainsJoined ==
  ASSUME NEW s, IsList(s), NEW t, IsList(t), NEW e, ~ Contains(s, e), ~ Contains(t, e)
  PROVE  ~ Contains(s \o t, e)
<1> DEFINE a == s \o t
<1>1. /\ Len(a) = Len(s) + Len(t) /\ Len(s) \in Nat /\ Len(t) \in Nat
      /\ \A i \in 1 .. Len(s) : a[i] = s[i]
      /\ \A i \in 1 .. Len(t) : a[Len(s) + i] = t[i]
  <2>1. /\ IsList(s \o t) /\ Len(s \o t) = Len(s) + Len(t)
        /\ \A i \in 1 .. Len(s) : (s \o t)[i] = s[i]
        /\ \A i \in 1 .. Len(t) : (s \o t)[Len(s) + i] = t[i]
    BY JoinFacts
  <2>2. Len(s) \in Nat /\ Len(t) \in Nat
    BY ListFacts
  <2> QED
    BY <2>1, <2>2, Zenon
<1> HIDE DEF a
<1>2. ASSUME NEW i \in 1 .. Len(a)
      PROVE  a[i] # e
  <2>1. CASE i \in 1 .. Len(s)
    BY <1>1, <2>1 DEF Contains
  <2>2. CASE i \notin 1 .. Len(s)
    <3>1. i - Len(s) \in 1 .. Len(t) /\ Len(s) + (i - Len(s)) = i
      BY <1>1, <2>2
    <3>2. a[Len(s) + (i - Len(s))] = t[i - Len(s)]
      BY <1>1, <3>1
    <3>3. a[i] = t[i - Len(s)]
      BY <3>1, <3>2, Zenon
    <3> QED
      BY <3>1, <3>3 DEF Contains
  <2> QED
    BY <2>1, <2>2
<1> QED
  BY <1>2 DEF Contains, a

(* The piece of a token is put behind what has been passed.                *)
LEMMA PassesPiece ==
  ASSUME job \in Jobs, IsTemplate, NEW k \in Nat, k < Len(job.template),
         IsList(Passed(k)), IsList(Pieces[k + 1]),
         \A q \in Raws(job.template) : q > k + 1 =>
           ~ Contains(Passed(k), job.template[q]) /\ ~ Contains(Pieces[k + 1], job.template[q])
  PROVE  Stands(k + 1,
                Passed(k) \o (Pieces[k + 1] \o SubSeq(job.template, k + 1 + 1, Len(job.template))))
<1> DEFINE piece == Pieces[k + 1]
           left == SubSeq(job.template, k + 1 + 1, Len(job.template))
<1>1. Passed(k + 1) = Passed(k) \o piece
  BY PassedFacts
<1>2. IsList(left)
  BY PlaceFacts, NextToken DEF IsTemplate
<1>3. IsList(piece)
  OBVIOUS
<1> HIDE DEF piece, left
<1>4. IsList(Passed(k) \o piece)
  BY <1>3, JoinFacts
<1>5. Passed(k) \o (piece \o left) = (Passed(k) \o piece) \o left
  BY <1>2, <1>3, JoinAssociates
<1>6. ASSUME NEW q \in Raws(job.template), q > k + 1
      PROVE  ~ Contains(Passed(k) \o piece, job.template[q])
  <2>1. ~ Contains(Passed(k), job.template[q]) /\ ~ Contains(piece, job.template[q])
    BY <1>6 DEF piece
  <2> QED
    BY <1>3, <2>1, ContainsJoined
<1>7. Passed(k) \o (piece \o left) = Passed(k + 1) \o left
  BY <1>1, <1>5, Zenon
<1>8. IsList(Passed(k + 1))
  BY <1>1, <1>4, Zenon
<1>9. \A q \in Raws(job.template) : q > k + 1 => ~ Contains(Passed(k + 1), job.template[q])
  BY <1>1, <1>6, Zenon
<1> QED
  BY <1>7, <1>8, <1>9 DEF Stands, piece, left

(* A token that is no interpolation is passed as it stands.                *)
LEMMA PassesToken ==
  ASSUME job \in Jobs, IsTemplate, NEW k \in Nat, k < Len(job.template), NEW text,
         Stands(k, text), k + 1 \notin Raws(job.template)
  PROVE  Stands(k + 1, text)
<1> DEFINE token == job.template[k + 1]
           one == <<token>>
           left == SubSeq(job.template, k + 1 + 1, Len(job.template))
<1>1. /\ IsList(job.template) /\ Len(job.template) \in Nat
      /\ DOMAIN job.template = 1 .. Len(job.template)
  BY PlaceFacts, ListFacts DEF IsTemplate
<1>2. k + 1 \in DOMAIN job.template
  BY <1>1
<1>3. ~ Is("raw", token)
  BY <1>2 DEF Raws
<1>4. Pieces[k + 1] = one
  BY <1>2, <1>3 DEF Pieces
<1>5. IsList(one) /\ Len(one) = 1 /\ one[1] = token
  BY OneIsList
<1>6. SubSeq(job.template, k + 1, Len(job.template)) = one \o left
  BY <1>1, NextToken
<1> HIDE DEF one, left
<1>7. ASSUME NEW q \in Raws(job.template), q > k + 1
      PROVE  ~ Contains(Passed(k), job.template[q]) /\ ~ Contains(one, job.template[q])
  <2>1. q > k
    <3>1. q \in Nat
      BY PlaceFacts DEF IsTemplate
    <3> QED
      BY <1>7, <3>1
  <2>2. job.template[q] # token
    BY <1>3 DEF Raws
  <2>3. \A i \in 1 .. Len(one) : one[i] = token
    BY <1>5
  <2> QED
    BY <2>1, <2>2, <2>3 DEF Stands, Contains
<1>8. Stands(k + 1, Passed(k) \o (one \o left))
  <2>1. /\ IsList(Passed(k)) /\ IsList(Pieces[k + 1])
        /\ \A q \in Raws(job.template) : q > k + 1 =>
             ~ Contains(Passed(k), job.template[q]) /\ ~ Contains(Pieces[k + 1], job.template[q])
    BY <1>4, <1>5, <1>7 DEF Stands
  <2>2. Stands(k + 1, Passed(k) \o (Pieces[k + 1]
                        \o SubSeq(job.template, k + 1 + 1, Len(job.template))))
    BY <2>1, PassesPiece
  <2> QED
    BY <1>4, <2>2, Zenon DEF left
<1>9. text = Passed(k) \o (one \o left)
  BY <1>6 DEF Stands
<1> QED
  BY <1>8, <1>9, Zenon

(* So are all of them up to the next interpolation, or the end.            *)
LEMMA PassesGap ==
  ASSUME job \in Jobs, IsTemplate, NEW k \in Nat, NEW m \in Nat, k <= m,
         m <= Len(job.template), NEW text, Stands(k, text),
         \A i \in k + 1 .. m : i \notin Raws(job.template)
  PROVE  Stands(m, text)
<1> DEFINE T == {i \in k .. m : ~ Stands(i, text)}
<1> SUFFICES ASSUME T # {} PROVE FALSE
  OBVIOUS
<1>1. PICK i \in T : \A j \in T : i <= j
  <2> T \in SUBSET Nat
    OBVIOUS
  <2> HIDE DEF T
  <2> QED
    BY LeastOf
<1>2. i \in k .. m /\ ~ Stands(i, text) /\ i # k
  BY <1>1
<1>3. /\ i - 1 \in k .. m /\ ~ (i <= i - 1) /\ i - 1 \in Nat /\ i - 1 < Len(job.template)
      /\ i \in k + 1 .. m /\ i - 1 + 1 = i
  <2> DEFINE n == Len(job.template)
  <2>1. n \in Nat /\ m <= n
    BY PlaceFacts DEF IsTemplate
  <2> HIDE DEF n
  <2>2. /\ i - 1 \in k .. m /\ ~ (i <= i - 1) /\ i - 1 \in Nat /\ i - 1 < n
        /\ i \in k + 1 .. m /\ i - 1 + 1 = i
    BY <1>2, <2>1
  <2> QED
    BY <2>2 DEF n
<1>4. Stands(i - 1, text)
  BY <1>1, <1>3
<1> DEFINE h == i - 1
<1>5. h \in Nat /\ h < Len(job.template) /\ Stands(h, text) /\ h + 1 = i
  BY <1>3, <1>4
<1>6. i \notin Raws(job.template)
  BY <1>3
<1> HIDE DEF h
<1>7. Stands(h + 1, text)
  BY <1>5, <1>6, PassesToken
<1> QED
  BY <1>2, <1>5, <1>7

LEMMA InitSubstitution == Init => SubstitutionInv
  BY DEF Init, SubstitutionInv

(* Before any replacement nothing has been passed.                         *)
LEMMA BeginSubstitution ==
  ASSUME LookupInv, Begin
  PROVE  SubstitutionInv'
<1>1. job' = job /\ job \in Jobs
  BY DEF Begin, LookupInv
<1>2. CASE ~ IsTemplate
  BY <1>1, <1>2, SamePieces DEF SubstitutionInv
<1>3. CASE IsTemplate
  <2>1. out' = job.template /\ todo' = Raws(job.template)
    BY <1>3 DEF Begin
  <2>2. /\ IsList(job.template) /\ Len(job.template) \in Nat
        /\ Raws(job.template) \subseteq 1 .. Len(job.template)
    BY <1>1, <1>3, PlaceFacts DEF IsTemplate
  <2>3. Passed(0) = <<>>
    BY <1>1, <1>3, PassedFacts
  <2>4. SubSeq(job.template, 0 + 1, Len(job.template)) = job.template
    <3>1. SubSeq(job.template, 1, Len(job.template)) = job.template /\ 0 + 1 = 1
      BY <2>2, SubSeqFull DEF IsList
    <3> QED
      BY <3>1, Zenon
  <2>5. IsList(<<>>) /\ \A e : ~ Contains(<<>>, e)
    <3>1. IsList(<<>>) /\ Len(<<>>) = 0
      BY SequencesAreLists, EmptySeq
    <3> QED
      BY <3>1 DEF Contains
  <2>6. <<>> \o job.template = job.template
    BY <2>2, JoinEmpty
  <2>7. Stands(0, job.template)
    BY <2>3, <2>4, <2>5, <2>6, Zenon DEF Stands
  <2>8. After(0) = Raws(job.template) /\ 0 \in 0 .. Len(job.template)
    BY <2>2 DEF After
  <2>9. \E k \in 0 .. Len(job.template) : todo' = After(k) /\ Stands(k, out')
    BY <2>1, <2>7, <2>8
  <2>10. (\E k \in 0 .. Len(job.template) : todo = After(k) /\ Stands(k, out))'
    BY <1>1, <2>9, SamePieces DEF Stands
  <2> QED
    BY <2>10 DEF SubstitutionInv
<1> QED
  BY <1>2, <1>3

(* A replacement puts the meaning of the first interpolation that is left  *)
(* where its text stands: it is nowhere before.                            *)
LEMMA ReplaceSubstitution ==
  ASSUME LookupInv, MeaningInv, SubstitutionInv, Replace
  PROVE  SubstitutionInv'
<1> DEFINE n == Len(job.template)
           p == Min(todo)
           token == job.template[p]
<1>1. /\ pc = "replace" /\ job' = job /\ todo' = todo \ {p}
      /\ out' = ReplaceFirst(out, token, value.text)
  BY DEF Replace, Interp
<1>2. job \in Jobs /\ IsTemplate /\ todo # {} /\ todo \subseteq Raws(job.template)
  BY <1>1 DEF LookupInv, Using, Substituting
<1> SUFFICES ASSUME AmountsAreWhole, NothingCaptured PROVE SubstitutionInv'
  BY <1>1, SamePieces DEF SubstitutionInv
<1>3. PICK k \in 0 .. n : todo = After(k) /\ Stands(k, out)
  BY <1>1, <1>2 DEF SubstitutionInv
<1>4. /\ p \in todo /\ p > k /\ p \in 1 .. n /\ k \in Nat /\ n \in Nat
      /\ \A i \in todo : i \in Nat /\ p <= i
  <2>1. p \in todo /\ \A i \in todo : p <= i
    BY <1>2, ReferenceFacts
  <2>2. n \in Nat /\ Raws(job.template) \subseteq 1 .. n /\ Raws(job.template) \subseteq Nat
    BY <1>2, PlaceFacts DEF IsTemplate
  <2> HIDE DEF p, n
  <2> QED
    BY <1>2, <1>3, <2>1, <2>2 DEF After
<1> DEFINE h == p - 1
<1>5. /\ h \in Nat /\ k <= h /\ h < n /\ h <= n /\ h + 1 = p
      /\ \A i \in k + 1 .. h : i > k /\ ~ (p <= i)
  <2> HIDE DEF p, n
  <2> QED
    BY <1>4
<1>6. \A i \in k + 1 .. h : i \notin Raws(job.template)
  BY <1>3, <1>4, <1>5 DEF After
<1> HIDE DEF h
<1>7. Stands(h, out)
  BY <1>2, <1>3, <1>4, <1>5, <1>6, PassesGap
<1> DEFINE new == value.text
<1>8. /\ p \in Raws(job.template) /\ Pieces[p] = new /\ IsList(new)
      /\ Meaning(Interpolations[token.raw]) = new
  <2>2. Reference = Interpolations[token.raw]
    BY DEF Reference, Interp
  <2>1. value = [text |-> Meaning(Reference)] /\ IsList(Meaning(Reference))
    BY <1>1, <1>2, <1>4, <2>2 DEF MeaningInv, AmountsAreWhole
  <2>3. new = Meaning(Reference)
    BY <2>1
  <2>4. p \in Raws(job.template)
    BY <1>2, <1>4
  <2>5. Pieces[p] = Meaning(Interpolations[token.raw])
    BY <2>4 DEF Pieces, Raws
  <2> QED
    BY <2>1, <2>2, <2>3, <2>4, <2>5
<1>9. \A q \in Raws(job.template) : q > p =>
        ~ Contains(Passed(h), job.template[q]) /\ ~ Contains(new, job.template[q])
  <2> SUFFICES ASSUME NEW q \in Raws(job.template), q > p
               PROVE  ~ Contains(Passed(h), job.template[q]) /\ ~ Contains(new, job.template[q])
    OBVIOUS
  <2>1. q > h /\ p < q
    <3>1. q \in Nat /\ p \in Nat /\ h \in Nat /\ h + 1 = p
      BY <1>2, <1>4, <1>5, PlaceFacts DEF IsTemplate
    <3> HIDE DEF p
    <3> QED
      BY <3>1
  <2>2. ~ Contains(Passed(h), job.template[q])
    BY <1>7, <2>1 DEF Stands
  <2>3. ~ Contains(Meaning(Interpolations[token.raw]), job.template[q])
    BY <1>8, <2>1 DEF NothingCaptured
  <2> QED
    BY <1>8, <2>2, <2>3
<1> DEFINE left == SubSeq(job.template, p + 1, n)
           one  == <<token>>
<1>10. out = Passed(h) \o (one \o left) /\ IsList(left)
  <2>1. IsList(job.template)
    BY <1>2, PlaceFacts DEF IsTemplate
  <2>2. /\ SubSeq(job.template, h + 1, n)
             = <<job.template[h + 1]>> \o SubSeq(job.template, h + 1 + 1, n)
        /\ IsList(SubSeq(job.template, h + 1 + 1, n))
    BY <1>5, <2>1, NextToken
  <2> HIDE DEF p, n
  <2>3. SubSeq(job.template, h + 1, n) = one \o left /\ IsList(left)
    BY <1>5, <2>2, Zenon
  <2>4. out = Passed(h) \o SubSeq(job.template, h + 1, n)
    BY <1>7 DEF Stands, n
  <2> QED
    BY <2>3, <2>4, Zenon
<1>11. IsList(one) /\ Len(one) = 1 /\ one[1] = token
  BY OneIsList
<1>12. IsList(Passed(h)) /\ ~ Contains(Passed(h), token)
  <2>1. p > h
    BY <1>4, <1>5
  <2> QED
    BY <1>7, <1>8, <2>1 DEF Stands
<1> HIDE DEF one, left, new, token
<1>13. ReplaceFirst(Passed(h) \o (one \o left), token, new) = Passed(h) \o (new \o left)
  <2> DEFINE done == Passed(h)
  <2>1. IsList(done) /\ ~ Contains(done, token)
    BY <1>12
  <2>2. IsList(new) /\ IsList(left)
    BY <1>8, <1>10
  <2> HIDE DEF done
  <2>3. ReplaceFirst(done \o (one \o left), token, new) = done \o (new \o left)
    BY <1>11, <2>1, <2>2, ReplacesBehind
  <2> QED
    BY <2>3 DEF done
<1>14. out' = Passed(h) \o (new \o left)
  BY <1>1, <1>10, <1>13, Zenon DEF new
<1> HIDE DEF p, n
<1>15. Stands(p, Passed(h) \o (new \o left))
  <2>1. IsList(Pieces[h + 1]) /\ Pieces[h + 1] = new
    BY <1>5, <1>8
  <2>2. \A q \in Raws(job.template) : q > h + 1 =>
          ~ Contains(Passed(h), job.template[q]) /\ ~ Contains(Pieces[h + 1], job.template[q])
    BY <1>5, <1>9, <2>1
  <2>3. Stands(h + 1, Passed(h) \o (Pieces[h + 1]
                        \o SubSeq(job.template, h + 1 + 1, Len(job.template))))
    BY <1>2, <1>5, <1>12, <2>1, <2>2, PassesPiece DEF n
  <2> QED
    BY <1>5, <2>1, <2>3, Zenon DEF left, n
<1>16. todo' = After(p) /\ p \in 0 .. n
  <2>1. \A i \in Raws(job.template) : i \in Nat
    BY <1>2, PlaceFacts DEF IsTemplate
  <2>2. ASSUME NEW i \in todo \ {p}
        PROVE  i \in After(p)
    <3>1. i \in Nat /\ p \in Nat /\ p <= i /\ i # p
      BY <1>4
    <3>2. i > p
      BY <3>1
    <3> QED
      BY <1>2, <3>2 DEF After
  <2>3. ASSUME NEW i \in After(p)
        PROVE  i \in todo \ {p}
    <3>1. i \in Nat /\ p \in Nat /\ i > p /\ k \in Nat /\ p > k
      BY <1>4, <2>1, <2>3 DEF After
    <3>2. i > k /\ i # p
      BY <3>1
    <3> QED
      BY <1>3, <2>3, <3>2 DEF After
  <2>4. todo' = After(p)
    BY <1>1, <2>2, <2>3
  <2>5. p \in 0 .. n
    BY <1>4
  <2> QED
    BY <2>4, <2>5
<1>17. \E i \in 0 .. n : todo' = After(i) /\ Stands(i, out')
  BY <1>14, <1>15, <1>16
<1>18. (\E i \in 0 .. Len(job.template) : todo = After(i) /\ Stands(i, out))'
  BY <1>1, <1>17, SamePieces DEF Stands, n
<1> QED
  BY <1>18 DEF SubstitutionInv

LEMMA NextSubstitution ==
  ASSUME LookupInv, MeaningInv, SubstitutionInv, [Next]_vars
  PROVE  SubstitutionInv'
<1>1. CASE \/ NextInterpolation \/ EndOfPath \/ FieldSegment \/ IndexSegment \/ Project
           \/ Malformed \/ Missing \/ Bare \/ OtherTransform \/ AmountMajor \/ FormatAmount
           \/ Formatted \/ Compare \/ Finished \/ UNCHANGED vars
  <2>1. /\ job' = job /\ todo' = todo /\ out' = out
        /\ pc' \notin {"start", "error"} => pc \notin {"start", "error"}
    BY <1>1 DEF NextInterpolation, EndOfPath, FieldSegment, IndexSegment, Project, Malformed,
                Missing, Bare, OtherTransform, AmountMajor, FormatAmount, Format, FormatWhole,
                BeginScale, Scale, Split, Pad, Formatted, Compare, Finished, At, Step, Found,
                Unresolved, Made, Raise, vars
  <2> QED
    BY <2>1, SamePieces DEF SubstitutionInv, Stands
<1> QED
  BY <1>1, BeginSubstitution, ReplaceSubstitution DEF Next

(* Where nothing is left to replace, the text is all the pieces.           *)
LEMMA SubstitutedAtEnd ==
  ASSUME job \in Jobs, SubstitutionInv, IsTemplate, pc = "done",
         AmountsAreWhole, NothingCaptured, todo = {}
  PROVE  out = Substituted
<1> DEFINE n == Len(job.template)
<1>1. /\ n \in Nat /\ IsList(job.template) /\ DOMAIN job.template = 1 .. n
      /\ Raws(job.template) \subseteq Nat
  BY PlaceFacts, ListFacts DEF IsTemplate
<1>2. PICK k \in 0 .. n : todo = After(k) /\ Stands(k, out)
  BY DEF SubstitutionInv
<1>3. \A i \in k + 1 .. n : i \notin Raws(job.template)
  <2> HIDE DEF n
  <2> QED
    BY <1>1, <1>2 DEF After
<1>4. Stands(n, out)
  <2>1. k \in Nat /\ k <= n /\ n <= n
    BY <1>1, <1>2
  <2> QED
    BY <1>1, <1>2, <1>3, <2>1, PassesGap
<1>5. out = Passed(n) \o SubSeq(job.template, n + 1, n) /\ IsList(Passed(n))
  BY <1>4 DEF Stands
<1>6. SubSeq(job.template, n + 1, n) = <<>>
  BY <1>1, SubSeqEmpty
<1>7. out = Passed(n)
  BY <1>5, <1>6, JoinEmpty, Zenon
<1>8. Substituted = FlattenSeq(Pieces)
  BY DEF Substituted, Pieces
<1> HIDE DEF n
<1>9. DOMAIN Pieces = 1 .. n /\ Len(Pieces) = n /\ (n = 0 => Pieces = <<>>)
  BY <1>1 DEF Pieces
<1>10. FlattenSeq(Pieces) = Passed(n)
  BY <1>1, <1>9, FlattenIsJoined DEF Passed, n
<1> QED
  BY <1>7, <1>8, <1>10

(* A template ends when nothing is left to replace, a condition otherwise. *)
EndInv ==
  /\ pc = "compare" => ~ IsTemplate
  /\ pc = "done" /\ IsTemplate => todo = {}

LEMMA NextEnd == EndInv /\ [Next]_vars => EndInv'
<1> SUFFICES ASSUME EndInv, [Next]_vars PROVE EndInv'
  OBVIOUS
<1>1. CASE EndOfPath \/ Project
  <2>1. job' = job /\ pc' # "done" /\ (pc' = "compare" => ~ IsTemplate)
    BY <1>1 DEF EndOfPath, Project, Found, Unresolved
  <2> QED
    BY <2>1 DEF EndInv, IsTemplate
<1>2. CASE NextInterpolation
  <2>1. todo' = todo /\ pc' # "compare" /\ (pc' = "done" => todo = {})
    BY <1>2 DEF NextInterpolation, Lookup
  <2> QED
    BY <2>1 DEF EndInv
<1>3. CASE Missing \/ Compare
  <2>1. job' = job /\ pc' # "compare" /\ (pc' = "done" => ~ IsTemplate)
    BY <1>3 DEF Missing, Compare, EndInv
  <2> QED
    BY <2>1 DEF EndInv, IsTemplate
<1>4. CASE \/ Begin \/ FieldSegment \/ IndexSegment \/ Malformed \/ Bare \/ OtherTransform
           \/ AmountMajor \/ FormatAmount \/ Formatted \/ Replace
  <2>1. pc' \notin {"compare", "done"}
    BY <1>4 DEF Begin, FieldSegment, IndexSegment, Malformed, Bare, OtherTransform, AmountMajor,
                FormatAmount, Format, FormatWhole, BeginScale, Scale, Split, Pad, Formatted,
                Replace, Lookup, At, Step, Unresolved, Made, Raise
  <2> QED
    BY <2>1 DEF EndInv
<1>5. CASE Finished \/ UNCHANGED vars
  BY <1>5 DEF Finished, vars, EndInv, IsTemplate
<1> QED
  BY <1>1, <1>2, <1>3, <1>4, <1>5 DEF Next

(* Interpolation is substitution (spec/04): for every template and every   *)
(* table of interpolations, replacing the leftmost occurrence of one after *)
(* another gives the text in which each stands for the value the language  *)
(* gives it, unless a value holds the text of a later interpolation.       *)
THEOREM InterpolationSubstitutes == Spec => []SubstitutionIsSimultaneous
<1> DEFINE Inv == FormatInv /\ LookupInv /\ MeaningInv /\ SubstitutionInv /\ EndInv
<1>1. Init => Inv
  <2>1. Init => EndInv
    BY DEF Init, EndInv
  <2> QED
    BY <2>1, InitFormat, InitLookup, InitMeaning, InitSubstitution
<1>2. Inv /\ [Next]_vars => Inv'
  BY NextFormat, NextIsLookup, NextMeaning, NextSubstitution, NextEnd
<1>3. Inv => SubstitutionIsSimultaneous
  BY SubstitutedAtEnd DEF SubstitutionIsSimultaneous, EndInv, LookupInv
<1> QED
  BY <1>1, <1>2, <1>3, PTL DEF Spec

=============================================================================
