------------------------- MODULE ExpressionLanguage -------------------------
(***************************************************************************)
(* What spec/04-expression-language.md promises of a template and of a     *)
(* path, defined without the loops of Expressions, and the properties that *)
(* compare the two.                                                        *)
(***************************************************************************)
EXTENDS Expressions

(***************************************************************************)
(* The routes of a document: every path that leads somewhere, level by     *)
(* level, with what lies there.                                            *)
(***************************************************************************)
Beyond(route) ==
  LET path == route[1]  v == route[2] IN
  (IF Is("fields", v)
   THEN {<<Append(path, [field |-> f]), v.fields[f]>> : f \in DOMAIN v.fields} ELSE {})
  \cup (IF Is("items", v)
        THEN {<<Append(path, [index |-> i - 1]), v.items[i]>> : i \in DOMAIN v.items}
        ELSE {})

Routes(doc) ==
  LET level[n \in 0 .. MaxDepth] ==
        IF n = 0 THEN {<<<<>>, doc>>} ELSE UNION {Beyond(r) : r \in level[n - 1]}
  IN  UNION {level[n] : n \in 0 .. MaxDepth}

(* The documents a call looks into.                                        *)
DocumentsOf(j) ==
  {j.doc} \cup (IF Is("template", j)
               THEN {j.state} \cup {j.namespaces[ns] : ns \in DOMAIN j.namespaces} ELSE {})

IsList(s) == s \in Seq(ToSet(s))

(* A value has one Go type; a slice and a text are sequences.              *)
IsValue(v) ==
  /\ \A k, l \in DOMAIN v : k = l
  /\ (Is("items", v) => IsList(v.items)) /\ (Is("text", v) => IsList(v.text))

IsSegment(s) ==
  \/ Is("field", s) /\ s = [field |-> s.field]
  \/ Is("index", s) /\ s = [index |-> s.index]
  \/ s \in {[all |-> TRUE], [malformed |-> TRUE]}

ASSUME DocumentsAreShallow ==
  /\ MaxDepth \in Nat
  /\ \A j \in Jobs : \A doc \in DocumentsOf(j) : \A r \in Routes(doc) :
       Len(r[1]) = MaxDepth => Beyond(r) = {}

ASSUME DocumentsHoldValues ==
  \A j \in Jobs : \A doc \in DocumentsOf(j) : \A r \in Routes(doc) : IsValue(r[2])

(* The loop of Extract takes a path apart segment by segment.              *)
ASSUME PathsAreSegments ==
  \A j \in Jobs : ~ Is("template", j) =>
    IsList(j.path) /\ \A i \in DOMAIN j.path : IsSegment(j.path[i])

(* What stands between the dots of an interpolation is a field.            *)
ASSUME InterpolationsNameFields ==
  \A raw \in DOMAIN Interpolations :
    LET path == Interpolations[raw].path
    IN  IsList(path) /\ \A i \in DOMAIN path : Is("field", path[i]) /\ IsSegment(path[i])

ASSUME TemplatesAreParsed ==
  \A j \in Jobs : Is("template", j) =>
    /\ IsList(j.template)
    /\ \A i \in Raws(j.template) : j.template[i].raw \in DOMAIN Interpolations

(* A transform returns one string or an error.                             *)
ASSUME TransformsReturnOneText ==
  \A j \in Jobs : Is("template", j) =>
    \A doc \in DocumentsOf(j) : \A r \in Routes(doc) : \A raw \in DOMAIN Interpolations :
      \A t, u \in Convert(Interpolations[raw].transform, r[2]) : t = u /\ IsList(t)

Single(path) ==
  path # <<>> /\ \A i \in DOMAIN path : Is("field", path[i]) \/ Is("index", path[i])
Projecting(path) ==
  LET n == Len(path) IN
  /\ n > 1 /\ Is("field", path[n]) /\ Is("all", path[n - 1])
  /\ n = 2 \/ Single(SubSeq(path, 1, n - 2))
Shaped(path) == Single(path) \/ Projecting(path)
InGrammar(path) == Shaped(path) /\ \A i \in DOMAIN path : path[i] # [field |-> ""]

(* What a path of that shape denotes: nothing or one value.               *)
Denotes(doc, path) ==
  LET n == Len(path) IN
  IF Single(path) THEN {r[2] : r \in {q \in Routes(doc) : q[1] = path}}
  ELSE {[items |-> [i \in DOMAIN r[2].items |-> r[2].items[i].fields[path[n].field]]] :
        r \in {q \in Routes(doc) :
                 /\ q[1] = SubSeq(path, 1, n - 2) /\ Is("items", q[2])
                 /\ \A i \in DOMAIN q[2].items : HasField(q[2].items[i], path[n].field)}}

(* Extraction is what the grammar says, segment loop or not: a path of the *)
(* grammar resolves to what the document holds there, or does not resolve  *)
(* because it holds nothing.  The one exception is the projection of an    *)
(* empty array, which comes back as a nil slice.                           *)
ExtractFollowsGrammar ==
  LET means == Denotes(Root, Sought) IN
  /\ pc \in {"transform", "compare"} /\ InGrammar(Sought) =>
       \/ means = {value}
       \/ means = {[items |-> <<>>]} /\ value = [no_items |-> TRUE]
  /\ pc = "unresolved" /\ InGrammar(Sought) => means = {}

-----------------------------------------------------------------------------
(* The text a reference stands for, from the exact decimal of an amount.   *)
ExactDecimal(n, e) ==
  LET size == IF n < 0 THEN -n ELSE n
  IN  Decimal(n < 0, size \div Ten[e], size % Ten[e], e)

Base(ref) ==
  IF ref.ns = "extract" THEN job.doc
  ELSE IF ref.ns = "state" THEN job.state ELSE job.namespaces[ref.ns]

Denoted(ref) ==
  IF ref.path = <<>> THEN Base(ref)
  ELSE CHOOSE w \in Denotes(Base(ref), ref.path) : TRUE

(* The integer a value is, if it is one: a JSON number without a fraction, *)
(* or the digits of a string, and within the range of an amount.           *)
IntegerOf(v) ==
  {n \in Signed : \/ Is("int", v) /\ v.int = n
                  \/ Is("number", v) /\ v.number = n * Grain
                  \/ Is("text", v) /\ v.text = <<[decimal |-> n]>>}

Meaning(ref) ==
  LET v == Denoted(ref)
      currency == job.namespaces["intent"].fields["currency"].text
  IN  IF ref.transform = "" THEN Printed(v)
      ELSE IF ref.transform = "amount_major"
      THEN AsText(ExactDecimal(CHOOSE n \in IntegerOf(v) : TRUE, Exponents[currency]))
      ELSE CHOOSE text \in Convert(ref.transform, v) : TRUE

(* An amount is a whole number of minor units: a fraction, or a number out *)
(* of range, has no exact decimal, though the source makes one of it.      *)
IsWhole(ref) == ref.transform = "amount_major" => IntegerOf(Denoted(ref)) # {}
AmountsAreWhole ==
  \A i \in Raws(job.template) : IsWhole(Interpolations[job.template[i].raw])

(* No value holds the text of an interpolation that comes after it.        *)
NothingCaptured ==
  \A i, j \in Raws(job.template) :
    i < j => ~ Contains(Meaning(Interpolations[job.template[i].raw]), job.template[j])

Substituted ==
  FlattenSeq([i \in DOMAIN job.template |->
                IF Is("raw", job.template[i])
                THEN Meaning(Interpolations[job.template[i].raw])
                ELSE <<job.template[i]>>])

(* Interpolation is substitution: although the source replaces one         *)
(* occurrence after another in the text already replaced, the outcome is   *)
(* that of replacing all at once, each by the value the language gives it, *)
(* unless a value holds the text of a later interpolation.  An amount      *)
(* stands for its exact decimal, whichever Go type it has, as long as it   *)
(* is whole.                                                               *)
SubstitutionIsSimultaneous ==
  pc = "done" /\ IsTemplate /\ AmountsAreWhole /\ NothingCaptured => out = Substituted

(* Every call comes back: the loops over interpolations, segments, powers  *)
(* of ten and padding all end.                                             *)
CallEnds == <>(pc \in {"done", "error"})

-----------------------------------------------------------------------------
(* vectors/expressions/conditions.json, "== never coerces type": a number  *)
(* is never equal to the same digits as a string, nor a boolean to "true". *)
TypeName(v) ==
  CASE Is("text", v) -> "string" [] Is("bool", v) -> "boolean"
    [] Is("int", v) \/ Is("number", v) -> "number" [] OTHER -> "other"
EqualsNeverCoerces ==
  pc = "done" /\ ~ IsTemplate /\ matched => TypeName(value) = TypeName(job.equals)

=============================================================================
