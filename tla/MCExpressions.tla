--------------------------- MODULE MCExpressions ----------------------------
(* Templates of up to three tokens over states that hold plain values,     *)
(* numbers, and the text of an interpolation; paths of up to four segments *)
(* into documents with arrays, empty arrays, nulls and nameless fields;    *)
(* every amount of a ten-bit integer in each exponent, and JSON numbers    *)
(* with a fraction and out of range.                                       *)
EXTENDS ExpressionLanguage

MCLeast == -Half
MCTen == [e \in 0 .. 3 |-> 10 ^ e]
MCExponents == [c \in {<<[word |-> "JPY"]>>, <<[word |-> "ETB"]>>, <<[word |-> "KWD"]>>} |->
  CASE c = <<[word |-> "JPY"]>> -> 0 [] c = <<[word |-> "ETB"]>> -> 2 [] OTHER -> 3]

MCConvert(name, v) ==
  IF name = "upper" THEN {<<[shown |-> v]>>} ELSE IF Is("text", v) THEN {v.text} ELSE {}

Word(w) == [text |-> <<[word |-> w]>>]
Field(f) == [field |-> f]
Named(ns, path, transform) == [ns |-> ns, path |-> path, transform |-> transform]

MCInterpolations ==
  "x"      :> Named("state", <<Field("x")>>, "") @@
  "y"      :> Named("state", <<Field("y")>>, "") @@
  "deep"   :> Named("extract", <<Field("b"), Field("a")>>, "") @@
  "whole"  :> Named("idempotency_key", <<>>, "") @@
  "none"   :> Named("extract", <<>>, "") @@
  "event"  :> Named("event", <<Field("a")>>, "") @@
  "major"  :> Named("intent", <<Field("amount")>>, "amount_major") @@
  "paid"   :> Named("extract", <<Field("b"), Field("a")>>, "amount_major") @@
  "upper"  :> Named("state", <<Field("x")>>, "upper") @@
  "empty"  :> Named("state", <<Field("")>>, "") @@
  "blank"  :> Named("extract", <<Field("b"), Field("")>>, "") @@
  "date"   :> Named("state", <<Field("x")>>, "iso8601")

Raw(r) == [raw |-> r]
Tokens == {[word |-> "/"]} \cup {Raw(r) : r \in DOMAIN MCInterpolations}
Templates ==
  {<<t, u>> : t \in Tokens, u \in Tokens}
  \cup {<<t, u, v>> : t \in {Raw("x"), Raw("y")}, u \in {Raw("x"), Raw("y"), [word |-> "/"]},
                      v \in {Raw("x"), Raw("y")}}

StateValues == {Word("p"), [int |-> 12], [text |-> <<Raw("y"), [word |-> "p"]>>],
                [text |-> <<Raw("x")>>], Null}
States == {[fields |-> [k \in {"x", "y"} |-> IF k = "x" THEN v ELSE w]] :
           v \in StateValues, w \in StateValues}

Intent(n, currency) ==
  [fields |-> [k \in {"amount", "currency"} |->
                 IF k = "amount" THEN n ELSE [text |-> currency]]]
Given(intent) ==
  [ns \in {"intent", "idempotency_key"} |-> IF ns = "intent" THEN intent ELSE Word("key1")]

Answer == [fields |-> "b" :> [fields |-> "a" :> [number |-> 210] @@ "" :> Word("q")]]

Substitutions ==
  {[template |-> t, doc |-> doc, state |-> st,
    namespaces |-> Given(Intent([int |-> -511], <<[word |-> "ETB"]>>))] :
   t \in Templates, st \in States, doc \in {Answer}}
  \cup {[template |-> <<Raw(r)>>, doc |-> doc, state |-> [fields |-> "" :> Word("q")],
         namespaces |-> Given(Intent([number |-> 14], <<[word |-> "XXX"]>>))] :
        r \in DOMAIN MCInterpolations, doc \in {Answer, Null}}

Amounts10 ==
  {[template |-> <<Raw("major")>>, doc |-> Null, state |-> Null,
    namespaces |-> Given(Intent(n, c))] :
   c \in DOMAIN MCExponents,
   n \in {[int |-> i] : i \in -Half .. Half - 1} \cup
         {[text |-> <<[decimal |-> i]>>] : i \in {-Half, Half - 1, Half, 0}} \cup
         {[number |-> k] : k \in {-11, -10, -1, 3, 10, 2 * Half, -2 * Half - 2}} \cup
         {Word("p"), Null}}

-----------------------------------------------------------------------------
Leaf == {[number |-> 10], [number |-> 210], [text |-> <<[decimal |-> 5]>>],
         [bool |-> TRUE], Word("true"), Null}
Object(fields) == [fields |-> fields]
Array(items) == [items |-> items]
Elements(leaf) == {Object("a" :> leaf), Object("a" :> Null @@ "b" :> leaf), leaf}
Documents ==
  UNION {{Object("a" :> leaf), Object("b" :> Object("a" :> leaf)), Array(<<leaf>>),
          Object("b" :> Array(<<>>) @@ "a" :> leaf)}
         \cup {Object("a" :> Array(<<e, f>>)) : e \in Elements(leaf), f \in Elements(leaf)}
         \cup {Object("a" :> Array(<<Object("b" :> Array(<<e>>))>>)) : e \in Elements(leaf)}
         : leaf \in {[number |-> 10], Null}}
  \cup {Object("" :> Word("p")), Object("a" :> Object("" :> Word("p")))}
  \cup {Object("a" :> Array(<<Object("" :> Word("p"))>>))}

Segments == {Field("a"), Field("b"), [index |-> 0], [index |-> 1], [index |-> -1],
             [all |-> TRUE], [malformed |-> TRUE]}
Paths == UNION {[1 .. n -> Segments] : n \in 0 .. 3}
         \cup {<<Field("a"), [index |-> 0], Field("b"), s>> : s \in Segments}
         \cup {<<Field("a"), [index |-> 0], Field("b"), [all |-> TRUE], s>> : s \in Segments}
         \cup {<<Field("")>>, <<Field("a"), Field("")>>,
               <<Field("a"), [all |-> TRUE], Field("")>>,
               <<Field("b"), [all |-> TRUE], Field("")>>}

Conditions ==
  {[path |-> p, equals |-> [text |-> <<[decimal |-> 5]>>], doc |-> d] :
   p \in Paths, d \in Documents}
  \cup {[path |-> <<Field("a")>>, equals |-> lit, doc |-> Object("a" :> leaf)] :
        lit \in {[int |-> 5], [int |-> 105], Word("true"), [bool |-> TRUE]},
        leaf \in Leaf}

AllJobs == Substitutions \cup Amounts10 \cup Conditions
ConditionJobs == {j \in Conditions : j.path = <<Field("a")>>}
=============================================================================
