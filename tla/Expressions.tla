---------------------------- MODULE Expressions -----------------------------
(***************************************************************************)
(* One call into the expression language, loop by loop: interpolateString  *)
(* of a template, or the path condition of matchError.  ReplayRules has    *)
(* both as one operator; this module shows what they are made of.          *)
(*                                                                         *)
(* A value is a record of one field that names its Go type: text, int (a   *)
(* YAML integer), number (a JSON one, a float64), bool, null, items (a     *)
(* slice), no_items (a nil slice) or fields (a map).  A number is counted  *)
(* in units of 1 / Grain, as every float64 is a multiple of 2^-1074.  A    *)
(* text is a sequence of tokens, of which a token [raw |-> r] is the text  *)
(* of the interpolation r.  A path is the sequence of segments after "$";  *)
(* a dot with no name behind it is the segment [field |-> ""].             *)
(***************************************************************************)
EXTENDS Amounts, Sequences, SequencesExt

CONSTANTS
  Jobs,                     \* the calls: a template, or a path and a literal,
                            \* with what they are evaluated against
  Interpolations,           \* FindInterpolations: raw text -> ns, path, transform
  Exponents,                \* vectors/money/exponents.json: currency -> digits
  PlainLimit,               \* the least number %v prints with an exponent
  Grain,                    \* the units of a JSON number in one
  TooSmall, TooGreat,       \* what the platform makes of a float64 that is
                            \* out of the range of the integers
  Convert(_, _),            \* the other transforms: {} on an error, or {text}
  MaxDepth                  \* how deep the documents of Jobs nest

ASSUME ExponentsFit ==
  \A c \in DOMAIN Exponents : Exponents[c] \in 0 .. MaxExponent

ASSUME ConversionsAreSigned ==
  Grain \in Nat \ {0} /\ {TooSmall, TooGreat} \subseteq Signed

VARIABLES
  job,                      \* the arguments of the call, never assigned
  out, todo,                \* the text so far, the interpolations still to replace,
                            \* by their places in the template
  cur, rest,                \* the locals of Extract
  value,                    \* what the path resolved to, then what it is made into
  matched                   \* the outcome of a condition

vars == <<job, pc, out, todo, cur, rest, value, matched, amountVars>>

Null == [null |-> TRUE]
Is(kind, v) == kind \in DOMAIN v
IsTemplate == Is("template", job)

-----------------------------------------------------------------------------
(* fmt.Sprintf("%v"): a float64 of seven digits or more has an exponent.   *)
Printed(v) ==
  CASE Is("text", v)   -> v.text
    [] Is("int", v)    -> <<[decimal |-> v.int]>>
    [] Is("number", v) -> IF /\ v.number % Grain = 0
                             /\ v.number \div Grain \in -PlainLimit + 1 .. PlainLimit - 1
                          THEN <<[decimal |-> v.number \div Grain]>>
                          ELSE <<[float |-> v.number]>>
    [] Is("bool", v)   -> <<[word |-> IF v.bool THEN "true" ELSE "false"]>>
    [] Is("null", v)   -> <<[word |-> "<nil>"]>>
    [] OTHER           -> <<[shown |-> v]>>

(* int64 of a float64 drops the fraction; out of range is no error.        *)
Truncated(k) == IF k < 0 THEN -((-k) \div Grain) ELSE k \div Grain
Int64(k) ==
  IF Truncated(k) \in Signed THEN Truncated(k) ELSE IF k < 0 THEN TooSmall ELSE TooGreat

(* toInt64: no integer, or the one; a string goes through ParseInt.        *)
ToInt64(v) ==
  {n \in Signed : \/ Is("int", v) /\ n = v.int
                  \/ Is("number", v) /\ n = Int64(v.number)
                  \/ Is("text", v) /\ v.text = <<[decimal |-> n]>>}

(* FindInterpolations: the places of its matches, taken from left to right.*)
Raws(template) == {i \in DOMAIN template : Is("raw", template[i])}

Interp == job.template[Min(todo)]
Reference == Interpolations[Interp.raw]
Sought == IF IsTemplate THEN Reference.path ELSE job.path

(* The roots of evaluateInterpolation: the state, the response, or one of  *)
(* the namespaces; Null before there is a response.                        *)
HasRoot(ns) == ns \in {"state", "extract"} \cup DOMAIN job.namespaces
Root ==
  IF ~ IsTemplate \/ Reference.ns = "extract" THEN job.doc
  ELSE IF Reference.ns = "state" THEN job.state ELSE job.namespaces[Reference.ns]

Init ==
  /\ job \in Jobs /\ pc = "start" /\ out = <<>> /\ todo = {}
  /\ cur = Null /\ rest = <<>> /\ value = Null /\ matched = FALSE
  /\ amount = 0 /\ exponent = 0 /\ mag = 0 /\ div = 1 /\ count = 0 /\ printed = Zero

Lookup(root, path) ==
  /\ pc' = "lookup" /\ cur' = root /\ rest' = path

(* FindInterpolations looks at the template once, before any replacement.  *)
Begin ==
  /\ pc = "start"
  /\ IF IsTemplate
     THEN /\ pc' = "next" /\ out' = job.template /\ todo' = Raws(job.template)
          /\ UNCHANGED <<cur, rest>>
     ELSE Lookup(job.doc, job.path) /\ UNCHANGED <<out, todo>>
  /\ UNCHANGED <<job, value, matched, amountVars>>

NextInterpolation ==
  /\ pc = "next"
  /\ IF todo = {} THEN pc' = "done" /\ UNCHANGED <<cur, rest>>
     ELSE IF ~ HasRoot(Reference.ns) THEN pc' = "error" /\ UNCHANGED <<cur, rest>>
     ELSE Lookup(Root, Reference.path)
  /\ UNCHANGED <<job, out, todo, value, matched, amountVars>>

-----------------------------------------------------------------------------
(***************************************************************************)
(* Extract and lookupDotPath, a segment at a time.  They agree on the      *)
(* paths of fields an interpolation can write, with two exceptions.  The   *)
(* empty path is a namespace itself, and no path of a document; and a      *)
(* field without a name is the key "" of a namespace, and no segment of a  *)
(* document's path, save behind a wildcard.                                *)
(***************************************************************************)
InDocument == ~ IsTemplate \/ Reference.ns = "extract"

Step(v, segments) ==
  /\ cur' = v /\ rest' = segments
  /\ UNCHANGED <<job, pc, out, todo, value, matched, amountVars>>

Unresolved ==
  /\ pc' = "unresolved"
  /\ UNCHANGED <<job, out, todo, cur, rest, value, matched, amountVars>>

Found(v) ==
  /\ pc' = IF IsTemplate THEN "transform" ELSE "compare"
  /\ value' = v
  /\ UNCHANGED <<job, out, todo, cur, rest, matched, amountVars>>

At(segment) == pc = "lookup" /\ rest # <<>> /\ Is(segment, Head(rest))

EndOfPath ==
  /\ pc = "lookup" /\ rest = <<>>
  /\ IF InDocument /\ Sought = <<>> THEN Unresolved ELSE Found(cur)

HasField(v, f) == Is("fields", v) /\ f \in DOMAIN v.fields

FieldSegment ==
  /\ At("field")
  /\ IF HasField(cur, Head(rest).field) /\ ~ (InDocument /\ Head(rest).field = "")
     THEN Step(cur.fields[Head(rest).field], Tail(rest))
     ELSE Unresolved

IndexSegment ==
  /\ At("index")
  /\ IF Is("items", cur) /\ Head(rest).index \in 0 .. Len(cur.items) - 1
     THEN Step(cur.items[Head(rest).index + 1], Tail(rest))
     ELSE Unresolved

(* Mutant of Project: an element without the field is left out.            *)
ProjectPresent ==
  /\ At("all")
  /\ IF Is("items", cur) /\ Len(rest) > 1 /\ Is("field", rest[2])
     THEN LET having == SelectSeq(cur.items, LAMBDA e : HasField(e, rest[2].field))
          IN  Found([items |-> [i \in DOMAIN having |-> having[i].fields[rest[2].field]]])
     ELSE Unresolved

(* The projection returns at once, whatever follows the one field it takes.*)
Project ==
  /\ At("all")
  /\ IF /\ Is("items", cur) /\ Len(rest) > 1 /\ Is("field", rest[2])
        /\ \A i \in DOMAIN cur.items : HasField(cur.items[i], rest[2].field)
     THEN Found(IF cur.items = <<>> THEN [no_items |-> TRUE]
                ELSE [items |-> [i \in DOMAIN cur.items |->
                                   cur.items[i].fields[rest[2].field]]])
     ELSE Unresolved

Malformed == At("malformed") /\ Unresolved

(* An interpolation that does not resolve is an error, a condition is not. *)
Missing ==
  /\ pc = "unresolved" /\ pc' = IF IsTemplate THEN "error" ELSE "done"
  /\ UNCHANGED <<job, out, todo, cur, rest, value, matched, amountVars>>

-----------------------------------------------------------------------------
Made(text) ==
  /\ pc' = "replace" /\ value' = [text |-> text]
  /\ UNCHANGED <<job, out, todo, cur, rest, matched, amountVars>>

Raise ==
  /\ pc' = "error"
  /\ UNCHANGED <<job, out, todo, cur, rest, value, matched, amountVars>>

Bare ==
  /\ pc = "transform" /\ Reference.transform = "" /\ Made(Printed(value))

OtherTransform ==
  /\ pc = "transform" /\ Reference.transform \notin {"", "amount_major"}
  /\ LET texts == Convert(Reference.transform, value) IN
     IF texts = {} THEN Raise ELSE \E text \in texts : Made(text)

HasExponent == HasField(job.namespaces["intent"], "currency")
               /\ Is("text", job.namespaces["intent"].fields["currency"])
               /\ job.namespaces["intent"].fields["currency"].text \in DOMAIN Exponents

(* amount_major: the exponent of the intent's currency first.              *)
AmountMajor ==
  /\ pc = "transform" /\ Reference.transform = "amount_major"
  /\ IF ~ HasExponent \/ ToInt64(value) = {} THEN Raise
     ELSE /\ pc' = "format" /\ amount' \in ToInt64(value)
          /\ exponent' = Exponents[job.namespaces["intent"].fields["currency"].text]
          /\ UNCHANGED <<job, out, todo, cur, rest, value, matched,
                         mag, div, count, printed>>

FormatAmount == Format /\ UNCHANGED <<job, out, todo, cur, rest, value, matched>>

AsText(d) == IF d.places = 0 THEN <<[decimal |-> MinorUnits(d)]>> ELSE <<[major |-> d]>>

Formatted == pc = "formatted" /\ Made(AsText(printed))

(* strings.Replace with a count of one: the leftmost occurrence.           *)
ReplaceFirst(text, raw, new) ==
  IF ~ Contains(text, raw) THEN text
  ELSE LET i == SelectInSeq(text, LAMBDA t : t = raw)
       IN  SubSeq(text, 1, i - 1) \o new \o SubSeq(text, i + 1, Len(text))

(* Mutant of Replace: the template is replaced in, not the text so far.    *)
ReplaceInTemplate ==
  /\ pc = "replace" /\ pc' = "next"
  /\ out' = ReplaceFirst(job.template, Interp, value.text) /\ todo' = todo \ {Min(todo)}
  /\ UNCHANGED <<job, cur, rest, value, matched, amountVars>>

Replace ==
  /\ pc = "replace" /\ pc' = "next"
  /\ out' = ReplaceFirst(out, Interp, value.text) /\ todo' = todo \ {Min(todo)}
  /\ UNCHANGED <<job, cur, rest, value, matched, amountVars>>

(* matchError compares printed forms.                                      *)
Compare ==
  /\ pc = "compare" /\ pc' = "done"
  /\ matched' = (Printed(value) = Printed(job.equals))
  /\ UNCHANGED <<job, out, todo, cur, rest, value, amountVars>>

Finished == pc \in {"done", "error"} /\ UNCHANGED vars

Next ==
  \/ Begin \/ NextInterpolation
  \/ EndOfPath \/ FieldSegment \/ IndexSegment \/ Project \/ Malformed \/ Missing
  \/ Bare \/ OtherTransform \/ AmountMajor \/ FormatAmount \/ Formatted
  \/ Replace \/ Compare
  \/ Finished

(* One goroutine, and no loop waits for anything.                          *)
Spec == Init /\ [][Next]_vars /\ WF_vars(Next)

=============================================================================
