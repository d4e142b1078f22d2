---------------------------- MODULE ReplayRules ----------------------------
(***************************************************************************)
(* What package replay computes without changing anything: the evaluation  *)
(* of templates, the assertion on the outbound request, the matching of    *)
(* errors[] entries, and the PaymentResult a run returns.                  *)
(*                                                                         *)
(* A parsed JSON body is the function from the extraction paths that       *)
(* resolve in it to their values; Nil is a body that is no JSON.  Values   *)
(* are compared as the source compares them, by their printed form.  A     *)
(* template whose text embeds interpolations in a longer string is         *)
(* represented by the one interpolation that matters.                      *)
(***************************************************************************)
EXTENDS Flows

CONSTANTS
  Exponents,                \* vectors/money/exponents.json: currency -> digits
  ApplyTransform(_, _, _)   \* expr.ApplyTransform: a value, or Nil on an error

-----------------------------------------------------------------------------
(***************************************************************************)
(* Expressions: buildNamespaces, evaluateInterpolation and its callers.    *)
(* Evaluate yields Nil where the source returns an error.                  *)
(***************************************************************************)
Namespaces(m, cas) ==
  [idempotency_key |-> [p \in {""} |-> cas.idempotency_key],
   credentials     |-> cas.credentials,
   intent          |-> cas.intent,
   ctx             |-> IF cas.environment = "" THEN cas.ctx
                       ELSE Put(cas.ctx, "base_url", m.environments[cas.environment])]

Source(t, ns, st, doc) ==
  IF t.ns = "state" THEN st
  ELSE IF t.ns = "extract" THEN doc
  ELSE IF t.ns \in DOMAIN ns THEN ns[t.ns] ELSE EmptyMap

(* Only amount_major reads an exponent, that of the intent's currency.     *)
Transformed(t, value, ns) ==
  IF t.transform = "" THEN value
  ELSE IF t.transform # "amount_major" THEN ApplyTransform(t.transform, value, 0)
  ELSE IF /\ "currency" \in DOMAIN ns.intent
          /\ ns.intent["currency"] \in DOMAIN Exponents
  THEN ApplyTransform("amount_major", value, Exponents[ns.intent["currency"]])
  ELSE Nil

Evaluate(t, ns, st, doc) ==
  IF t.ns = "literal" THEN t.path
  ELSE IF t.path \notin DOMAIN Source(t, ns, st, doc) THEN Nil
  ELSE Transformed(t, Source(t, ns, st, doc)[t.path], ns)

EvaluateAll(map, ns, st, doc) ==
  [k \in DOMAIN map |-> Evaluate(map[k], ns, st, doc)]

Resolved(map) == Nil \notin ValuesOf(map)

(***************************************************************************)
(* checkRequestMatch: the request the step's call and auth.apply produce   *)
(* against the recorded one.  No response exists yet, so extract is empty. *)
(***************************************************************************)
ApplyHeader(auth) ==
  IF auth.apply = Nil \/ auth.apply.header = "" THEN EmptyMap
  ELSE [h \in {auth.apply.header} |-> auth.apply.value]

(* Mutant of CallHeaders: the call's own header wins over auth.apply.      *)
OwnHeadersFirst(call, auth) ==
  [h \in DOMAIN call.headers \cup DOMAIN ApplyHeader(auth) |->
     IF h \in DOMAIN call.headers THEN call.headers[h] ELSE ApplyHeader(auth)[h]]

CallHeaders(call, auth) ==
  [h \in DOMAIN call.headers \cup DOMAIN ApplyHeader(auth) |->
     IF h \in DOMAIN ApplyHeader(auth) THEN ApplyHeader(auth)[h] ELSE call.headers[h]]

(* The text of call.headers is resolved even where auth.apply overrides it.*)
RequestMatches(call, req, ns, st, auth) ==
  LET headers == EvaluateAll(CallHeaders(call, auth), ns, st, EmptyMap)
      body    == EvaluateAll(call.body, ns, st, EmptyMap)
  IN  /\ Evaluate(call.path, ns, st, EmptyMap) = req.path
      /\ call.method = req.method
      /\ Resolved(EvaluateAll(call.headers, ns, st, EmptyMap)) /\ Resolved(headers)
      /\ \A h \in DOMAIN req.headers \cap DOMAIN headers : headers[h] = req.headers[h]
      /\ req.body # Nil => Resolved(body) /\ body = req.body

-----------------------------------------------------------------------------
(* matchError: the first entry, in list order, that the response satisfies.*)
ErrorMatches(entry, doc, http) ==
  \/ Kind(entry.match) = "http_status" /\ entry.match.http_status = http
  \/ /\ Kind(entry.match) = "path"
     /\ entry.match.path \in DOMAIN doc
     /\ doc[entry.match.path] = entry.match.equals

Matching(errors, doc, http) == {i \in DOMAIN errors : ErrorMatches(errors[i], doc, http)}

(* Mutant of FirstMatch: the list is scanned to its end.                   *)
LastMatch(errors, doc, http) ==
  CHOOSE i \in Matching(errors, doc, http) :
    \A j \in Matching(errors, doc, http) : j <= i

FirstMatch(errors, doc, http) ==
  CHOOSE i \in Matching(errors, doc, http) :
    \A j \in Matching(errors, doc, http) : i <= j

SyntheticPoll ==
  [k \in {"type", "interval_ms"} |->
     IF k = "type" THEN "Poll" ELSE DefaultPollIntervalMs]

Failure(code, class) == [failure_code |-> code, retry_class |-> class]

(* finish: the PaymentResult of a run that returns.                        *)
PaymentResult(cas, st, stat, na, failure) ==
  [idempotency_key |-> cas.idempotency_key, operation |-> cas.operation,
   status |-> stat, next_action |-> na, state |-> st, failure |-> failure]

(* What a matched entry makes of the run: the outcome is unknown for       *)
(* ProviderTimeout and Unknown, a definite failure for every other code.   *)
ErrorOutcome(cas, st, entry) ==
  IF entry.failure_code \in {"ProviderTimeout", "Unknown"}
  THEN PaymentResult(cas, st, "Processing", SyntheticPoll, Nil)
  ELSE PaymentResult(cas, st, "Failed", Nil, Failure(entry.failure_code, entry.retry_class))

-----------------------------------------------------------------------------
(* Why Run gives up before it looks at the cassette's traffic, or "".      *)
PrepareError(m, cas) ==
  IF cas.operation \notin DOMAIN m.operations THEN "unknown-operation"
  ELSE IF m.operations[cas.operation] \notin DOMAIN m.flows THEN "unknown-flow"
  ELSE IF ~ HasEntryStep(m.flows[m.operations[cas.operation]]) THEN "entry-step"
  ELSE IF cas.environment # "" /\ cas.environment \notin DOMAIN m.environments
  THEN "unknown-environment"
  ELSE ""

=============================================================================
