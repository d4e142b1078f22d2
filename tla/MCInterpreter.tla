--------------------------- MODULE MCInterpreter ----------------------------
(* The interpreter with no validation before it: the family Patches over   *)
(* responses and webhooks, flows of Shapes with and without cycles, and    *)
(* calls that declare headers of their own beside the ones auth.apply      *)
(* adds, against requests recorded with right, wrong and missing headers.  *)
EXTENDS Interpreter, MCReplay

OwnHeaders == {EmptyMap, "Authorization" :> Literal("mine"),
               "Authorization" :> Ref("extract", "token"),
               "X-Key" :> Ref("idempotency_key", "")}
Bodies == {EmptyMap, "amount" :> Ref("intent", "amount"),
           "amount" :> [ns |-> "intent", path |-> "amount", transform |-> "amount_major"]}
Applied == {Nil, [header |-> "Authorization", query |-> "", body |-> "",
                  value |-> Ref("credentials", "key")],
            [header |-> "", query |-> "key", body |-> "",
             value |-> Ref("credentials", "key")]}

Requesting ==
  {[Manifest("collect",
      "start" :> Step([Call(path) EXCEPT !.headers = headers, !.body = body],
                      Nil, Status("Processing"), ""),
      <<Timeout>>) EXCEPT !.provider = "caller", !.auth.apply = apply] :
   path \in {Literal("/pay"), Ref("ctx", "base_url")}, headers \in OwnHeaders,
   body \in Bodies, apply \in Applied}

RecordedHeaders == {EmptyMap, "Authorization" :> "secret", "Authorization" :> "mine",
                    "X-Key" :> "key1" @@ "Authorization" :> "secret"}

RequestCassettes ==
  {[Answered(Body("ok")) EXCEPT
      !.ctx = "for" :> "caller", !.environment = environment, !.intent["currency"] = currency,
      !.interactions[1].request =
        [Recorded EXCEPT !.method = method, !.headers = headers, !.body = body]] :
   environment \in {"", "sandbox", "ghost"}, currency \in {"ETB", "XXX"},
   method \in {"POST", "GET"}, headers \in RecordedHeaders,
   body \in {Nil, "amount" :> "10.00", "amount" :> "1000"}}

-----------------------------------------------------------------------------
AllManifests ==
  Patches("collect") \cup Patches("webhook")
  \cup Shapes({Nil, Emit("", "x" :> Literal("2"), Nil)}, {Nil}, {Nil, Status("Succeeded")})
  \cup Requesting

AllCassettes == PatchCassettes \cup ShapeCassettes \cup RequestCassettes

(* The two families do not mix: the calls of Requesting are asserted over  *)
(* the cassettes recorded for them, and the other flows over theirs.       *)
PairedInit == Init /\ (manifest.provider = "caller" <=> "for" \in DOMAIN cassette.ctx)
PairedSpec == PairedInit /\ [][Next]_vars /\ WF_vars(Next)
=============================================================================
