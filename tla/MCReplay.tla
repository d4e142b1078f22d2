------------------------------ MODULE MCReplay ------------------------------
(***************************************************************************)
(* Small families of manifests and cassettes for the runs of the           *)
(* interpreter.  A family is a set comprehension over the choices a run    *)
(* asks about; everything else is one fixed, valid provider.               *)
(***************************************************************************)
EXTENDS ManifestChecks, TLC

MCNumbers == {DefaultPollIntervalMs, "3000"}
MCObjects == {}
MCExponents == "ETB" :> 2 @@ "JPY" :> 0

(* Two transforms with one value each are enough to resolve or to fail.    *)
MCApplyTransform(name, value, exponent) ==
  IF name = "amount_major"
  THEN IF value = "1000" THEN IF exponent = 2 THEN "10.00" ELSE "1000" ELSE Nil
  ELSE IF name = "upper" /\ value = "id1" THEN "ID1" ELSE value

-----------------------------------------------------------------------------
(* Steps.                                                                  *)
Call(path) ==
  [method |-> "POST", path |-> path, headers |-> EmptyMap, body |-> EmptyMap]
Post == Call(Literal("/pay"))

Emit(status, map, next_action) ==
  [status |-> status, state |-> map, next_action |-> next_action]
Status(status) == Emit(status, EmptyMap, Nil)

StatusMap(values) == [path |-> "status", values |-> values]

Step(call, status_map, emit, goto) ==
  [call |-> call, triggers |-> {}, status_map |-> status_map, emit |-> emit,
   goto |-> goto]

Poll == "type" :> Literal("Poll") @@ "interval_ms" :> Literal("3000")
Redirect(url) == "type" :> Literal("RedirectToUrl") @@ "url" :> url

(* Entries of errors[].                                                    *)
Match(path, equals, http, transport) ==
  [path |-> path, equals |-> equals, http_status |-> http, transport |-> transport]
ErrorEntry(match, code, class) ==
  [match |-> match, failure_code |-> code, retry_class |-> class]
OnPath(equals, code, class) == ErrorEntry(Match("status", equals, 0, ""), code, class)
OnHttp(http, code, class) == ErrorEntry(Match("", "", http, ""), code, class)
Timeout == ErrorEntry(Match("", "", 0, "timeout"), "ProviderTimeout", "ResolveFirst")

-----------------------------------------------------------------------------
(* A provider with one operation and one flow; its capabilities announce   *)
(* what the flow emits.                                                    *)
Manifest(op, flow, errors) ==
  LET m == [provider |-> "mock", spec_version |-> "2.0", display_name |-> "Mock",
            country |-> "ET", currencies |-> {"ETB"},
            environments |-> "sandbox" :> "https://mock",
            auth |-> [shape |-> "api_key", fields |-> {"key"}, token |-> Nil,
                      apply |-> [header |-> "Authorization", query |-> "", body |-> "",
                                 value |-> Ref("credentials", "key")]],
            capabilities |-> [operations |-> {op}, next_actions |-> {}],
            operations |-> op :> "main",
            flows |-> "main" :> flow,
            errors |-> errors,
            webhook |-> IF op # "webhook" THEN Nil
                        ELSE [scheme |-> "none", signature_header |-> "",
                              secret |-> "", body_format |-> "json"]]
  IN  [m EXCEPT !.capabilities.next_actions = EmittedNextActions(m)]

Recorded == [method |-> "POST", path |-> "/pay", headers |-> EmptyMap, body |-> Nil]

(* A cassette with one exchange; response is Nil or [status, body].        *)
Exchange(response) == [request |-> Recorded, response |-> response]
Response(http, body) == [status |-> http, body |-> body]

Cassette(op, interactions, transport_failure, map) ==
  [operation |-> op, idempotency_key |-> "key1", transport_failure |-> transport_failure,
   environment |-> "sandbox", ctx |-> EmptyMap, credentials |-> "key" :> "secret",
   intent |-> "currency" :> "ETB" @@ "amount" :> "1000", state |-> map,
   inbound_webhook |-> Nil, interactions |-> interactions]

Answered(body) == Cassette("collect", <<Exchange(Response(200, body))>>, FALSE, EmptyMap)
TimedOut(map) == Cassette("collect", <<Exchange(Nil)>>, TRUE, map)
Notified(body, map) ==
  [Cassette("webhook", <<>>, FALSE, map) EXCEPT !.inbound_webhook = [body |-> body]]

Body(status) == "status" :> status @@ "url" :> "https://pay"

-----------------------------------------------------------------------------
(***************************************************************************)
(* Shapes: flows over a call step, two further steps and a step that       *)
(* does not exist, with gotos, a status_map and emits chosen freely, valid *)
(* or not; and the cassettes that answer with each branch.                 *)
(***************************************************************************)
Branching == {Nil, StatusMap("ok" :> "a" @@ "no" :> "b"),
              StatusMap("ok" :> "b" @@ "no" :> "ghost")}

Shapes(firsts, seconds, thirds) ==
  {Manifest("collect",
     "start" :> Step(Post, sm, e1, g1) @@ "a" :> Step(Nil, Nil, e2, g2)
       @@ "b" :> Step(Nil, Nil, e3, g3),
     <<Timeout>>) :
   sm \in Branching, g1 \in {"", "a"}, e1 \in firsts,
   g2 \in {"", "a", "b", "ghost"}, e2 \in seconds,
   g3 \in {"", "a"}, e3 \in thirds}

ShapeCassettes ==
  {Answered(Body("ok")), Answered(Body("no")), Answered(Body("other")),
   Answered("url" :> "https://pay"), Answered(Nil), TimedOut("x" :> "1"),
   Cassette("collect", <<Exchange(Nil)>>, FALSE, EmptyMap),
   Cassette("collect", <<>>, FALSE, EmptyMap),
   Cassette("sync", <<>>, FALSE, EmptyMap)}

(***************************************************************************)
(* Patches: two steps that write the keys x and y from literals, from each *)
(* other, from the response and from what does not resolve.                *)
(***************************************************************************)
Templates ==
  {Literal("1"), Ref("state", "x"), Ref("state", "y"), Ref("extract", "status"),
   Ref("extract", "missing"),
   [ns |-> "intent", path |-> "amount", transform |-> "amount_major"]}
Maps == UNION {[K -> Templates] : K \in SUBSET {"x", "y"}}

Patches(op) ==
  {Manifest(op,
     "start" :> Step(IF op = "webhook" THEN Nil ELSE Post, sm,
                     Emit("Processing", map, Poll), "end")
       @@ "end" :> Step(Nil, Nil, second, ""),
     <<Timeout>>) :
   sm \in {Nil, StatusMap("ok" :> "end")}, map \in Maps,
   second \in {Nil, Emit("", "y" :> Ref("state", "x"), Nil),
               Emit("Succeeded", "z" :> Literal("2"), Redirect(Ref("state", "y")))}}

PatchStates == {EmptyMap, "x" :> "7", "x" :> "7" @@ "y" :> "8"}
PatchCassettes ==
  UNION {{[Answered(Body("ok")) EXCEPT !.state = map], Notified(Body("ok"), map),
          Notified(Body("no"), map), Notified(Nil, map), TimedOut(map)}
         : map \in PatchStates}
  \cup {Cassette("webhook", <<>>, FALSE, EmptyMap)}

=============================================================================
