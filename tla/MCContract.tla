----------------------------- MODULE MCContract -----------------------------
(* One validated manifest for each sentence of DocumentedContract, and one *)
(* cassette for each way its provider may answer.                          *)
EXTENDS DocumentedContract, MCReplay

RedirectsFirst ==
  "start" :> Step(Post, Nil, Emit("RequiresAction", EmptyMap, Redirect(Ref("extract", "url"))),
                  "paid")
    @@ "paid" :> Step(Nil, Nil, Status("Succeeded"), "")

CallsAgain ==
  "start" :> Step(Post, Nil, Nil, "verify")
    @@ "verify" :> Step(Call(Literal("/verify")), StatusMap("ok" :> "paid"),
                        Emit("Processing", EmptyMap, Poll), "")
    @@ "paid" :> Step(Nil, Nil, Status("Succeeded"), "")

Circle ==
  "start" :> Step(Post, Nil, Nil, "a") @@ "a" :> Step(Nil, Nil, Nil, "b")
    @@ "b" :> Step(Nil, Nil, Nil, "a")

Overlapping ==
  <<OnPath("no", "AuthorizationDeclined", "DoNotRetry"),
    OnHttp(401, "AuthFailed", "DoNotRetry"), Timeout>>

ContractManifests ==
  {m \in {Manifest("collect", flow, Overlapping) : flow \in {RedirectsFirst, CallsAgain, Circle}} :
     Validated(m)}

ContractCassettes ==
  {Cassette("collect", <<Exchange(Response(http, body))>>, FALSE, EmptyMap) :
     http \in {200, 401}, body \in {Body("ok"), Body("no"), Body("other"), Nil}}
=============================================================================
