---------------------------- MODULE MCValidated -----------------------------
(* The valid members of two families: the flows of Shapes, replayed on     *)
(* every branch, and errors[] lists of up to three entries, overlapping or *)
(* not, against every response and against timeouts with and without one.  *)
EXTENDS ValidatedReplay, MCReplay

Endings == {Nil, Status("Succeeded"), Emit("Processing", EmptyMap, Poll),
            Emit("RequiresAction", EmptyMap, Redirect(Ref("extract", "url"))),
            Emit("", EmptyMap, "type" :> Literal("RedirectToUrl"))}

AllShapes == Shapes({Nil, Status("Succeeded"), Status("Pending")}, Endings, Endings)

Entries ==
  {OnPath("declined", "InsufficientFunds", "DoNotRetry"),
   OnPath("declined", "InsufficientFunds", "SafeToRetry"),
   OnPath("weird", "Unknown", "ResolveFirst"),
   OnHttp(401, "AuthFailed", "DoNotRetry"),
   OnHttp(401, "Unknown", "ResolveFirst"),
   OnHttp(500, "ProviderUnavailable", "SafeToRetry"),
   OnHttp(500, "ProviderUnavailable", "DoNotRetry"),
   OnHttp(504, "ProviderTimeout", "ResolveFirst")}

ErrorLists ==
  {<<Timeout>>} \cup {<<e, Timeout>> : e \in Entries}
  \cup {<<e, Timeout, f>> : e, f \in Entries} \cup {<<e, f, Timeout>> : e, f \in Entries}

Writing == Emit("Processing", "x" :> Literal("2"), Poll)
AllErrorLists ==
  {Manifest("collect", "start" :> Step(Post, Nil, Writing, ""), errors) :
     errors \in ErrorLists}

ValidManifests == {m \in AllShapes \cup AllErrorLists : Validated(m)}

ErrorCassettes ==
  {Cassette("collect", <<Exchange(Response(http, Body(answer)))>>, timeout, "x" :> "1") :
     http \in {200, 401, 500, 504}, answer \in {"ok", "declined", "weird"},
     timeout \in BOOLEAN}

AllCassettes == ShapeCassettes \cup ErrorCassettes
=============================================================================
