----------------------------- MODULE MCCommands -----------------------------
(* Three families of repositories: one provider with two cassettes, each   *)
(* with every outcome and every golden file; up to two of a score of       *)
(* directories, sound and unsound, native and not; and one sound provider  *)
(* in a repository whose other files are sound or not.                     *)
EXTENDS CommandContract, MCReplay

MCRank ==
  [n \in {"_skeleton", "a", "b", "broken", "native", "unsound", "z"} |->
     CASE n = "_skeleton" -> 0 [] n = "a" -> 1 [] n = "b" -> 2 [] n = "broken" -> 3
       [] n = "native" -> 4 [] n = "unsound" -> 5 [] OTHER -> 6]
MCEncodable(v) == v # "Inf"

File(doc) == [header |-> TRUE, doc |-> doc]
Unheaded(file) == [file EXCEPT !.header = FALSE]
Garbled == File(Nil)

Metadata(slug) ==
  [provider |-> slug, tier |-> "community", status |-> "provisional",
   docs_verified_on |-> Nil, verified_by |-> Nil, maintainers |-> {}]

Paying(slug, emit) ==
  [Manifest("collect", "start" :> Step(Post, Nil, emit, ""),
     <<OnPath("declined", "InsufficientFunds", "DoNotRetry"), Timeout>>)
     EXCEPT !.provider = slug]
Redirecting(slug) ==
  Paying(slug, Emit("RequiresAction", EmptyMap, Redirect(Ref("extract", "url"))))
Syncing(slug) ==
  [Redirecting(slug) EXCEPT !.operations = "collect" :> "main" @@ "sync" :> "main",
                            !.capabilities.operations = {"collect", "sync"}]

Capabilities(slug) ==
  [provider |-> slug, spec_version |-> "2.0", display_name |-> "Native", country |-> "ET",
   implementation |-> "native", currencies |-> {"ETB"},
   auth |-> [shape |-> "none", fields |-> {}],
   capabilities |-> [operations |-> {"collect"}, next_actions |-> {}]]

-----------------------------------------------------------------------------
(* Cassettes by what becomes of them, with the result a golden file holds. *)
Outcomes == {"ok", "declined", "timeout", "mismatch", "endless"}

Played(outcome) ==
  CASE outcome = "ok"       -> Answered(Body("ok"))
    [] outcome = "declined" -> Answered(Body("declined"))
    [] outcome = "timeout"  -> TimedOut(EmptyMap)
    [] outcome = "mismatch" ->
         [Answered(Body("ok")) EXCEPT !.interactions[1].request.method = "GET"]
    [] OTHER                -> [Answered(Body("ok")) EXCEPT !.state = "x" :> "Inf"]

Result(map, stat, na, failure) ==
  [idempotency_key |-> "key1", operation |-> "collect", status |-> stat,
   next_action |-> na, state |-> map, failure |-> failure]

Redirected == "type" :> "RedirectToUrl" @@ "url" :> "https://pay"
Holds(outcome) ==
  CASE outcome = "declined" ->
         Result(EmptyMap, "Failed", Nil, Failure("InsufficientFunds", "DoNotRetry"))
    [] outcome = "timeout"  -> Result(EmptyMap, "Processing", SyntheticPoll, Nil)
    [] outcome = "endless"  -> Result("x" :> "Inf", "RequiresAction", Redirected, Nil)
    [] OTHER                -> Result(EmptyMap, "RequiresAction", Redirected, Nil)

Yaml(doc) == [yaml |-> TRUE, doc |-> doc]
Canonical(value) == [text |-> "canonical", value |-> value]

(* A cassette file with the golden file beside it, if any.                 *)
Entry2(file, golden) == [file |-> file, golden |-> golden]
Sound(outcome) == Entry2(Yaml(Played(outcome)), {Canonical(Holds(outcome))})

EveryEntry ==
  {Sound(outcome) : outcome \in Outcomes}
  \cup {Entry2(Yaml(Played("ok")), golden) :
        golden \in {{}, {Canonical(Holds("declined"))}, {[text |-> "empty", value |-> Nil]},
                    {[text |-> "json", value |-> Holds("ok")]},
                    {[text |-> "other", value |-> Nil]}}}
  \cup {Entry2(Yaml(Nil), {}), Entry2([yaml |-> FALSE, doc |-> Nil], {})}

Provider(manifest_file, slug, entries) ==
  [Absent EXCEPT !.manifest = manifest_file, !.metadata = File(Metadata(slug)),
     !.cassettes = [n \in DOMAIN entries |-> entries[n].file],
     !.expected = [n \in {k \in DOMAIN entries : entries[k].golden # {}} |->
                     CHOOSE g \in entries[n].golden : TRUE]]

Two == "a" :> Sound("ok") @@ "b" :> Sound("declined")
SoundProvider(slug) == Provider(File(Redirecting(slug)), slug, Two)
NativeProvider(slug) ==
  [Provider(Nil, slug, "a" :> Sound("ok")) EXCEPT !.capabilities = File(Capabilities(slug))]

-----------------------------------------------------------------------------
English == [code \in FailureCodes |-> "said"]
Sections == <<1, 2, 3, 4, 5, 6, 7, 8, 9>>

Checkout(providers) ==
  [version |-> TRUE, exponents |-> TRUE, providers |-> providers,
   extensions |-> {".yaml"}, messages |-> "en" :> [language |-> "en", messages |-> English],
   snippets |-> {}, marks |-> EmptyMap, template |-> Sections]

Pairs == {Checkout("a" :> Provider(File(m), "a", "a" :> e @@ "b" :> f)) :
          m \in {Redirecting("a"), Syncing("a")}, e \in EveryEntry, f \in EveryEntry}

Pool ==
  {<<"a", SoundProvider("a")>>,
   <<"b", SoundProvider("a")>>,
   <<"b", [SoundProvider("b") EXCEPT !.manifest = Unheaded(@)]>>,
   <<"b", [SoundProvider("b") EXCEPT !.cassettes = Nil]>>,
   <<"broken", [SoundProvider("broken") EXCEPT !.manifest = Garbled]>>,
   <<"broken", [SoundProvider("broken") EXCEPT !.manifest = Nil]>>,
   <<"broken", [SoundProvider("broken") EXCEPT !.metadata = Garbled]>>,
   <<"broken", [SoundProvider("broken") EXCEPT !.metadata = Nil]>>,
   <<"broken", [Absent EXCEPT !.is_dir = FALSE]>>,
   <<"native", NativeProvider("native")>>,
   <<"native", [NativeProvider("native") EXCEPT !.manifest = Garbled]>>,
   <<"native", [NativeProvider("native") EXCEPT !.metadata = Garbled]>>,
   <<"native", [NativeProvider("native") EXCEPT !.capabilities = Garbled]>>,
   <<"native", [NativeProvider("native") EXCEPT !.expected = EmptyMap]>>,
   <<"_skeleton", [SoundProvider("_skeleton") EXCEPT !.skeleton = TRUE]>>,
   <<"_skeleton", [NativeProvider("_skeleton") EXCEPT !.skeleton = TRUE, !.metadata = Nil]>>,
   <<"unsound", Provider(File(Paying("unsound", Status("Processing"))), "unsound", Two)>>,
   <<"z", SoundProvider("z")>>}

Together(e, f) == Checkout(e[1] :> e[2] @@ f[1] :> f[2])
Collections ==
  {Together(e, f) : e \in Pool, f \in Pool}
  \cup {Checkout(EmptyMap), [Checkout(EmptyMap) EXCEPT !.providers = Nil]}

Swapped(i, j) == [k \in 1 .. 9 |-> IF k = i THEN j ELSE IF k = j THEN i ELSE k]
Templates9 ==
  {Nil, <<>>} \cup {Swapped(i, j) : i \in 1 .. 9, j \in 1 .. 9}
  \cup {RemoveAt(Sections, i) : i \in 1 .. 9}
  \cup {InsertAt(Sections, i, j) : i \in 1 .. 10, j \in 0 .. 9}
  \cup {InsertAt(Swapped(6, 7), i, j) : i \in 1 .. 10, j \in {6, 7}}

Base == Checkout("a" :> SoundProvider("a"))
Silent(code) == [c \in FailureCodes \ {code} |-> "said"]
Sentences ==
  {Nil, EmptyMap, "en" :> Nil, "am" :> [language |-> "en", messages |-> English],
   "en" :> [language |-> "en", messages |-> English @@ "Other" :> "said"],
   "en" :> [language |-> "en", messages |-> [English EXCEPT !["InsufficientFunds"] = " "]],
   "en" :> [language |-> "en", messages |-> English]
     @@ "am" :> [language |-> "am", messages |-> Silent("InsufficientFunds")]}

Surroundings ==
  {[Base EXCEPT !.template = t] : t \in Templates9}
  \cup {[Base EXCEPT !.messages = s] : s \in Sentences}
  \cup {[Base EXCEPT !.version = FALSE], [Base EXCEPT !.exponents = FALSE],
        [Base EXCEPT !.extensions = {".py"}]}
  \cup {[Base EXCEPT !.snippets = {[target |-> target, section |-> section]},
                     !.marks = "file" :> marks] :
        target \in {"file", "gone"}, section \in {"", "s"},
        marks \in {{}, {<<"start", "s">>}, {<<"start", "s">>, <<"end", "s">>}}}

AllRepositories == Pairs \cup Collections \cup Surroundings
AllManifests ==
  {Load(r.providers[p].manifest) : <<r, p>> \in
     {x \in AllRepositories \X DOMAIN MCRank : x[1].providers # Nil
                                            /\ x[2] \in DOMAIN x[1].providers}} \ {Nil}

AllCommandLines ==
  {[name |-> n, args |-> a] :
     n \in {"replay"},
     a \in {<<>>, <<"a">>, <<"a", "--assert-golden">>, <<"--assert-golden", "native">>,
            <<"z", "--assert-golden">>}}
  \cup {[name |-> "validate", args |-> a] : a \in {<<>>, <<"a">>, <<"native">>, <<"z">>}}
  \cup {[name |-> n, args |-> <<>>] :
        n \in {"lint", "catalog", "conformance-integrator", "help", "", "verify"}}
=============================================================================
