# A verification project for the ESIIPayment reference validator

The repository specifies a declarative language for payment providers and holds
one program, the Go tool in `tools/validator`: it checks provider manifests
(`validate`), replays recorded cassettes against them (`replay`), and runs a
provider-blind integrator over the results (`conformance-integrator`). This
directory models that program in TLA+, checks it with TLC and proves what
matters most with TLAPS. Paths below are relative to
`tools/validator/internal/` unless they start with another directory of the
repository.

## 1. Inventory

| part | state it keeps | operations | interacts with |
|---|---|---|---|
| domain model (`model/enums.go`, `types.go`) | none: closed enums, the payload table, the retry table | lookups, `Kind`, `Target`, `NextActionType` | everything |
| manifest checks (`checks/manifest.go`) | the findings; in `checkFlows` the marks and the queue of a search | `validateManifestProvider` and the thirteen checks it calls | decides which manifests the other parts may trust; does not run before `replay` |
| native checks (`checks/native.go`) | the findings | `validateNativeProvider`: fields, metadata, coverage, golden files | shares `checkMetadata` and `checkCassetteCoverage` with the manifest checks |
| lint (`checks/lint.go`) | the findings | five checks: code files, every provider, message catalogues, documentation snippets, the provider template | calls `ValidateProvider` for every provider |
| interpreter (`replay/interp.go`) | `state`, `status`, `nextAction`, `failure`, the current step | `Run`, `dispatch`, `applyEmitState`, `matchError`, `finish` | reads a manifest and a cassette, calls the request assertion once, then the flow |
| request assertion, expressions (`replay/request.go`, `expr/expr.go`) | the text being replaced, the value being walked into, the digits being counted | `buildNamespaces`, `evaluateInterpolation`, `interpolateString`, `resolveBody`, `checkRequestMatch`, `Extract`, `formatMinorUnits` | called by the interpreter at every template |
| results (`replay/canonical.go`) | none | canonical JSON of a `PaymentResult` | golden files |
| integrator (`integrator/integrator.go`) | none | `Handle`, `handleNextAction` | consumes every `PaymentResult` |
| catalog (`catalog/catalog.go`) | the rows | `Generate`, `loadRow`, the two tables | reads manifests, capabilities and metadata |
| commands (`replay/runall.go`, `cmd/esiipayment/main.go`) | the names still to run, the list of results, `failed`, `checkedAny` | `RunAll`, `RunAllResults`, `runReplay`, `runConformanceIntegrator`, `runValidate`, `runLint`, `runCatalog` | loop over directories, cassettes and results; their exit status is what CI reads |
| loading (`model/load.go`, `normalize.go`) | none | strict YAML decoding; which files count, and in which order | files |
| data (`providers/`, `vectors/`, `schema/`, `spec/`) | | | the words and the inputs of all of the above |

The program is sequential: there is no goroutine and no lock, and nothing is
persisted. What is hard about it is elsewhere:

* **an order the source leaves open**: `emit.state` is applied in the order of a
  map iteration, and a template may read a key the same emit writes;
* **a walk without a bound**: `dispatch` follows `goto` for as long as there is one;
* **orders the source fixes and nobody tests**: the check for an interaction
  before the timeout, the body's JSON before `errors[]`, `errors[]` before the
  flow, the entry step's `status_map` before its `status`, `auth.apply` over the
  call's own headers;
* **locals carried over steps**: status, next action and state are patched, so what
  an earlier step left can come back in a later result;
* **static checks that vouch for dynamic facts**: `validate` looks at the text of a
  manifest; `replay` and the integrator rely on what that is supposed to rule out;
* **outcomes that must stay unknown**: a timeout, or a code that says nothing, must
  never be reported as a failure a caller may retry;
* **text that is rewritten while it is read**: interpolations are replaced one after
  the other in a text that already holds earlier results;
* **arithmetic at the edge**: the magnitude of the least integer, a power of ten
  that may wrap, a JSON number that prints with an exponent;
* **loops whose verdict is one exit status**: one cassette that fails, one file that
  is missing or one directory that does not load must neither hide the others nor be
  forgotten by the passes that follow.

What makes each part correct:

* checks: what they accept cannot lead a run to a missing step, past a terminal
  status, to a failure outside the retry table, or to a next action without its
  fields; the reachability search is exact and ends;
* interpreter: it is a function of manifest and cassette; a patch loses nothing;
  a matched error decides the whole result; a timeout is an unknown outcome; a run
  of an acyclic flow returns;
* request assertion: the credential the manifest applies is what is compared;
* expressions: extraction follows the grammar, an amount keeps its value and its
  number of digits, and the order of replacements cannot be seen where values hold no
  braces;
* integrator: it never meets a value outside its closed sets;
* commands: exit status 0 is earned by every cassette; every cassette has its line;
* native checks, lint, catalog: what they vouch for together is there: an operation
  shown for each one announced, a message for each failure, a row for each provider.

## 2. Modules

| module | models | how state and actions correspond to the code |
|---|---|---|
| `DomainModel` | `model/enums.go`, `Kind`, `NextActionType` | the enums are sets, the tables functions; a Go map is a function on its keys |
| `Flows` | the step graph, `FindEntryStep`, the templates of a step | operators on one flow; a nil pointer is `Nil`, an absent string `""` |
| `ManifestChecks` | `checks/manifest.go` | one operator per check, the set of rule names it reports; `Validated(m)` when none is |
| `ReplayRules` | `replay/request.go`, `matchError`, `finish` | what the interpreter computes without changing anything; `Evaluate` is `Nil` where the source returns an error |
| `Interpreter` | `replay/interp.go` | `pc` stands in `Run`/`dispatch`; `step`, `state`, `status`, `nextAction` are its locals, `pending` the keys the range over `emit.state` has still to visit; every early return is a disjunct that ends in `pc = "error"` |
| `FlowWalk` | the same functions, abstractly | one action per step of the flow, all of an emit written at once; `walking` says whether the run is in the flow, `at` where; no choice anywhere |
| `InterpreterRefinement` | | the refinement mapping from `Interpreter` to `FlowWalk`, with an auxiliary variable for the state on arrival at a step |
| `TwoRuns` | | two instances of `Interpreter` over the same arguments |
| `FlowReachability` | the search loop of `checkFlows` | `reachable` and `queue` are the source's variables; one action per round |
| `Amounts` | `formatMinorUnits` | `mag`, `div` and the fraction; one action per round of the loop that builds the power of ten and of the one that pads |
| `Expressions` | `interpolateString`, `Extract`, `evaluateInterpolation`, the path condition of `matchError` | one call: `out` is the text so far, `todo` the interpolations not yet replaced, by their places in the template, `cur` and `rest` the locals of `Extract`; one action per interpolation and per segment; `pc` is that of `Amounts` while an amount is formatted |
| `ExpressionLanguage` | the grammar of `spec/04-expression-language.md`, without loops | a reference definition and the properties that compare `Expressions` with it |
| `Integrator` | `integrator/integrator.go` | `Handle` is `""` or the reason of the refusal |
| `ValidatedReplay` | composes `Interpreter`, `ManifestChecks`, `Integrator` | assumes the manifests validated and states what that buys |
| `Repository` | `model/load.go`, as far as it decides what is read | a directory is a record of its files; a file that is absent is `Nil`, one that is refused has `doc = Nil` |
| `ProviderChecks` | `ValidateProvider` of both kinds: `checks/native.go`, and what `checks/manifest.go` asks of the files beside the manifest | one operator per check, as in `ManifestChecks` |
| `Lint` | `checks/lint.go` | one operator per check; the search for the template's sections (`SearchOn`, `SearchFrom`) is a recursive function on them, as the loop goes from one to the next |
| `Catalog` | `catalog/catalog.go` | `LoadRow`, whether there is a catalog, and the set of orders `sort.Slice` may leave |
| `Commands` | `cmd/esiipayment/main.go`, `replay/runall.go` | one process: `at` stands in the command, `dirs`, `names`, `results` are what its three loops have still before them, `failed` and `checkedAny` are the source's variables, `report` has a record for each line printed. The steps of `Interpreter` are steps of this machine (`Interpret`), `RunCassette` calls it and `Collect` takes what it returns |
| `CommandContract` | | what the exit status and the output may be taken for |
| `DocumentedContract` | sentences of the documents the code does not meet | used by violation runs only |
| `InterpreterProofs`, `ValidatedReplayProofs`, `FlowReachabilityProofs`, `ExpressionsProofs`, `CommandsProofs`, `ResultsProofs`, `CatalogProofs`, `RefinementProofs` | | theorems |
| `MC*` | | finite families of manifests, cassettes, flows, templates, paths and repositories |

### Abstractions

A template (any string leaf of a manifest) is a literal or one reference
`[ns, path, transform]`. A JSON body is the function from the extraction paths that
resolve in it to their values; values are compared, as the source compares them,
by their printed form, and a body that is no JSON is `Nil`. `ApplyTransform` is a
constant: any function from values to values or `Nil`. Wording, order and number
of findings are left out, so a check is a set of rule names. `refresh_at`, a float
between 0 and 1, is in hundredths.

In `Expressions`, where a template is more than one reference, a text is a sequence
of tokens (a word, the raw text of an interpolation, a decimal), a path a sequence of
segments, and a value a record of one field that names its Go type, so that a JSON
number, a YAML integer and a string of the same digits differ. A JSON number is counted in
units of `1 / Grain`, as every float64 is a multiple of a power of two; `Int64` is Go's
conversion, which drops the fraction and makes of a number out of range what the platform
makes of it (`TooSmall`, `TooGreat`). The rounding of numbers above 2^53 happens in
`encoding/json` and is not modelled. Which substrings are interpolations (a regular
expression) and where the loop of `expr.Extract` splits a path are given; a dot with
no name behind it is a segment of its own.

A YAML file is whether its first line is the schema header, and the document it
decodes to; a golden file is the class of its text (empty, no JSON, JSON, canonical)
and its value. Names are ranked by `Rank`, the byte order in which `os.ReadDir` and
`sort.Strings` give them. Commands run at the root of the repository: the search for
it in the directories above, and the optional argument of `lint` and `catalog`, are
left out. `Encodable` is external: whether `json.Marshal` has a form for a value.

In `ManifestChecks` the reachable set is a
fixpoint instead of a loop; `FlowReachability` models the loop, and the run
`reachability` shows that both yield the same set.

### Nondeterminism

Two things in the source depend on Go's map iteration: the order in which
`applyEmitState` visits keys (`PatchKey` takes any pending key) and the order in
which the search appends the targets of a status map (`Orders`). The order in which
fields of a body or a next action are resolved cannot be observed, as resolving one
changes nothing; which of two failures is reported is wording.

## 3. Runs

`tlc -config <cfg> <module>`; all of them together take about three minutes.

| run | what it asks | bounds | states |
|---|---|---|---|
| `validated` | what `validate` rules out for the interpreter and the integrator | all valid ones among 1 800 flows of three steps plus a name that is no step (status maps with two branches, gotos anywhere, five kinds of ending) and all valid ones among 137 `errors[]` lists of up to three entries; 33 cassettes | 38 074 |
| `interpreter` | the interpreter with no validation at all; termination; the request assertion | two-step flows writing two keys from six kinds of template, entered by call or webhook, with and without `status_map`; flows of three steps with cycles and dangling names; 25 cassettes; own headers, applied headers, bodies and paths against recorded ones | 97 031 |
| `expressions` | the loops of the expression language against its grammar and the exact decimal | templates of up to three tokens, paths of up to four segments (nameless ones among them), every amount of ten bits in three currencies as an integer, and JSON numbers whole, fractional and out of range | 153 067 |
| `commands` | every command: its exit status, its output, what it vouches for | one provider with two cassettes of every outcome and golden file; two directories of every kind and state; one provider among sound and unsound messages, snippets, files and templates: 9 180 initial states | 47 378 |
| `refinement` | `Interpreter` implements `FlowWalk` | the families above whose emits do not read what they write | 43 343 |
| `reachability` | the search | those with an entry step among 432 flows of three steps over four names: six kinds of entry, eight and nine of the steps behind it | 1 076 |
| `doc_*` | six sentences the code does not meet | one manifest, or the family of `expressions` | |

Why the bounds are enough. The interpreter reads one interaction, dispatches once
and then walks a chain, so what a longer chain can do beyond a second step is repeat
the same patching and carrying over; three steps hold an entry, a step that leaves
something behind and a step that inherits it, and are the least that have a cycle
not through the entry. Two state keys give every read/write overlap of one emit.
Three `errors[]` entries give the fixed timeout entry and two that may overlap, in
either order. The theorems of section 4 hold for every size. No
counter is capped: the values are finite by themselves, and a run around a cycle
comes back to states it has seen.

In `expressions` the widths are scaled: `Half = 512` stands for 2^63, so signed
integers are all those of ten bits, the least among them; exponents go to 3, the
largest of `vectors/money/exponents.json`; `PlainLimit = 100` stands for 10^6, the least
number `%v` prints with an exponent, so both forms occur in a ten-bit range; `Grain =
2` makes every other JSON number a fraction, and `TooSmall` and `TooGreat` are the least
integer, what amd64 makes of a number out of range; `MaxDepth =
5` is the depth at which no document has anything left. Three tokens are the least in which the result
of one replacement stands before, between or after two others. In `commands` two
cassettes are the least of which one may hide the other, two directories the least of
which one may spoil the other's verdict, and each of the three loops has a failure of
every kind at either place.

### What the passing runs show

* `NoStructuralError`, `TerminalStatusIsLast`, `FailureFollowsTable`,
  `NextActionIsDeclared`, `IntegratorMeetsClosedSets`: each ties a check made on the
  text of a manifest to what no run over it can do (Invariants I2, I3, I4, I10, I12).
* `IntegratorHandles`: what `validate` does *not* ask for, namely that a leaf says how
  the payment stands, is exactly what is missing for the integrator to handle every
  result, payload types aside.
* `MatchedErrorBypassesFlow`, `TransportFailureIsUnknown`: a matched error, or a
  timeout, decides the result whatever the flow says, and leaves the state alone.
* `TypeOK`, `StateIsPatched`: for manifests nobody has validated, no result is
  assembled from a failed run, and no key of the state is lost.
* `CredentialIsAsserted`: the recorded credential is compared with the one
  `auth.apply` resolves to, whatever headers the call declares.
* `ImplementsWalk`: the map iteration cannot be observed as long as no emit reads what
  it writes; over such manifests replay is a function of its inputs.
* `AmountIsExact`: a formatted amount reads back as the very amount, the least integer
  included, with one digit for each place of the exponent.
* `ExtractFollowsGrammar`: a path of the grammar resolves to what the document holds
  there, and fails only if it holds nothing; the one exception is the projection of an
  empty array. Paths outside the grammar (a dot with no name behind it) are walked too, and
  the property says nothing of them.
* `SubstitutionIsSimultaneous`: replacing interpolations one after another gives what
  replacing them at once gives, as long as no value holds the text of an interpolation
  that is replaced later (`NothingCaptured`) and every amount that is a JSON number is an
  integer in range (`AmountsAreWhole`). Both hypotheses leave out calls the code gets
  wrong by its documents; they are listed below.
* `ExitIsEarned`, `EveryCassetteIsReported`: exit status 0 of `replay` and
  `conformance-integrator` is earned by every cassette of every directory they have to
  replay, and no failure hides a line or is forgotten. A native directory and one
  without cassettes have nothing to earn it by, and pass.
* `EveryOperationIsShown`, `EveryOperationIsHandled`, `EveryFailureHasMessage`,
  `LintVouchesForCatalog`: what two checks buy together, each made on its own: `validate`
  with `replay --assert-golden`, lint with `conformance-integrator` (which by itself may
  succeed with nothing replayed), the manifests' codes with the messages, lint with the
  catalog.
* `TemplateInOrder`: the greedy search for the nine sections finds them exactly when
  they can be read in their order.
* `Returns`, `SearchEnds`, `CallEnds`, `CommandEnds`: liveness, see below.
* `QueuedOnce`, `Frontier`, `SearchIsExact`, `FixpointIsSearch`: `unreachable-step` is
  reported for exactly the steps that no path from the entry step reaches.

### Fairness

`Interpreter`, `FlowReachability`, `Expressions` and `Commands` assume weak fairness of
their whole next-state relation: one goroutine runs the code and nothing in it waits
for anything, so a step that can be taken is taken. The
actions are disjoint apart from the map iteration, whose every order is finite, so
nothing stronger is needed. `Returns` is conditional on the flow having no goto
cycle, and `doc_EveryRunEnds` shows that without the condition it fails under the
same fairness; `CommandEnds` has the same condition on every manifest of the repository.
The actions `Finished` and `Exited` stutter, so that a run that has ended is no
deadlock; deadlock is checked in every run.

### What the violation runs show

| run | the document | the code |
|---|---|---|
| `doc_ResultIsWellFormed` | `spec/01-domain-model.md:320`: no next action with a terminal status | `replay/interp.go:196` keeps an earlier step's |
| `doc_SecondDispatchIsAnError` | the comment at `replay/interp.go:19` | a second call or status map is passed over (`:202`) |
| `doc_EveryRunEnds` | `docs/tutorials/modify-the-spec/02-rule-of-least-power.md:3`: no loops | a goto cycle passes `validate` and is walked for ever (`:184`) |
| `doc_HttpStatusIgnoresBody` | `vectors/errors/match-kinds.json:59` | the body is parsed first (`:97`) |
| `doc_Deterministic` | `spec/04-expression-language.md:128` | the map iteration can be observed (`:238`) |
| `doc_EqualsNeverCoerces` | `vectors/expressions/conditions.json:32`: `==` never coerces, a number never equals the string of its digits | the printed forms are compared (`:222`); TLC shows it with the string `"true"` against the boolean `true` |

Differences met while modelling that no run of their own checks, because the
modules already show what the code does: `failure` is nil for a leaf that emits `Failed`
(`spec/01-domain-model.md:328`); `validate` does not ask leaves for a terminal
status (`spec/03-manifest-dsl.md:382`); an entry step with a `status_map` drops its
emitted status (`docs/tutorials/build-a-runtime/07-interpreter.md:95`); a timeout
cassette with no interaction is refused (`schema/cassette.v1.schema.json:101`);
a path entry and a status entry of `errors[]` may match one response
(`spec/03-manifest-dsl.md:427`); `extract` is admitted in the request that precedes
the response, and `event` is admitted but never provided
(`spec/04-expression-language.md:82-93`). In the expression language: the projection of
an empty array is a nil slice, which prints as `null` where the vectors expect `[]`
(`vectors/expressions/extraction.json:114`); segments after `[*].b` are dropped without an error, and `[*].` with no name
resolves over an empty array; a JSON number
of a million or more prints as `1e+06`, and so misses the entry of a status map or of
`errors[]` written with its digits; `amount_major` drops the fraction of a JSON number
without an error, and a number out of range becomes what the platform makes of it, where
`vectors/money/conversions.json:2` has the transform exact and `spec/03-manifest-dsl.md:484`
has it take integers; a value that holds the text of a later interpolation is rewritten; a template that mixes text and interpolations
is replaced in paths and headers and left as it stands in bodies and emits. In the
commands: `replay --assert-golden` reports every cassette, each mismatch with what it got
and what was expected, where `spec/06-conformance.md:83-85` has it fail "on the first
byte-level mismatch, printing a diff" (the usage text, `cmd/esiipayment/main.go:64`, says
what the code does, and `EveryCassetteIsReported` states that); `conformance-integrator`
counts a provider as checked before it replays it (`main.go:236`), so providers
without cassettes are enough for status 0; the slug in a manifest is never compared with the name of its directory
(`spec/03-manifest-dsl.md:40`); a `capabilities.yaml` beside a `manifest.yaml` hides the
manifest from every command; cassettes with the extension `.yml` are passed over; a
golden file without a cassette goes unnoticed; `replay` of a provider without cassettes
succeeds. None of the manifests under `providers/` runs into one of these.

## 4. Proofs

`tlapm <module>` checks all obligations of the eight proof modules. Every safety
property of the passing runs, and the refinement, is a theorem.

**`InterpreterProofs`**, for every set of manifests, *valid or not*, and every set
of cassettes. The invariants are not inductive: that a timeout's result still has the
cassette's state needs that nothing has been patched by then, and that needs to know
which early returns are behind. `Inv` adds to them `Prepared` (past `prepare` the
operation has a flow with an entry step), `Untouched` (before the flow the state is
the cassette's) and `Routed` (which `pc` a webhook, a timeout and a matched error can
reach). One lemma per action shows that it keeps `Inv`; the helpers `Fail`, `Enter`,
`Goto` and `Return` have theirs, cited by the actions that use them. From
`Invariance` follow `TypeCorrectness`, `StatePatching`, `UnknownOutcome` and
`ErrorPrecedence`; the last needs that the least of a set of indices exists, proved
from the well-foundedness of the naturals. `CredentialAssertion` is a second,
smaller induction that uses `Inv`.

**`ValidatedReplayProofs`**, for every set of validated manifests. Lemmas take the
checks apart (`ValidFlow`, `ValidOperations`, `ValidErrors`, `ValidPayload`): what
`Validated(m)` says of a step, an entry or a payload. `ValidInv` then carries along a
run that the step's targets exist, that no terminal status has been emitted while a
step is left, and that the next action held, perhaps from an earlier step, is
declared. `StructureIsSound`, `TerminalIsLast`, `FailuresFollowTable`,
`NextActionsAreDeclared` and `IntegratorIsClosed` follow. `ResultsAreHandled` is a second
induction beside it: a run returns in three places only, and what it returns there, if
its leaves speak, is something the integrator can act on. This is the sense in which
`validate` is sound: not on a sample of flows but for every manifest it accepts.

**`FlowReachabilityProofs`**, for every family of finite flows with an entry step.
`SearchInv` says that the queue is a sequence of marked names without repetition,
that marked names no longer queued have all their successors marked, and that every
closed set around the entry step holds every mark. `EachNameOnce` and `NothingIsLost` are
conjuncts of it; `ExactSearch` is
what remains when the queue is empty. `SearchIsFixpoint` then identifies the marks with the
recursive function the checks use in place of the loop: the levels of that function
grow, each is inside every closed set around the entry step, and as there are no more
levels that grow than names, the last one is closed.

**`ExpressionsProofs`**, for every set of calls and every table of interpolations. Three
inductions, each along one of the loops of a call.

* `ExactAmounts`, for integers of every width and every table of exponents whose powers of
  ten fit it. `FormatInv` says what each loop of `formatMinorUnits` has computed so far: the
  magnitude is the size of the amount (also for the least integer, where the source adds
  one after it has negated), the divisor is the power of ten of the rounds so far, whole
  part and fraction recompose the size, and the fraction is written with at most the
  exponent's digits, then with exactly those.
* `ExtractionFollowsGrammar`. `LookupInv` places the loop of `Extract` in its path: the
  segments behind it are a route of the document that ends at `cur`, `rest` are those
  before it, and the root and the path stay those of the interpolation at hand. What it
  rests on are lemmas about routes: a route goes on along every segment that leads
  somewhere (`RouteFacts`), is determined by its path (`RouteOfPath`), and passes every
  prefix of it (`RoutePrefixes`), so a segment that leads nowhere belongs to a path that
  denotes nothing (`DeadEnd`).
* `InterpolationSubstitutes`. `MeaningInv` says that what is about to replace an
  interpolation is its meaning in the reference definition, through `Extract` (by
  `LookupInv`), a transform, or `formatMinorUnits` (by `FormatInv`, whose whole part and
  fraction are now pinned to the quotient and the remainder). `SubstitutionInv` says of
  the text so far, where nothing is captured: up to some token it is the pieces of the
  tokens passed, put together; behind that it is the template; the interpolations behind
  it are those left to replace; and none of their texts is in what has been passed. So
  the leftmost occurrence of the next one is at its own place (`ReplacesBehind`).
  `NothingCaptured` and `AmountsAreWhole` are hypotheses about the values of a call, and the
  property is about the calls that meet them: the meaning of an amount is the integer the
  number is, not what the code's conversion makes of it (`OneInteger`).

The recursions these properties are stated with (`Routes`, `FlattenSeq`, the levels of the
fixpoint, the sections of the template) are recursive functions; that each has a
solution, and what it computes, is shown from the least index at which it would fail.

**`CommandsProofs`**, for every set of repositories and of command lines, *whatever the
interpreter makes of a cassette*. What is to be shown speaks of the end of the process,
so `CommandInv` says at each point of the three loops where each cassette is: `Covered`
(every cassette of a directory already opened has a line, or waits among `results`, or
among `names`; a directory that does not load has set `failed`), `Ordered` (lines
before results before names, by rank), `Judged` (a line that passes shows what it
should, and one that does not is remembered in `failed`), `Placed` and `Concluded`
(what stands at each `at`, and what the exit status rests on). `Resting` adds that the
interpreter is at work only for the first of the names, so that `Collect` files the
result under its own cassette. `EarnedExit` and `CassettesReported` follow.

**`ResultsProofs`** carries the static checks to the lines of a replay. `Traced` says of
the run at hand, of each result and of each line that it stems from its own cassette and
its own provider's manifest: the operation is the cassette's, and a failure is one that
`errors[]` lists. With what lint says of the codes of a manifest and of the messages one
by one, `FailuresHaveMessages` follows; with `checkCassetteCoverage` and `EarnedExit`
(`OperationHasLine`), `OperationsAreShown` and `OperationsAreHandled`. The latter also
takes from lint that each provider has been validated (`LintedSubject`), and so declares an
operation (`DeclaresOperations`).

**`CatalogProofs`**: `LintedCatalog`. Lint and the catalog read the same files in their own
ways; a directory without findings has a row, metadata, and operations that all have a
column (`SoundDirectory`), so there is a catalog, and a list that has each of finitely
many directories at most once and as many places as there are has each of them
(`ListedOnce`). `TemplateOrder`: the greedy search takes the first heading that starts as
the section does behind the one before (`FoundAfterIsFirst`), so it stands no later than
any other reading in order (`SearchReadsInOrder`), and misses a section only when there
is none; no other check reports that rule (`OnlyTheTemplate`).

**`RefinementProofs`**, for every set of manifests whose emits do not read what they write:
`InterpreterImplementsWalk`. `Simulation` adds to `Inv` that the request assertion's early
returns are behind (`Admitted`), and that in the flow the state is the one on arrival with
the keys visited so far patched, each with the value the walk gives it (`PatchedSoFar`).
A template of an `emit.state` then reads the same in both, as it reads no key of its own
emit. Each action of `Interpreter` is a step of `FlowWalk` or a stutter.

Three theorems, `ResultsAreHandled`, `LintedCatalog` and `TemplateOrder`, take `NilIsNoMap` as a hypothesis:
`Nil`, a constant, is not a function. It stands for Go's nil, which is no struct and no
map; TLC's model value satisfies it.

Assumptions on the constants, each evaluated by TLC in the runs of the module that
declares it: `ErrorsAreLists` (`errors[]` is a slice), `ManifestsValidated` (the manifests
of `ValidatedReplay` passed the checks), `FlowsAreFinite` (a Go map is finite),
`FlowsHaveEntry` (the search runs only then, `checks/manifest.go:318`), `PowersFit` and
`ExponentsFit` (the powers of ten of `vectors/money/exponents.json` are unsigned
integers), `RanksAreDistinct` (two file names differ in the byte order), `NamesAreRanked`
(every name of a repository has its place in it), `DirectoriesAreFinite`,
`ManifestsAreLoaded` (what the interpreter is given is what is loaded),
`TemplatesAreHeadings` (a template is a sequence of headings), `StatesAreMaps` (the state of
a cassette is a map) and `OrderNeverMatters` (the manifests of the refinement, and only
they, read no key an emit writes). For the expressions: `DocumentsAreShallow` (JSON and YAML
nest finitely deep; `MaxDepth` is any such depth), `DocumentsHoldValues` (a value has one Go
type, and a slice is a sequence), `ConversionsAreSigned` (`Grain` is positive, and an int64
is an int64 whatever the platform makes it of), `PathsAreSegments` and
`InterpolationsNameFields` (where the loop of `expr.Extract` splits a path, and what the
interpolation's regular expression yields), `TemplatesAreParsed` (every
interpolation of a template is in the table) and `TransformsReturnOneText` (a transform
returns one string or an error).

**Only model-checked.** `Returns`, `SearchEnds`, `CallEnds` and `CommandEnds` are liveness
under fairness, out of reach of the prover. That a document sentence is *not* met is
shown by the violation runs alone. The proofs are about the modules: what abstracts the
source (section 2) is as given for them as for TLC.

## 5. Not modelled

* the decoding of YAML: which texts the strict decoder refuses, and the types it gives
  to scalars, belong to a library; the modules start from decoded documents and from
  the fact that a file was refused. `normalize.go` makes maps with string keys of maps
  with any keys; the models have one kind of map from the start (two keys that print
  alike, `1` and `"1"`, would fall together there);
* the text that regular expressions and parsers take apart: what an interpolation, a path
  or a snippet marker looks like. `sha256`, `hmac` and `base64` are any functions;
* layout: canonical JSON's order of keys, the Markdown of the catalog, the wording, order
  and number of findings;
* the walk to the root of the repository, and a root given to `lint` and `catalog`;
* webhook signatures, token refresh, capabilities limits: the tool checks that they are
  declared and does nothing with them;
* the manifests and cassettes under `providers/`, and the SDKs: data, and code of other
  repositories. The instances checked are smaller manifests of the same shapes.

## 6. Plan

Done: the interpreter, its checks and the integrator, with the abstract walk it
implements and the reachability search; the loops of the expression language against
its grammar; the commands over a repository, with native checks, lint and catalog; the
soundness of `validate`, the exactness of amounts, extraction and substitution in the
expression language, the refinement, and the safety of the commands as theorems.

Left, in this order:

1. replay as a function: two runs of `TwoRuns` over a manifest of the refinement end with
   the same result, from the two simulations;
2. the measures that make the loops end (`Returns`, `CallEnds`) as action properties, so
   that only the fairness is left to TLC.
