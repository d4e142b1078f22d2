-------------------------- MODULE RefinementProofs --------------------------
(***************************************************************************)
(* The interpreter implements the walk of FlowWalk over every set of       *)
(* manifests whose emits do not read what they write: every action of the  *)
(* interpreter is a step of the walk or leaves it where it is.             *)
(***************************************************************************)
EXTENDS InterpreterRefinement, InterpreterProofs

(* The keys of the step's emit.state that are in the state by now, and the *)
(* value the walk gives them, which the state on arrival determines.       *)
Applied == EmitKeys(Flow[step]) \ pending
Given(k) == Evaluate(Flow[step].emit.state[k], NS, arrival, Doc)

(* Past the request assertion, and past the receipt of a response, the     *)
(* walk has no early error left to answer with.                            *)
Admitted ==
  /\ pc = "response" => cassette.interactions # <<>> /\ ~ Abstract!RequestDiffers
  /\ pc = "errors" => Abstract!EarlyError = ""

(* In the flow the state is the one of the arrival with the applied keys   *)
(* patched, each of them resolved.                                         *)
PatchedSoFar ==
  pc = "patch" =>
    /\ \A k \in Applied : Given(k) # Nil
    /\ state = [k \in DOMAIN arrival \cup Applied |->
                  IF k \in Applied THEN Given(k) ELSE arrival[k]]
    /\ arrival = [k \in DOMAIN arrival |-> arrival[k]]

Simulation == Inv /\ cassette \in Cassettes /\ Admitted /\ PatchedSoFar

-----------------------------------------------------------------------------
(* The instance has rules of its own: they are the interpreter's.          *)
LEMMA SameEvaluate ==
  ASSUME NEW t, NEW ns, NEW st, NEW doc
  PROVE  Abstract!Evaluate(t, ns, st, doc) = Evaluate(t, ns, st, doc)
BY DEF Abstract!Evaluate, Abstract!Transformed, Abstract!Source, Abstract!EmptyMap,
       Evaluate, Transformed, Source, EmptyMap

LEMMA SameEvaluateAll ==
  ASSUME NEW map, NEW ns, NEW st, NEW doc
  PROVE  Abstract!EvaluateAll(map, ns, st, doc) = EvaluateAll(map, ns, st, doc)
BY SameEvaluate DEF Abstract!EvaluateAll, EvaluateAll

LEMMA SameResolved == ASSUME NEW map PROVE Abstract!Resolved(map) <=> Resolved(map)
BY DEF Abstract!Resolved, Abstract!ValuesOf, Resolved, ValuesOf

LEMMA SameRequestMatches ==
  ASSUME NEW call, NEW req, NEW ns, NEW st, NEW auth
  PROVE  Abstract!RequestMatches(call, req, ns, st, auth)
           <=> RequestMatches(call, req, ns, st, auth)
<1>1. Abstract!EmptyMap = EmptyMap /\ Abstract!ApplyHeader(auth) = ApplyHeader(auth)
  BY DEF Abstract!EmptyMap, EmptyMap, Abstract!ApplyHeader, ApplyHeader
<1>2. Abstract!CallHeaders(call, auth) = CallHeaders(call, auth)
  BY <1>1 DEF Abstract!CallHeaders, CallHeaders
<1> QED
  BY <1>1, <1>2, SameEvaluate, SameEvaluateAll, SameResolved
  DEF Abstract!RequestMatches, RequestMatches

LEMMA SameEntryStep ==
  ASSUME NEW flow
  PROVE  /\ Abstract!EntryStep(flow) = EntryStep(flow)
         /\ Abstract!HasEntryStep(flow) <=> HasEntryStep(flow)
<1>1. Abstract!EntrySteps(flow) = EntrySteps(flow)
  BY DEF Abstract!EntrySteps, EntrySteps, Abstract!Targeted, Targeted,
         Abstract!Successors, Successors, Abstract!GotoTargets, GotoTargets,
         Abstract!StatusMapTargets, StatusMapTargets, Abstract!ValuesOf, ValuesOf
<1> QED
  BY <1>1 DEF Abstract!EntryStep, EntryStep, Abstract!HasEntryStep, HasEntryStep

LEMMA SamePrepareError ==
  ASSUME NEW m, NEW cas
  PROVE  Abstract!PrepareError(m, cas) = PrepareError(m, cas)
BY SameEntryStep DEF Abstract!PrepareError, PrepareError

LEMMA SameMatching ==
  ASSUME NEW errors, NEW doc, NEW http
  PROVE  /\ Abstract!Matching(errors, doc, http) = Matching(errors, doc, http)
         /\ Abstract!FirstMatch(errors, doc, http) = FirstMatch(errors, doc, http)
BY DEF Abstract!Matching, Matching, Abstract!FirstMatch, FirstMatch,
       Abstract!ErrorMatches, ErrorMatches, Abstract!Kind, Kind

LEMMA SameResults ==
  ASSUME NEW cas, NEW st, NEW stat, NEW na, NEW failure, NEW entry
  PROVE  /\ Abstract!PaymentResult(cas, st, stat, na, failure)
              = PaymentResult(cas, st, stat, na, failure)
         /\ Abstract!ErrorOutcome(cas, st, entry) = ErrorOutcome(cas, st, entry)
         /\ Abstract!SyntheticPoll = SyntheticPoll
<1>1. Abstract!SyntheticPoll = SyntheticPoll
  BY DEF Abstract!SyntheticPoll, SyntheticPoll, Abstract!DefaultPollIntervalMs,
         DefaultPollIntervalMs
<1>2. ASSUME NEW s, NEW n, NEW f
      PROVE  Abstract!PaymentResult(cas, st, s, n, f) = PaymentResult(cas, st, s, n, f)
  BY DEF Abstract!PaymentResult, PaymentResult
<1> QED
  BY <1>1, <1>2 DEF Abstract!ErrorOutcome, ErrorOutcome, Abstract!Failure, Failure

LEMMA SameEmits ==
  ASSUME NEW s
  PROVE  /\ Abstract!EmitStatus(s) = EmitStatus(s)
         /\ Abstract!EmitNextAction(s) = EmitNextAction(s)
BY DEF Abstract!EmitStatus, EmitStatus, Abstract!EmitNextAction, EmitNextAction

LEMMA SameRun ==
  /\ Abstract!Flow = Flow /\ Abstract!NS = NS /\ Abstract!Doc = Doc
  /\ Abstract!Interaction = Interaction /\ Abstract!EmptyMap = EmptyMap
BY DEF Abstract!Flow, Flow, Abstract!NS, NS, Abstract!Doc, Doc, Abstract!Webhook,
       Abstract!Interaction, Interaction, Abstract!Namespaces, Namespaces, Abstract!Put, Put,
       Abstract!EmptyMap, EmptyMap

-----------------------------------------------------------------------------
(* What the walk answers without entering the flow.                        *)
LEMMA RequestDiffersIs ==
  Abstract!RequestDiffers <=>
    /\ Flow[Entry].call # Nil
    /\ ~ RequestMatches(Flow[Entry].call, Interaction.request, NS, cassette.state,
                        manifest.auth)
BY SameRun, SameEntryStep, SameRequestMatches DEF Abstract!RequestDiffers, Entry

LEMMA EarlyErrorIs ==
  Abstract!EarlyError =
    IF PrepareError(manifest, cassette) # "" THEN PrepareError(manifest, cassette)
    ELSE IF cassette.operation = "webhook"
    THEN IF cassette.inbound_webhook = Nil THEN "no-inbound-webhook"
         ELSE IF Doc = Nil THEN "body-not-json" ELSE ""
    ELSE IF cassette.interactions = <<>> THEN "no-interactions"
    ELSE IF Abstract!RequestDiffers THEN "request-mismatch"
    ELSE IF cassette.transport_failure THEN ""
    ELSE IF Interaction.response = Nil THEN "no-response"
    ELSE IF Doc = Nil THEN "body-not-json" ELSE ""
BY SameRun, SamePrepareError DEF Abstract!EarlyError, Abstract!Webhook

LEMMA FailsAtOnce ==
  ASSUME pc \in {"prepare"} \cup BeforeFlow, Abstract!EarlyError # "",
         Fail(Abstract!EarlyError), result = Nil, arrival' = arrival
  PROVE  Abstract!AnswerAtOnce
<1> DEFINE reason == Abstract!EarlyError
<1>1. /\ pc \notin {"patch", "done", "error"} /\ pc' = "error" /\ error' = reason
      /\ UNCHANGED <<manifest, cassette, status, nextAction>>
  BY DEF Fail, Locals, BeforeFlow
<1> HIDE DEF reason
<1>2. Abstract!Settle(Abstract!Failed(reason))
  BY <1>1 DEF Abstract!Settle, Abstract!Failed
<1> QED
  BY <1>1, <1>2 DEF Abstract!AnswerAtOnce, Abstract!Running, reason

LEMMA ReturnsAtOnce ==
  ASSUME pc \in BeforeFlow, NEW outcome, Return(outcome), error = "", arrival' = arrival
  PROVE  Abstract!Settle(Abstract!Answer(outcome))
<1>1. /\ pc \notin {"patch", "done", "error"} /\ pc' = "done" /\ result' = outcome
      /\ UNCHANGED <<manifest, cassette, status, nextAction>>
  BY DEF Return, Locals, BeforeFlow
<1> QED
  BY <1>1 DEF Abstract!Settle, Abstract!Answer

LEMMA EntersFlow ==
  ASSUME Simulation, pc \in BeforeFlow, Abstract!EarlyError = "", ~ Abstract!TimedOut,
         Abstract!ErrorEntries = {}, Enter(Entry), UNCHANGED <<status, nextAction>>,
         arrival' = state
  PROVE  Abstract!EnterFlow
<1>1. /\ pc \notin {"patch", "done", "error"} /\ pc' = "patch" /\ step' = Entry
      /\ UNCHANGED <<manifest, cassette>> /\ arrival' = cassette.state
  BY DEF Enter, BeforeFlow, Simulation, Inv, Untouched
<1> QED
  BY <1>1, SameRun, SameEntryStep DEF Abstract!EnterFlow, Abstract!Running, Entry

-----------------------------------------------------------------------------
(* Before the flow.                                                        *)
LEMMA PrepareFailsMaps ==
  ASSUME Simulation, PrepareFails, arrival' = arrival PROVE Abstract!AnswerAtOnce
<1>1. pc = "prepare" /\ result = Nil /\ Abstract!EarlyError = PrepareError(manifest, cassette)
  BY EarlyErrorIs DEF PrepareFails, Simulation, Inv, TypeOK
<1> QED
  BY <1>1, FailsAtOnce DEF PrepareFails

(* The walk stays where it is while the run only moves on in Run.          *)
LEMMA Stays ==
  ASSUME pc \in {"prepare"} \cup BeforeFlow, pc' \in BeforeFlow, arrival' = arrival,
         UNCHANGED <<manifest, cassette, status, nextAction>>
  PROVE  UNCHANGED Abstract!vars
BY DEF BeforeFlow, Abstract!vars

LEMMA PrepareMaps ==
  ASSUME Prepare, arrival' = arrival PROVE UNCHANGED Abstract!vars
BY Stays DEF Prepare, BeforeFlow

LEMMA ReceiveWebhookMaps ==
  ASSUME Simulation, ReceiveWebhook,
         arrival' = IF pc' = "patch" THEN state ELSE arrival
  PROVE  Abstract!Next
<1>1. /\ pc = "webhook" /\ cassette.operation = "webhook" /\ result = Nil
      /\ PrepareError(manifest, cassette) = ""
  BY DEF ReceiveWebhook, Simulation, Inv, Routed, TypeOK, Prepared, PastPrepare
<1>2. Abstract!EarlyError = IF cassette.inbound_webhook = Nil THEN "no-inbound-webhook"
                            ELSE IF Doc = Nil THEN "body-not-json" ELSE ""
  BY <1>1, EarlyErrorIs
<1>3. CASE cassette.inbound_webhook = Nil \/ Doc = Nil
  <2>1. Fail(Abstract!EarlyError) /\ Abstract!EarlyError # ""
    BY <1>2, <1>3 DEF ReceiveWebhook
  <2> QED
    BY <1>1, <2>1, FailsAtOnce DEF Fail, BeforeFlow, Abstract!Next
<1>4. CASE cassette.inbound_webhook # Nil /\ Doc # Nil
  <2>1. /\ Enter(Entry) /\ UNCHANGED <<status, nextAction>> /\ pc' = "patch"
        /\ Abstract!EarlyError = ""
    BY <1>2, <1>4 DEF ReceiveWebhook, Enter
  <2>2. ~ Abstract!TimedOut /\ Abstract!ErrorEntries = {}
    BY <1>1 DEF Abstract!TimedOut, Abstract!ErrorEntries, Abstract!Webhook
  <2> QED
    BY <1>1, <2>1, <2>2, EntersFlow DEF BeforeFlow, Abstract!Next
<1> QED
  BY <1>3, <1>4

LEMMA NoInteractionMaps ==
  ASSUME Simulation, NoInteraction, arrival' = arrival PROVE Abstract!AnswerAtOnce
<1>1. /\ pc = "request" /\ cassette.operation # "webhook" /\ result = Nil
      /\ PrepareError(manifest, cassette) = "" /\ cassette.interactions = <<>>
  BY DEF NoInteraction, Simulation, Inv, Routed, TypeOK, Prepared, PastPrepare
<1>2. Abstract!EarlyError = "no-interactions"
  BY <1>1, EarlyErrorIs
<1> QED
  BY <1>1, <1>2, FailsAtOnce DEF NoInteraction, BeforeFlow

LEMMA AssertRequestMaps ==
  ASSUME Simulation, AssertRequest, arrival' = arrival
  PROVE  Abstract!AnswerAtOnce \/ UNCHANGED Abstract!vars
<1>1. /\ pc = "request" /\ cassette.operation # "webhook" /\ result = Nil
      /\ PrepareError(manifest, cassette) = "" /\ cassette.interactions # <<>>
      /\ state = cassette.state
  BY DEF AssertRequest, Simulation, Inv, Routed, TypeOK, Prepared, PastPrepare, Untouched,
         BeforeFlow
<1>2. CASE Abstract!RequestDiffers
  <2>1. Abstract!EarlyError = "request-mismatch" /\ Fail("request-mismatch")
    BY <1>1, <1>2, EarlyErrorIs, RequestDiffersIs DEF AssertRequest
  <2> QED
    BY <1>1, <2>1, FailsAtOnce DEF BeforeFlow
<1>3. CASE ~ Abstract!RequestDiffers
  <2>1. Goto("response")
    BY <1>1, <1>3, RequestDiffersIs DEF AssertRequest
  <2> QED
    BY <1>1, <2>1, Stays DEF Goto, Locals, BeforeFlow
<1> QED
  BY <1>2, <1>3

LEMMA TransportFailureMaps ==
  ASSUME Simulation, TransportFailure, arrival' = arrival PROVE Abstract!AnswerAtOnce
<1> DEFINE outcome == PaymentResult(cassette, state, "Processing", SyntheticPoll, Nil)
<1>1. /\ pc = "response" /\ cassette.operation # "webhook" /\ error = ""
      /\ PrepareError(manifest, cassette) = "" /\ cassette.interactions # <<>>
      /\ state = cassette.state /\ cassette.transport_failure /\ ~ Abstract!RequestDiffers
      /\ Return(outcome)
  BY DEF TransportFailure, Simulation, Inv, Routed, TypeOK, Prepared, PastPrepare,
         Untouched, BeforeFlow, Admitted
<1>2. Abstract!EarlyError = "" /\ Abstract!TimedOut
  BY <1>1, EarlyErrorIs DEF Abstract!TimedOut, Abstract!Webhook
<1>3. Abstract!PaymentResult(cassette, cassette.state, "Processing",
                             Abstract!SyntheticPoll, Nil) = outcome
  BY <1>1, SameResults
<1> HIDE DEF outcome
<1>4. Abstract!Settle(Abstract!Answer(outcome))
  BY <1>1, ReturnsAtOnce DEF BeforeFlow
<1>5. Abstract!Running = [answered |-> FALSE] /\ pc \notin {"done", "error", "patch"}
  BY <1>1 DEF Abstract!Running
<1> QED
  BY <1>2, <1>3, <1>4, <1>5 DEF Abstract!AnswerAtOnce

LEMMA ReceiveResponseMaps ==
  ASSUME Simulation, ReceiveResponse, arrival' = arrival
  PROVE  Abstract!AnswerAtOnce \/ UNCHANGED Abstract!vars
<1>1. /\ pc = "response" /\ cassette.operation # "webhook" /\ result = Nil
      /\ PrepareError(manifest, cassette) = "" /\ cassette.interactions # <<>>
      /\ ~ cassette.transport_failure /\ ~ Abstract!RequestDiffers
  BY DEF ReceiveResponse, Simulation, Inv, Routed, TypeOK, Prepared, PastPrepare, Admitted
<1>2. Abstract!EarlyError = IF Interaction.response = Nil THEN "no-response"
                            ELSE IF Doc = Nil THEN "body-not-json" ELSE ""
  BY <1>1, EarlyErrorIs
<1>3. CASE Interaction.response = Nil \/ Doc = Nil
  <2>1. Fail(Abstract!EarlyError) /\ Abstract!EarlyError # ""
    BY <1>2, <1>3 DEF ReceiveResponse
  <2> QED
    BY <1>1, <2>1, FailsAtOnce DEF BeforeFlow
<1>4. CASE Interaction.response # Nil /\ Doc # Nil
  <2>1. Goto("errors")
    BY <1>4 DEF ReceiveResponse
  <2> QED
    BY <1>1, <2>1, Stays DEF Goto, Locals, BeforeFlow
<1> QED
  BY <1>3, <1>4

LEMMA ErrorEntriesAre ==
  ASSUME cassette.operation # "webhook" PROVE Abstract!ErrorEntries = MatchingEntries
BY SameRun, SameMatching DEF Abstract!ErrorEntries, MatchingEntries, Abstract!Webhook

LEMMA MatchErrorMaps ==
  ASSUME Simulation, MatchError, arrival' = arrival PROVE Abstract!AnswerAtOnce
<1> DEFINE first == manifest.errors[FirstMatch(manifest.errors, Doc,
                                               Interaction.response.status)]
           outcome == ErrorOutcome(cassette, state, first)
<1>1. /\ pc = "errors" /\ cassette.operation # "webhook" /\ error = ""
      /\ ~ cassette.transport_failure /\ state = cassette.state
      /\ Abstract!EarlyError = "" /\ MatchingEntries # {} /\ Return(outcome)
  BY DEF MatchError, Simulation, Inv, Routed, TypeOK, Untouched, BeforeFlow, Admitted
<1>2. ~ Abstract!TimedOut /\ Abstract!ErrorEntries # {}
  BY <1>1, ErrorEntriesAre DEF Abstract!TimedOut
<1>3. Abstract!FirstError = first
  BY SameRun, SameMatching DEF Abstract!FirstError
<1> HIDE DEF first
<1>4. Abstract!ErrorOutcome(cassette, cassette.state, Abstract!FirstError) = outcome
  BY <1>1, <1>3, SameResults
<1> HIDE DEF outcome
<1>5. Abstract!Settle(Abstract!Answer(outcome))
  BY <1>1, ReturnsAtOnce DEF BeforeFlow
<1>6. Abstract!Running = [answered |-> FALSE] /\ pc \notin {"done", "error", "patch"}
  BY <1>1 DEF Abstract!Running
<1> QED
  BY <1>1, <1>2, <1>4, <1>5, <1>6 DEF Abstract!AnswerAtOnce

LEMMA NoErrorMatchesMaps ==
  ASSUME Simulation, NoErrorMatches, arrival' = state PROVE Abstract!EnterFlow
<1>1. /\ pc = "errors" /\ cassette.operation # "webhook" /\ ~ cassette.transport_failure
      /\ Abstract!EarlyError = "" /\ MatchingEntries = {}
      /\ Enter(Entry) /\ UNCHANGED <<status, nextAction>>
  BY DEF NoErrorMatches, Simulation, Inv, Routed, Admitted
<1>2. ~ Abstract!TimedOut /\ Abstract!ErrorEntries = {}
  BY <1>1, ErrorEntriesAre DEF Abstract!TimedOut
<1> QED
  BY <1>1, <1>2, EntersFlow DEF BeforeFlow

-----------------------------------------------------------------------------
(* Inside the flow: the state the step leaves is the one the interpreter   *)
(* has patched together.                                                   *)
LEMMA WrittenIs ==
  ASSUME pc = "patch"
  PROVE  /\ DOMAIN Abstract!Written = EmitKeys(Flow[step])
         /\ \A k \in EmitKeys(Flow[step]) : Abstract!Written[k] = Given(k)
         /\ Abstract!Resolved(Abstract!Written)
              <=> \A k \in EmitKeys(Flow[step]) : Given(k) # Nil
<1>1. CASE Flow[step].emit = Nil
  <2>1. Abstract!Written = EmptyMap /\ EmitKeys(Flow[step]) = {}
    BY <1>1, SameRun DEF Abstract!Written, EmitKeys
  <2> QED
    BY <2>1, SameResolved DEF EmptyMap, Resolved, ValuesOf
<1>2. CASE Flow[step].emit # Nil
  <2>1. /\ Abstract!Written = EvaluateAll(Flow[step].emit.state, NS, arrival, Doc)
        /\ EmitKeys(Flow[step]) = DOMAIN Flow[step].emit.state
    BY <1>2, SameRun, SameEvaluateAll DEF Abstract!Written, EmitKeys
  <2>2. /\ DOMAIN Abstract!Written = EmitKeys(Flow[step])
        /\ \A k \in EmitKeys(Flow[step]) : Abstract!Written[k] = Given(k)
    BY <2>1 DEF EvaluateAll, Given
  <2> QED
    BY <2>2, SameResolved DEF Resolved, ValuesOf
<1> QED
  BY <1>1, <1>2

LEMMA StateAfterIs ==
  ASSUME Simulation, pc = "patch", pending = {}
  PROVE  /\ Abstract!StateAfter = state /\ Abstract!Resolved(Abstract!Written)
         /\ Applied = EmitKeys(Flow[step])
<1>1. Applied = EmitKeys(Flow[step])
  BY DEF Applied
<1>2. Abstract!Resolved(Abstract!Written)
  BY <1>1, WrittenIs DEF Simulation, PatchedSoFar
<1>3. Abstract!StateAfter = [k \in DOMAIN arrival \cup Applied |->
                               IF k \in Applied THEN Given(k) ELSE arrival[k]]
  BY <1>1, WrittenIs DEF Abstract!StateAfter
<1> QED
  BY <1>1, <1>2, <1>3 DEF Simulation, PatchedSoFar

LEMMA BranchesIs == pc = "patch" => (Abstract!Branches <=> AtEntryStatusMap)
BY SameRun, SameEntryStep DEF Abstract!Branches, AtEntryStatusMap, Entry

(* A run that fails inside the flow stumbles with the reason of its step.  *)
LEMMA StumblesOn ==
  ASSUME pc = "patch", result = Nil, NEW reason, Fail(reason), reason # "",
         Abstract!StepError = reason, arrival' = arrival
  PROVE  Abstract!Stumble
<1>1. /\ pc' = "error" /\ error' = reason
      /\ UNCHANGED <<manifest, cassette, status, nextAction, result>>
  BY DEF Fail, Locals
<1>2. Abstract!Settle(Abstract!Failed(reason))
  BY <1>1 DEF Abstract!Settle, Abstract!Failed
<1> QED
  BY <1>2 DEF Abstract!Stumble, Abstract!Running

(* A run that enters the next step walks there.                            *)
LEMMA WalksTo ==
  ASSUME pc = "patch", Abstract!StateAfter = state, Abstract!StepError = "",
         ~ Abstract!IsLeaf, Enter(Abstract!Following), arrival' = state,
         status' = Abstract!StatusAfter, nextAction' = Abstract!NextActionAfter
  PROVE  Abstract!Walk
<1>1. pc' = "patch" /\ step' = Abstract!Following /\ UNCHANGED <<manifest, cassette>>
  BY DEF Enter
<1> QED
  BY <1>1 DEF Abstract!Walk, Abstract!Running

(* A template that reads no key of its own emit evaluates over the patched *)
(* state as it did over the state on arrival.                              *)
LEMMA OrderIsIrrelevant ==
  ASSUME Simulation, pc = "patch", NEW k \in pending
  PROVE  Evaluate(Flow[step].emit.state[k], NS, state, Doc) = Given(k)
<1> DEFINE t == Flow[step].emit.state[k]
<1>1. /\ OrderFree(manifest) /\ step \in DOMAIN Flow /\ k \in EmitKeys(Flow[step])
      /\ Applied \subseteq EmitKeys(Flow[step])
  BY OrderNeverMatters DEF Simulation, Inv, Prepared, TypeOK, Applied
<1>2. Flow = manifest.flows[manifest.operations[cassette.operation]]
      /\ manifest.operations[cassette.operation] \in DOMAIN manifest.flows
  BY DEF Flow, Simulation, Inv, Prepared, PastPrepare, PrepareError
<1>3. t.ns = "state" => t.path \notin Applied
  BY <1>1, <1>2 DEF OrderFree
<1>4. /\ DOMAIN state = DOMAIN arrival \cup Applied
      /\ \A p \in DOMAIN state : p \notin Applied => state[p] = arrival[p]
  BY DEF Simulation, PatchedSoFar
<1> HIDE DEF t
<1>5. CASE t.ns = "state"
  <2>1. t.path \in DOMAIN state <=> t.path \in DOMAIN arrival
    BY <1>3, <1>4, <1>5
  <2>2. t.path \in DOMAIN state => state[t.path] = arrival[t.path]
    BY <1>3, <1>4, <1>5
  <2>3. Source(t, NS, state, Doc) = state /\ Source(t, NS, arrival, Doc) = arrival
    BY <1>5 DEF Source
  <2> QED
    BY <1>5, <2>1, <2>2, <2>3 DEF Evaluate, Given, t
<1>6. CASE t.ns # "state"
  <2>1. Source(t, NS, state, Doc) = Source(t, NS, arrival, Doc)
    BY <1>6 DEF Source
  <2> QED
    BY <2>1 DEF Evaluate, Given, t
<1> QED
  BY <1>5, <1>6

LEMMA PatchKeyMaps ==
  ASSUME Simulation, NEW k \in pending, PatchKey(k), arrival' = arrival
  PROVE  Abstract!Stumble \/ UNCHANGED Abstract!vars
<1>1. pc = "patch" /\ result = Nil /\ k \in EmitKeys(Flow[step])
  BY DEF PatchKey, Simulation, Inv, TypeOK
<1>2. CASE Given(k) = Nil
  <2>1. Fail("unresolved-state")
    BY <1>1, <1>2, OrderIsIrrelevant DEF PatchKey
  <2>2. Abstract!StepError = "unresolved-state"
    BY <1>1, <1>2, WrittenIs DEF Abstract!StepError
  <2> QED
    BY <1>1, <2>1, <2>2, StumblesOn
<1>3. CASE Given(k) # Nil
  <2>1. UNCHANGED <<manifest, cassette, pc, step, status, nextAction, result, error>>
    BY <1>1, <1>3, OrderIsIrrelevant DEF PatchKey
  <2> QED
    BY <2>1 DEF Abstract!vars
<1> QED
  BY <1>2, <1>3

LEMMA FollowStatusMapMaps ==
  ASSUME Simulation, FollowStatusMap, arrival' = IF pc' = "patch" THEN state ELSE arrival
  PROVE  Abstract!Walk \/ Abstract!Stumble
<1> DEFINE map == Flow[step].status_map
           target == map.values[Doc[map.path]]
<1>1. pc = "patch" /\ pending = {} /\ AtEntryStatusMap /\ result = Nil
  BY DEF FollowStatusMap, Simulation, Inv, TypeOK
<1>2. /\ Abstract!StateAfter = state /\ Abstract!Resolved(Abstract!Written)
      /\ Abstract!Branches /\ ~ Abstract!IsLeaf /\ ~ Abstract!Offers
  BY <1>1, StateAfterIs, BranchesIs DEF Abstract!IsLeaf, Abstract!Offers
<1>3. /\ Abstract!Following = target
      /\ Abstract!StepError =
           IF map.path \notin DOMAIN Doc THEN "status-path-unresolved"
           ELSE IF Doc[map.path] \notin DOMAIN map.values THEN "status-value-unmapped"
           ELSE IF target \notin DOMAIN Flow THEN "missing-step" ELSE ""
  BY <1>1, <1>2, SameRun
  DEF Abstract!Following, Abstract!BranchValue, Abstract!StepError
<1>4. CASE Abstract!StepError # ""
  <2>1. Fail(Abstract!StepError) /\ arrival' = arrival
    BY <1>3, <1>4 DEF FollowStatusMap, Fail
  <2> QED
    BY <1>1, <1>4, <2>1, StumblesOn
<1>5. CASE Abstract!StepError = ""
  <2>1. Enter(target) /\ UNCHANGED <<status, nextAction>> /\ arrival' = state
    BY <1>3, <1>5 DEF FollowStatusMap, Enter
  <2>2. Abstract!StatusAfter = status /\ Abstract!NextActionAfter = nextAction
    BY <1>2 DEF Abstract!StatusAfter, Abstract!NextActionAfter
  <2> HIDE DEF target
  <2> QED
    BY <1>1, <1>2, <1>3, <1>5, <2>1, <2>2, WalksTo
<1> QED
  BY <1>4, <1>5

(* At the emit of a step: what the walk makes of status and next_action.   *)
LEMMA EmitIs ==
  ASSUME Simulation, AtEmit
  PROVE  /\ pc = "patch" /\ result = Nil /\ error = ""
         /\ Abstract!StateAfter = state
         /\ Abstract!IsLeaf <=> Flow[step].goto = ""
         /\ Abstract!Following = Flow[step].goto
         /\ Abstract!StatusAfter = StatusAfter /\ Abstract!NextActionAfter = NextActionAfter
         /\ Abstract!StepError =
              IF ~ Resolved(OwnNextAction) THEN "unresolved-next-action"
              ELSE IF Flow[step].goto # "" /\ Flow[step].goto \notin DOMAIN Flow
              THEN "missing-step" ELSE ""
<1>1. pc = "patch" /\ pending = {} /\ ~ AtEntryStatusMap /\ result = Nil /\ error = ""
  BY DEF AtEmit, Simulation, Inv, TypeOK
<1>2. /\ Abstract!StateAfter = state /\ Abstract!Resolved(Abstract!Written)
      /\ ~ Abstract!Branches
  BY <1>1, StateAfterIs, BranchesIs
<1>3. /\ Abstract!IsLeaf <=> Flow[step].goto = ""
      /\ Abstract!Following = Flow[step].goto
      /\ Abstract!StatusAfter = StatusAfter
  <2>1. Abstract!IsLeaf <=> Flow[step].goto = ""
    BY <1>1, <1>2, SameRun DEF Abstract!IsLeaf
  <2>2. Abstract!Following = Flow[step].goto
    BY <1>1, <1>2, SameRun DEF Abstract!Following
  <2>3. Abstract!StatusAfter = StatusAfter
    <3>1. Abstract!EmitStatus(Abstract!Flow[step]) = EmitStatus(Flow[step])
      BY SameRun, SameEmits
    <3>2. Abstract!StatusAfter = IF EmitStatus(Flow[step]) = "" THEN status
                                 ELSE EmitStatus(Flow[step])
      BY <1>1, <1>2, <3>1, Zenon DEF Abstract!StatusAfter
    <3> QED
      BY <3>2 DEF StatusAfter
  <2> QED
    BY <2>1, <2>2, <2>3
<1>4. Abstract!Offers <=> EmitNextAction(Flow[step]) # Nil
  BY <1>1, <1>2, SameRun, SameEmits DEF Abstract!Offers
<1>5. EmitNextAction(Flow[step]) # Nil => Abstract!Offered = OwnNextAction
  BY <1>1, <1>2, SameRun, SameEmits, SameEvaluateAll DEF Abstract!Offered, OwnNextAction
<1>6. EmitNextAction(Flow[step]) = Nil => Resolved(OwnNextAction)
  BY DEF OwnNextAction, Resolved, ValuesOf, EmptyMap
<1>7. Abstract!NextActionAfter = NextActionAfter
  BY <1>4, <1>5 DEF Abstract!NextActionAfter, NextActionAfter
<1>8. (Abstract!Offers /\ ~ Abstract!Resolved(Abstract!Offered))
        <=> ~ Resolved(OwnNextAction)
  BY <1>4, <1>5, <1>6, SameResolved
<1>9. Abstract!StepError =
        IF ~ Resolved(OwnNextAction) THEN "unresolved-next-action"
        ELSE IF Flow[step].goto # "" /\ Flow[step].goto \notin DOMAIN Flow
        THEN "missing-step" ELSE ""
  BY <1>2, <1>3, <1>8, SameRun DEF Abstract!StepError
<1> QED
  BY <1>1, <1>2, <1>3, <1>7, <1>9

LEMMA EmitUnresolvedMaps ==
  ASSUME Simulation, EmitUnresolved, arrival' = arrival PROVE Abstract!Stumble
BY EmitIs, StumblesOn DEF EmitUnresolved

LEMMA FollowGotoMaps ==
  ASSUME Simulation, FollowGoto, arrival' = IF pc' = "patch" THEN state ELSE arrival
  PROVE  Abstract!Walk \/ Abstract!Stumble
<1>1. AtEmit /\ Resolved(OwnNextAction) /\ Flow[step].goto # ""
  BY DEF FollowGoto
<1>2. CASE Flow[step].goto \in DOMAIN Flow
  <2>1. /\ Enter(Flow[step].goto) /\ arrival' = state
        /\ status' = StatusAfter /\ nextAction' = NextActionAfter
    BY <1>2 DEF FollowGoto, Enter
  <2> QED
    BY <1>1, <1>2, <2>1, EmitIs, WalksTo
<1>3. CASE Flow[step].goto \notin DOMAIN Flow
  <2>1. Fail("missing-step") /\ arrival' = arrival
    BY <1>3 DEF FollowGoto, Fail
  <2> QED
    BY <1>1, <1>3, <2>1, EmitIs, StumblesOn
<1> QED
  BY <1>2, <1>3

LEMMA LeafMaps == ASSUME Simulation, Leaf, arrival' = arrival PROVE Abstract!Arrive
<1> DEFINE outcome == PaymentResult(cassette, state, StatusAfter, NextActionAfter, Nil)
<1>1. AtEmit /\ Resolved(OwnNextAction) /\ Flow[step].goto = "" /\ Return(outcome)
  BY DEF Leaf
<1>2. /\ pc = "patch" /\ error = "" /\ Abstract!StepError = "" /\ Abstract!IsLeaf
  BY <1>1, EmitIs
<1>3. Abstract!PaymentResult(cassette, Abstract!StateAfter, Abstract!StatusAfter,
                             Abstract!NextActionAfter, Nil) = outcome
  <2>1. /\ Abstract!StateAfter = state /\ Abstract!StatusAfter = StatusAfter
        /\ Abstract!NextActionAfter = NextActionAfter
    BY <1>1, EmitIs
  <2> QED
    BY <2>1 DEF Abstract!PaymentResult, PaymentResult
<1> HIDE DEF outcome
<1>4. /\ pc' = "done" /\ result' = outcome
      /\ UNCHANGED <<manifest, cassette, status, nextAction, error>>
  BY <1>1 DEF Return, Locals
<1>5. Abstract!Settle(Abstract!Answer(outcome))
  BY <1>2, <1>4 DEF Abstract!Settle, Abstract!Answer
<1> QED
  BY <1>2, <1>3, <1>5 DEF Abstract!Arrive, Abstract!Running

-----------------------------------------------------------------------------
(* A step of the interpreter is a step of the walk, or none.               *)
LEMMA StepMaps ==
  Simulation /\ [NextWithArrival]_<<vars, arrival>> => [Abstract!Next]_(Abstract!vars)
<1> SUFFICES ASSUME Simulation, [NextWithArrival]_<<vars, arrival>>
             PROVE  Abstract!Next \/ UNCHANGED Abstract!vars
  OBVIOUS
<1>1. CASE UNCHANGED <<vars, arrival>> \/ (Finished /\ arrival' = arrival)
  BY <1>1 DEF vars, Finished, Abstract!vars
<1>2. CASE Next /\ arrival' = IF Arrives THEN state ELSE arrival
  <2>1. CASE pc' # "patch" \/ (pc = "patch" /\ pending # {})
    <3>1. arrival' = arrival
      BY <1>2, <2>1 DEF Arrives
    <3>2. (pc = "patch" /\ pending # {}) =>
             \/ \E k \in pending : PatchKey(k)
             \/ Finished
      BY <1>2 DEF Next, PrepareFails, Prepare, ReceiveWebhook, NoInteraction,
                  AssertRequest, TransportFailure, ReceiveResponse, MatchError,
                  NoErrorMatches, FollowStatusMap, EmitUnresolved, FollowGoto, Leaf, AtEmit
    <3>3. pc' # "patch" => arrival' = IF pc' = "patch" THEN state ELSE arrival
      BY <3>1
    <3>4. NoErrorMatches => pc' = "patch" /\ pc # "patch"
      BY DEF NoErrorMatches, Enter
    <3> QED
      BY <1>1, <1>2, <2>1, <3>1, <3>2, <3>3, <3>4, PrepareFailsMaps, PrepareMaps,
         ReceiveWebhookMaps, NoInteractionMaps, AssertRequestMaps, TransportFailureMaps,
         ReceiveResponseMaps, MatchErrorMaps, PatchKeyMaps, FollowStatusMapMaps,
         EmitUnresolvedMaps, FollowGotoMaps, LeafMaps DEF Next, Abstract!Next
  <2>2. CASE pc' = "patch" /\ ~ (pc = "patch" /\ pending # {})
    <3>1. arrival' = state
      BY <1>2, <2>2 DEF Arrives
    <3>2. ReceiveWebhook \/ NoErrorMatches \/ FollowStatusMap \/ FollowGoto \/ Finished
      BY <1>2, <2>2
      DEF Next, PrepareFails, Prepare, NoInteraction, AssertRequest, TransportFailure,
          ReceiveResponse, MatchError, PatchKey, EmitUnresolved, Leaf, Fail, Return, Goto
    <3>3. ~ Finished
      BY <2>2 DEF Finished, vars
    <3> QED
      BY <2>2, <3>1, <3>2, <3>3, ReceiveWebhookMaps, NoErrorMatchesMaps,
         FollowStatusMapMaps, FollowGotoMaps DEF Abstract!Next
  <2> QED
    BY <2>1, <2>2
<1> QED
  BY <1>1, <1>2 DEF NextWithArrival

-----------------------------------------------------------------------------
LEMMA InitSimulation == InitWithArrival => Simulation /\ Abstract!Init
<1> SUFFICES ASSUME Init, arrival = EmptyMap PROVE Simulation /\ Abstract!Init
  BY DEF InitWithArrival
<1>1. Inv
  BY InitInv
<1>2. cassette \in Cassettes /\ pc = "prepare"
  BY DEF Init
<1>3. Abstract!Init
  BY SameRun DEF Init, Abstract!Init, Abstract!Running
<1> QED
  BY <1>1, <1>2, <1>3 DEF Simulation, Admitted, PatchedSoFar

(* What the walk answers early depends on the arguments of Run only.       *)
LEMMA EarlyErrorKept ==
  ASSUME UNCHANGED <<manifest, cassette>>
  PROVE  /\ Abstract!RequestDiffers' <=> Abstract!RequestDiffers
         /\ Abstract!EarlyError' = Abstract!EarlyError
BY DEF Abstract!RequestDiffers, Abstract!EarlyError, Abstract!Webhook, Abstract!Doc,
       Abstract!Flow, Abstract!NS, Abstract!Interaction

LEMMA AdmittedStep == Simulation /\ [Next]_vars => Admitted'
<1> SUFFICES ASSUME Simulation, [Next]_vars PROVE Admitted'
  OBVIOUS
<1>1. UNCHANGED <<manifest, cassette>>
  BY ArgumentsKept
<1>2. ASSUME pc' = "response"
      PROVE  cassette.interactions # <<>> /\ ~ Abstract!RequestDiffers
  <2>1. CASE pc' = pc
    BY <1>2, <2>1 DEF Simulation, Admitted
  <2>2. CASE pc' # pc
    <3>1. AssertRequest /\ pc = "request" /\ state = cassette.state
      BY <1>2, <2>2
      DEF Next, vars, PrepareFails, Prepare, ReceiveWebhook, NoInteraction,
          TransportFailure, ReceiveResponse, MatchError, NoErrorMatches, PatchKey,
          FollowStatusMap, EmitUnresolved, FollowGoto, Leaf, Finished, Fail, Return, Goto,
          Enter, AssertRequest, Simulation, Inv, Untouched, BeforeFlow
    <3> QED
      BY <1>2, <3>1, RequestDiffersIs DEF AssertRequest, Fail
  <2> QED
    BY <2>1, <2>2
<1>3. ASSUME pc' = "errors" PROVE Abstract!EarlyError = ""
  <2>1. CASE pc' = pc
    BY <1>3, <2>1 DEF Simulation, Admitted
  <2>2. CASE pc' # pc
    <3>1. ReceiveResponse
      BY <1>3, <2>2
      DEF Next, vars, PrepareFails, Prepare, ReceiveWebhook, NoInteraction,
          TransportFailure, AssertRequest, MatchError, NoErrorMatches, PatchKey,
          FollowStatusMap, EmitUnresolved, FollowGoto, Leaf, Finished, Fail, Return, Goto,
          Enter
    <3>2. /\ pc = "response" /\ cassette.operation # "webhook"
          /\ PrepareError(manifest, cassette) = "" /\ cassette.interactions # <<>>
          /\ ~ cassette.transport_failure /\ ~ Abstract!RequestDiffers
          /\ Interaction.response # Nil /\ Doc # Nil
      BY <1>3, <3>1 DEF ReceiveResponse, Fail, Simulation, Inv, Routed, Prepared,
                        PastPrepare, Admitted
    <3> QED
      BY <3>2, EarlyErrorIs
  <2> QED
    BY <2>1, <2>2
<1> QED
  BY <1>1, <1>2, <1>3, EarlyErrorKept DEF Admitted

(* The state of a run is a map.                                            *)
LEMMA StateIsMap ==
  ASSUME Simulation, pc \in BeforeFlow \cup {"patch"}
  PROVE  state = [k \in DOMAIN state |-> state[k]]
<1>1. CASE pc \in BeforeFlow
  BY <1>1, StatesAreMaps DEF Simulation, Inv, Untouched
<1>2. CASE pc = "patch"
  BY <1>2 DEF Simulation, PatchedSoFar
<1> QED
  BY <1>1, <1>2

LEMMA PatchedSoFarStep ==
  Simulation /\ [NextWithArrival]_<<vars, arrival>> => PatchedSoFar'
<1> SUFFICES ASSUME Simulation, [NextWithArrival]_<<vars, arrival>>, pc' = "patch"
             PROVE  PatchedSoFar'
  BY DEF PatchedSoFar
<1>1. [Next]_vars
  BY DEF NextWithArrival
<1>2. UNCHANGED <<manifest, cassette>> /\ Flow' = Flow /\ NS' = NS /\ Doc' = Doc
  BY <1>1, ArgumentsKept DEF Flow, NS, Doc, Interaction
<1>3. CASE UNCHANGED <<vars, arrival>>
  <2>1. /\ UNCHANGED <<pc, step, pending, state, arrival>> /\ Applied' = Applied
    BY <1>2, <1>3 DEF vars, Applied
  <2>2. \A k : Given(k)' = Given(k)
    BY <1>2, <2>1 DEF Given
  <2> QED
    BY <1>2, <2>1, <2>2 DEF Simulation, PatchedSoFar
<1>4. CASE \E name : Enter(name) /\ arrival' = state /\ pc \in BeforeFlow \cup {"patch"}
  <2>1. /\ Applied' = {} /\ state' = state /\ arrival' = state
        /\ state = [k \in DOMAIN state |-> state[k]]
    BY <1>2, <1>4, StateIsMap DEF Enter, Applied
  <2> QED
    BY <2>1 DEF PatchedSoFar
<1>5. ASSUME NEW k \in pending, PatchKey(k), arrival' = arrival PROVE PatchedSoFar'
  <2> DEFINE value == Evaluate(Flow[step].emit.state[k], NS, state, Doc)
  <2>1. /\ pc = "patch" /\ k \in EmitKeys(Flow[step]) /\ k \notin Applied
        /\ value = Given(k)
    BY <1>5, OrderIsIrrelevant DEF PatchKey, Simulation, Inv, TypeOK, Applied
  <2>2. /\ value # Nil /\ state' = Put(state, k, value) /\ pending' = pending \ {k}
        /\ step' = step
    BY <1>5, <2>1 DEF PatchKey, Fail, Patched
  <2> HIDE DEF value
  <2>3. Applied' = Applied \cup {k}
    BY <1>2, <2>1, <2>2 DEF Applied
  <2>4. \A j : Given(j)' = Given(j)
    BY <1>2, <1>5, <2>2 DEF Given
  <2>5. state' = [j \in DOMAIN arrival \cup Applied' |->
                    IF j \in Applied' THEN Given(j) ELSE arrival[j]]
    <3>1. state = [j \in DOMAIN arrival \cup Applied |->
                     IF j \in Applied THEN Given(j) ELSE arrival[j]]
      BY <2>1 DEF Simulation, PatchedSoFar
    <3> QED
      BY <2>1, <2>2, <2>3, <3>1 DEF Put
  <2> QED
    BY <1>5, <2>1, <2>2, <2>3, <2>4, <2>5 DEF Simulation, PatchedSoFar
<1>6. CASE Next /\ arrival' = IF Arrives THEN state ELSE arrival
  <2>1. CASE \E k \in pending : PatchKey(k)
    <3>1. arrival' = arrival
      BY <1>6, <2>1 DEF PatchKey, Arrives
    <3> QED
      BY <1>5, <2>1, <3>1
  <2>2. CASE Finished
    BY <2>2 DEF Finished, vars
  <2>3. CASE ReceiveWebhook \/ NoErrorMatches \/ FollowStatusMap \/ FollowGoto
    <3>1. \E name : Enter(name)
      BY <2>3 DEF ReceiveWebhook, NoErrorMatches, FollowStatusMap, FollowGoto, Fail
    <3>2. /\ pc \in BeforeFlow \cup {"patch"} /\ ~ (pc = "patch" /\ pending # {})
      BY <2>3 DEF ReceiveWebhook, NoErrorMatches, FollowStatusMap, FollowGoto, AtEmit,
                  BeforeFlow
    <3> QED
      BY <1>4, <1>6, <3>1, <3>2 DEF Arrives
  <2> QED
    BY <1>6, <2>1, <2>2, <2>3
    DEF Next, PrepareFails, Prepare, NoInteraction, AssertRequest, TransportFailure,
        ReceiveResponse, MatchError, EmitUnresolved, Leaf, Fail, Return, Goto
<1> QED
  BY <1>3, <1>6 DEF NextWithArrival

LEMMA SimulationStep ==
  Simulation /\ [NextWithArrival]_<<vars, arrival>> => Simulation'
<1> SUFFICES ASSUME Simulation, [NextWithArrival]_<<vars, arrival>> PROVE Simulation'
  OBVIOUS
<1>1. [Next]_vars
  BY DEF NextWithArrival
<1>2. Inv' /\ cassette' \in Cassettes
  BY <1>1, StepInv, ArgumentsKept DEF Simulation
<1> QED
  BY <1>1, <1>2, AdmittedStep, PatchedSoFarStep DEF Simulation

(* Replay is a function of the manifest and the cassette: over manifests   *)
(* whose emits do not read what they write, every run of the interpreter,  *)
(* in whatever order it visits the keys of an emit.state, takes the steps  *)
(* of FlowWalk and answers with its result or its error.                   *)
THEOREM InterpreterImplementsWalk == SpecWithArrival => ImplementsWalk
<1>1. SpecWithArrival => []Simulation
  BY InitSimulation, SimulationStep, PTL DEF SpecWithArrival
<1>2. SpecWithArrival => Abstract!Init
  BY InitSimulation DEF SpecWithArrival
<1> QED
  BY <1>1, <1>2, StepMaps, PTL DEF SpecWithArrival, ImplementsWalk, Abstract!Spec
=============================================================================
