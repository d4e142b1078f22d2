---------------------------- MODULE Interpreter ----------------------------
(***************************************************************************)
(* replay.Run: the reference interpreter executing one cassette against    *)
(* one manifest.  The call is sequential, and every early return with an   *)
(* error is an action of its own that ends in pc = "error" with no result. *)
(* What is not determined by the source is the order in which              *)
(* applyEmitState ranges over the keys of emit.state: Go randomises the    *)
(* iteration of a map, and a template may read a key the same emit writes. *)
(***************************************************************************)
EXTENDS ReplayRules, Sequences

CONSTANTS
  Manifests,                \* the manifests that may be loaded
  Cassettes                 \* the cassettes that may be replayed

(* errors[] of a manifest is a Go slice.                                   *)
ASSUME ErrorsAreLists ==
  \A m \in Manifests : Len(m.errors) \in Nat /\ DOMAIN m.errors = 1 .. Len(m.errors)

VARIABLES
  manifest, cassette,       \* the arguments of Run, never assigned
  pc,                       \* where Run and dispatch stand
  step,                     \* the step dispatch is at, "" before it has one
  pending,                  \* keys of the step's emit.state still to be patched
  state, status, nextAction,\* the locals the result is assembled from
  result,                   \* the PaymentResult, Nil until Run returns one
  error                     \* the reason Run returned an error, or ""

vars == <<manifest, cassette, pc, step, pending, state, status, nextAction,
          result, error>>

Locals == <<step, pending, state, status, nextAction>>

-----------------------------------------------------------------------------
Flow == manifest.flows[manifest.operations[cassette.operation]]
Entry == EntryStep(Flow)
NS == Namespaces(manifest, cassette)
Interaction == cassette.interactions[1]

(* The response or webhook body dispatch reads.                            *)
Doc == IF cassette.operation = "webhook" THEN cassette.inbound_webhook.body
       ELSE Interaction.response.body

Init ==
  /\ manifest \in Manifests /\ cassette \in Cassettes
  /\ pc = "prepare" /\ step = "" /\ pending = {}
  /\ state = EmptyMap /\ status = "" /\ nextAction = Nil
  /\ result = Nil /\ error = ""

(* Mutant of Fail: the result so far is returned beside the error.         *)
FailWithResult(reason) ==
  /\ pc' = "error" /\ error' = reason
  /\ result' = PaymentResult(cassette, state, status, nextAction, Nil)
  /\ UNCHANGED <<manifest, cassette, Locals>>

Fail(reason) ==
  /\ pc' = "error" /\ error' = reason
  /\ UNCHANGED <<manifest, cassette, Locals, result>>

Return(outcome) ==
  /\ pc' = "done" /\ result' = outcome
  /\ UNCHANGED <<manifest, cassette, Locals, error>>

Goto(label) ==
  /\ pc' = label
  /\ UNCHANGED <<manifest, cassette, Locals, result, error>>

-----------------------------------------------------------------------------
(***************************************************************************)
(* Run, up to the point where the cassette's response is at hand.          *)
(***************************************************************************)
PrepareFails ==
  /\ pc = "prepare" /\ PrepareError(manifest, cassette) # ""
  /\ Fail(PrepareError(manifest, cassette))

(* The state is a copy: a run never writes to the cassette it replays.     *)
Prepare ==
  /\ pc = "prepare" /\ PrepareError(manifest, cassette) = ""
  /\ pc' = IF cassette.operation = "webhook" THEN "webhook" ELSE "request"
  /\ state' = cassette.state
  /\ UNCHANGED <<manifest, cassette, step, pending, status, nextAction, result, error>>

(* Mutant of Enter: the loop of dispatch does not advance stepName.        *)
EnterAgain(name) ==
  LET same == IF step = "" THEN name ELSE step IN
  /\ pc' = "patch" /\ step' = same /\ pending' = EmitKeys(Flow[same])
  /\ UNCHANGED <<manifest, cassette, state, result, error>>

(* dispatch looks at a step: its emit.state is about to be applied.        *)
Enter(name) ==
  /\ pc' = "patch" /\ step' = name /\ pending' = EmitKeys(Flow[name])
  /\ UNCHANGED <<manifest, cassette, state, result, error>>

(* A webhook is dispatched on its body, with errors[] not consulted.       *)
ReceiveWebhook ==
  /\ pc = "webhook"
  /\ \/ cassette.inbound_webhook = Nil /\ Fail("no-inbound-webhook")
     \/ /\ cassette.inbound_webhook # Nil /\ Doc = Nil
        /\ Fail("body-not-json")
     \/ /\ cassette.inbound_webhook # Nil /\ Doc # Nil
        /\ Enter(Entry) /\ UNCHANGED <<status, nextAction>>

NoInteraction ==
  /\ pc = "request" /\ cassette.interactions = <<>>
  /\ Fail("no-interactions")

AssertRequest ==
  /\ pc = "request" /\ cassette.interactions # <<>>
  /\ IF \/ Flow[Entry].call = Nil
        \/ RequestMatches(Flow[Entry].call, Interaction.request, NS, state, manifest.auth)
     THEN Goto("response") ELSE Fail("request-mismatch")

(* Mutant of TransportFailure: the timeout is reported as a failure.       *)
TimeoutFails ==
  /\ pc = "response" /\ cassette.transport_failure
  /\ Return(PaymentResult(cassette, state, "Failed", Nil,
                          Failure("ProviderTimeout", "ResolveFirst")))

(* Invariant I4: no response means an unknown outcome, to be polled for.   *)
TransportFailure ==
  /\ pc = "response" /\ cassette.transport_failure
  /\ Return(PaymentResult(cassette, state, "Processing", SyntheticPoll, Nil))

ReceiveResponse ==
  /\ pc = "response" /\ ~ cassette.transport_failure
  /\ IF Interaction.response = Nil THEN Fail("no-response")
     ELSE IF Doc = Nil THEN Fail("body-not-json") ELSE Goto("errors")

-----------------------------------------------------------------------------
(***************************************************************************)
(* dispatch.  errors[] comes first; a match bypasses the step's emit.      *)
(***************************************************************************)
MatchingEntries == Matching(manifest.errors, Doc, Interaction.response.status)

MatchError ==
  /\ pc = "errors" /\ MatchingEntries # {}
  /\ Return(ErrorOutcome(cassette, state,
              manifest.errors[FirstMatch(manifest.errors, Doc, Interaction.response.status)]))

NoErrorMatches ==
  /\ pc = "errors" /\ MatchingEntries = {}
  /\ Enter(Entry) /\ UNCHANGED <<status, nextAction>>

(* Mutant of Patched: emit.state replaces the state.                       *)
Replaced(st, key, value) == [k \in {key} |-> value]

Patched(st, key, value) == Put(st, key, value)

(* applyEmitState: one key of the range over emit.state, in any order.     *)
PatchKey(k) ==
  LET value == Evaluate(Flow[step].emit.state[k], NS, state, Doc) IN
  /\ pc = "patch" /\ k \in pending
  /\ IF value = Nil THEN Fail("unresolved-state")
     ELSE /\ state' = Patched(state, k, value) /\ pending' = pending \ {k}
          /\ UNCHANGED <<manifest, cassette, pc, step, status, nextAction, result, error>>

AtEntryStatusMap == step = Entry /\ Flow[step].status_map # Nil

(* The entry step's status_map: its emit has patched the state, and the    *)
(* emit's status and next_action are not looked at.                        *)
FollowStatusMap ==
  LET map == Flow[step].status_map IN
  /\ pc = "patch" /\ pending = {} /\ AtEntryStatusMap
  /\ \/ map.path \notin DOMAIN Doc /\ Fail("status-path-unresolved")
     \/ /\ map.path \in DOMAIN Doc /\ Doc[map.path] \notin DOMAIN map.values
        /\ Fail("status-value-unmapped")
     \/ /\ map.path \in DOMAIN Doc /\ Doc[map.path] \in DOMAIN map.values
        /\ IF map.values[Doc[map.path]] \in DOMAIN Flow
           THEN Enter(map.values[Doc[map.path]]) /\ UNCHANGED <<status, nextAction>>
           ELSE Fail("missing-step")

(* What a step's emit leaves in status and next_action: an unset status    *)
(* and an absent next_action keep what an earlier step emitted.            *)
StatusAfter == IF EmitStatus(Flow[step]) = "" THEN status ELSE EmitStatus(Flow[step])

OwnNextAction ==
  IF EmitNextAction(Flow[step]) = Nil THEN EmptyMap
  ELSE EvaluateAll(EmitNextAction(Flow[step]), NS, state, Doc)

(* Mutant of NextActionAfter: a step without next_action clears it.        *)
OnlyOwnNextAction == IF EmitNextAction(Flow[step]) = Nil THEN Nil ELSE OwnNextAction

NextActionAfter == IF EmitNextAction(Flow[step]) = Nil THEN nextAction ELSE OwnNextAction

AtEmit == pc = "patch" /\ pending = {} /\ ~ AtEntryStatusMap

EmitUnresolved == AtEmit /\ ~ Resolved(OwnNextAction) /\ Fail("unresolved-next-action")

FollowGoto ==
  /\ AtEmit /\ Resolved(OwnNextAction) /\ Flow[step].goto # ""
  /\ IF Flow[step].goto \in DOMAIN Flow
     THEN /\ Enter(Flow[step].goto)
          /\ status' = StatusAfter /\ nextAction' = NextActionAfter
     ELSE Fail("missing-step")

(* A step with no goto is a leaf, whatever else it declares.               *)
Leaf ==
  /\ AtEmit /\ Resolved(OwnNextAction) /\ Flow[step].goto = ""
  /\ Return(PaymentResult(cassette, state, StatusAfter, NextActionAfter, Nil))

Finished == pc \in {"done", "error"} /\ UNCHANGED vars

Next ==
  \/ PrepareFails \/ Prepare
  \/ ReceiveWebhook \/ NoInteraction \/ AssertRequest
  \/ TransportFailure \/ ReceiveResponse
  \/ MatchError \/ NoErrorMatches
  \/ \E k \in pending : PatchKey(k)
  \/ FollowStatusMap \/ EmitUnresolved \/ FollowGoto \/ Leaf
  \/ Finished

(* The call runs on one goroutine and nothing in it blocks.                *)
Spec == Init /\ [][Next]_vars /\ WF_vars(Next)

-----------------------------------------------------------------------------
(***************************************************************************)
(* Properties that hold for every manifest, valid or not: `replay` does    *)
(* not validate what it runs.                                              *)
(***************************************************************************)
Labels ==
  {"prepare", "webhook", "request", "response", "errors", "patch", "done", "error"}

(* Run is somewhere in its code; inside dispatch it is at a step of the    *)
(* flow, with keys of that step's emit.state left to apply; it has a       *)
(* result only when it is done and a reason only when it failed.           *)
TypeOK ==
  /\ pc \in Labels
  /\ pc = "patch" => step \in DOMAIN Flow /\ pending \subseteq EmitKeys(Flow[step])
  /\ pc # "patch" /\ pc # "done" /\ pc # "error" => step = "" /\ pending = {}
  /\ pc # "done" => result = Nil
  /\ (pc = "error") <=> (error # "")

WrittenKeys == UNION {EmitKeys(Flow[s]) : s \in DOMAIN Flow}

(* emit.state is a patch (Invariant I6): whatever steps a run goes through,*)
(* a key of the cassette's state is never lost, and one that no step of    *)
(* the flow writes still has the value the cassette gave it.               *)
StateIsPatched ==
  pc \in {"patch", "done"} =>
    \A k \in DOMAIN cassette.state :
      /\ k \in DOMAIN state
      /\ k \notin WrittenKeys => state[k] = cassette.state[k]

(* A transport failure says nothing about the payment (Invariant I4): a    *)
(* run over one returns Processing with the synthesized Poll, no failure,  *)
(* and the state the cassette started from, whatever errors[] declares.    *)
TransportFailureIsUnknown ==
  pc = "done" /\ cassette.transport_failure /\ cassette.operation # "webhook" =>
    /\ result.status = "Processing" /\ result.next_action = SyntheticPoll
    /\ result.failure = Nil /\ result.state = cassette.state

(* The credential is what authenticates a call: once a run is past the     *)
(* request assertion, a recorded request that has the header of auth.apply *)
(* carries the value auth.apply resolves to, whatever headers of its own   *)
(* the step's call declares.                                               *)
CredentialIsAsserted ==
  pc \in {"response", "errors", "patch", "done"} /\ cassette.operation # "webhook"
  /\ Flow[Entry].call # Nil =>
    LET applied  == ApplyHeader(manifest.auth)
        recorded == Interaction.request.headers
    IN  \A h \in DOMAIN applied \cap DOMAIN recorded :
          recorded[h] = Evaluate(applied[h], NS, cassette.state, EmptyMap)

(* A response that some errors[] entry matches never reaches the flow: the *)
(* state is the cassette's, and status, next_action and failure come from  *)
(* one matching entry that no earlier entry precedes, never from a step.   *)
MatchedErrorBypassesFlow ==
  pc = "done" /\ cassette.operation # "webhook" /\ ~ cassette.transport_failure
  /\ MatchingEntries # {} =>
    /\ result.state = cassette.state /\ step = ""
    /\ \E i \in MatchingEntries :
         /\ \A j \in DOMAIN manifest.errors : j < i => j \notin MatchingEntries
         /\ IF manifest.errors[i].failure_code \in {"ProviderTimeout", "Unknown"}
            THEN result.failure = Nil /\ result.status = "Processing"
            ELSE /\ result.status = "Failed" /\ result.next_action = Nil
                 /\ result.failure = Failure(manifest.errors[i].failure_code,
                                             manifest.errors[i].retry_class)

(* A run over a flow without goto cycles comes back, with a result or an   *)
(* error.                                                                  *)
Acyclic(flow) ==
  \A S \in SUBSET DOMAIN flow :
    S # {} => \E s \in S : flow[s].goto \notin S
AcyclicFlows(m) == \A f \in DOMAIN m.flows : Acyclic(m.flows[f])
Returns == AcyclicFlows(manifest) ~> pc \in {"done", "error"}

=============================================================================
