------------------------------ MODULE FlowWalk ------------------------------
(***************************************************************************)
(* What replaying a cassette means, one step of the flow at a time: the    *)
(* run answers without entering the flow, or it enters the flow and walks  *)
(* from step to step, each step reading the state as it was on arrival and *)
(* writing all of its emit at once.  Nothing here is left to chance, so a  *)
(* run that implements this module is a function of manifest and cassette. *)
(***************************************************************************)
EXTENDS ReplayRules

VARIABLES
  manifest, cassette,  \* the arguments, whatever they are; never assigned
  walking,             \* whether the run is in the flow
  at,                  \* the step the walk is at; "" before and after the walk
  state, status, nextAction,
  outcome              \* Running, or the reason or the result the run answers

vars == <<manifest, cassette, walking, at, state, status, nextAction, outcome>>

Running == [answered |-> FALSE]
Failed(reason) == [answered |-> TRUE, error |-> reason, result |-> Nil]
Answer(result) == [answered |-> TRUE, error |-> "", result |-> result]

Flow == manifest.flows[manifest.operations[cassette.operation]]
NS == Namespaces(manifest, cassette)
Webhook == cassette.operation = "webhook"
Interaction == cassette.interactions[1]
Doc == IF Webhook THEN cassette.inbound_webhook.body ELSE Interaction.response.body

Init ==
  /\ ~ walking /\ at = "" /\ state = EmptyMap /\ status = "" /\ nextAction = Nil
  /\ outcome = Running

(***************************************************************************)
(* Why the run fails before the response is looked at; "" when it does not.*)
(***************************************************************************)
RequestDiffers ==
  LET call == Flow[EntryStep(Flow)].call
  IN  /\ call # Nil
      /\ ~ RequestMatches(call, Interaction.request, NS, cassette.state, manifest.auth)

EarlyError ==
  IF PrepareError(manifest, cassette) # "" THEN PrepareError(manifest, cassette)
  ELSE IF Webhook
  THEN IF cassette.inbound_webhook = Nil THEN "no-inbound-webhook"
       ELSE IF Doc = Nil THEN "body-not-json" ELSE ""
  ELSE IF cassette.interactions = <<>> THEN "no-interactions"
  ELSE IF RequestDiffers THEN "request-mismatch"
  ELSE IF cassette.transport_failure THEN ""
  ELSE IF Interaction.response = Nil THEN "no-response"
  ELSE IF Doc = Nil THEN "body-not-json" ELSE ""

TimedOut == ~ Webhook /\ cassette.transport_failure
ErrorEntries ==
  IF Webhook THEN {} ELSE Matching(manifest.errors, Doc, Interaction.response.status)
FirstError ==
  manifest.errors[FirstMatch(manifest.errors, Doc, Interaction.response.status)]

Settle(o) ==
  /\ outcome' = o /\ ~ walking' /\ at' = ""
  /\ UNCHANGED <<manifest, cassette, state, status, nextAction>>

AnswerAtOnce ==
  /\ outcome = Running /\ ~ walking
  /\ \/ EarlyError # "" /\ Settle(Failed(EarlyError))
     \/ /\ EarlyError = "" /\ TimedOut
        /\ Settle(Answer(PaymentResult(cassette, cassette.state, "Processing",
                                       SyntheticPoll, Nil)))
     \/ /\ EarlyError = "" /\ ~ TimedOut /\ ErrorEntries # {}
        /\ Settle(Answer(ErrorOutcome(cassette, cassette.state, FirstError)))

EnterFlow ==
  /\ outcome = Running /\ ~ walking
  /\ EarlyError = "" /\ ~ TimedOut /\ ErrorEntries = {}
  /\ walking' /\ at' = EntryStep(Flow) /\ state' = cassette.state
  /\ UNCHANGED <<manifest, cassette, status, nextAction, outcome>>

-----------------------------------------------------------------------------
(***************************************************************************)
(* A step: its emit, and the step it leads to, unless it is a leaf.  An    *)
(* entry step that branches on a status_map emits state only.              *)
(***************************************************************************)
Branches == at = EntryStep(Flow) /\ Flow[at].status_map # Nil
IsLeaf == ~ Branches /\ Flow[at].goto = ""

Written ==
  IF Flow[at].emit = Nil THEN EmptyMap
  ELSE EvaluateAll(Flow[at].emit.state, NS, state, Doc)

StateAfter ==
  [k \in DOMAIN state \cup DOMAIN Written |->
     IF k \in DOMAIN Written THEN Written[k] ELSE state[k]]

Offers == ~ Branches /\ EmitNextAction(Flow[at]) # Nil
Offered == EvaluateAll(EmitNextAction(Flow[at]), NS, StateAfter, Doc)

NextActionAfter == IF Offers THEN Offered ELSE nextAction
StatusAfter ==
  IF Branches \/ EmitStatus(Flow[at]) = "" THEN status ELSE EmitStatus(Flow[at])

BranchValue == Doc[Flow[at].status_map.path]
Following ==
  IF Branches THEN Flow[at].status_map.values[BranchValue] ELSE Flow[at].goto

StepError ==
  IF ~ Resolved(Written) THEN "unresolved-state"
  ELSE IF Branches /\ Flow[at].status_map.path \notin DOMAIN Doc
  THEN "status-path-unresolved"
  ELSE IF Branches /\ BranchValue \notin DOMAIN Flow[at].status_map.values
  THEN "status-value-unmapped"
  ELSE IF Offers /\ ~ Resolved(Offered) THEN "unresolved-next-action"
  ELSE IF ~ IsLeaf /\ Following \notin DOMAIN Flow THEN "missing-step" ELSE ""

Walk ==
  /\ outcome = Running /\ walking /\ StepError = "" /\ ~ IsLeaf
  /\ walking' /\ at' = Following /\ state' = StateAfter
  /\ status' = StatusAfter /\ nextAction' = NextActionAfter
  /\ UNCHANGED <<manifest, cassette, outcome>>

Arrive ==
  /\ outcome = Running /\ walking /\ StepError = "" /\ IsLeaf
  /\ Settle(Answer(PaymentResult(cassette, StateAfter, StatusAfter,
                                 NextActionAfter, Nil)))

Stumble ==
  /\ outcome = Running /\ walking /\ StepError # ""
  /\ Settle(Failed(StepError))

Next == AnswerAtOnce \/ EnterFlow \/ Walk \/ Arrive \/ Stumble

Spec == Init /\ [][Next]_vars

=============================================================================
