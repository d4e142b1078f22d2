----------------------- MODULE ValidatedReplayProofs -----------------------
(***************************************************************************)
(* What the static checks guarantee of every run over every cassette, for  *)
(* every set of manifests that pass them.  The first lemmas read the facts *)
(* a run needs off Validated; the invariants then use those facts only.    *)
(***************************************************************************)
EXTENDS ValidatedReplay, InterpreterProofs

LEMMA RuleHolds == ASSUME NEW name, NEW broken, Rule(name, broken) = {} PROVE ~ broken
BY DEF Rule

(* No rule is reported for any flow of a validated manifest.               *)
LEMMA ValidFlow ==
  ASSUME NEW m, Validated(m), NEW f \in DOMAIN m.flows
  PROVE  /\ HasEntryStep(m.flows[f])
         /\ ~ DanglingGoto(m.flows[f]) /\ ~ DanglingStatusMapTarget(m.flows[f])
         /\ ~ OutsideClosedEnum(m.flows[f]) /\ ~ MalformedNextAction(m.flows[f])
         /\ ~ TerminalTransitions(m.flows[f])
<1> DEFINE flow == m.flows[f]
<1>1. CheckFlows(m) = {}
  BY DEF Validated, ManifestFindings
<1>2. CheckFlow(flow) = {}
  BY <1>1 DEF CheckFlows
<1>3. DOMAIN flow # {}
  BY <1>2 DEF CheckFlow
<1>4. /\ Rule("dangling-goto", DanglingGoto(flow)) = {}
      /\ Rule("dangling-status-map-target", DanglingStatusMapTarget(flow)) = {}
      /\ Rule("closed-enum", OutsideClosedEnum(flow)) = {}
      /\ Rule("malformed-next-action", MalformedNextAction(flow)) = {}
      /\ Rule("terminal-transitions", TerminalTransitions(flow)) = {}
      /\ Rule("no-entry-step", EntrySteps(flow) = {}) = {}
      /\ Rule("ambiguous-entry-step", EntrySteps(flow) # {} /\ ~ HasEntryStep(flow)) = {}
  <2> HIDE DEF flow
  <2> QED BY <1>2, <1>3 DEF CheckFlow
<1> HIDE DEF flow
<1>5. EntrySteps(flow) # {} /\ ~ (EntrySteps(flow) # {} /\ ~ HasEntryStep(flow))
  BY <1>4 DEF Rule
<1>6. /\ ~ DanglingGoto(flow) /\ ~ DanglingStatusMapTarget(flow)
      /\ ~ OutsideClosedEnum(flow) /\ ~ MalformedNextAction(flow)
      /\ ~ TerminalTransitions(flow)
  BY <1>4, RuleHolds
<1> QED
  BY <1>5, <1>6 DEF flow

(* Every operation of a validated manifest has a flow, and its next        *)
(* actions are the ones its flows emit.                                    *)
LEMMA ValidOperations ==
  ASSUME NEW m, Validated(m)
  PROVE  /\ ValuesOf(m.operations) \subseteq DOMAIN m.flows
         /\ m.capabilities.next_actions = EmittedNextActions(m)
<1>1. CheckOperationsAndCapabilities(m) = {}
  BY DEF Validated, ManifestFindings
<1>2. /\ Rule("dangling-entry-flow", ~ ValuesOf(m.operations) \subseteq DOMAIN m.flows) = {}
      /\ Rule("next-actions-mismatch",
              m.capabilities.next_actions # EmittedNextActions(m)) = {}
  BY <1>1 DEF CheckOperationsAndCapabilities
<1> QED
  BY <1>2 DEF Rule

(* Every errors[] entry of a validated manifest maps into the closed sets, *)
(* with the retry class of the table.                                      *)
LEMMA ValidErrors ==
  ASSUME NEW m, Validated(m), NEW i \in DOMAIN m.errors
  PROVE  /\ m.errors[i].failure_code \in FailureCodes
         /\ m.errors[i].retry_class \in RetryClasses
         /\ FailureRetryMap[m.errors[i].failure_code] = m.errors[i].retry_class
<1> DEFINE entry == m.errors[i]
<1>1. CheckErrors(m) = {}
  BY DEF Validated, ManifestFindings
<1>2. CheckError(entry) = {}
  BY <1>1 DEF CheckErrors
<1> HIDE DEF entry
<1>3. /\ Rule("closed-enum", ErrorClosedEnum(entry)) = {}
      /\ Rule("retry-class-mismatch", RetryClassMismatch(entry)) = {}
  BY <1>2 DEF CheckError
<1>4. ~ ErrorClosedEnum(entry) /\ ~ RetryClassMismatch(entry)
  BY <1>3, RuleHolds
<1> QED
  BY <1>4 DEF ErrorClosedEnum, RetryClassMismatch, entry

(* A step of a validated manifest has the payload its next action needs.   *)
LEMMA ValidPayload ==
  ASSUME NEW m, Validated(m), NEW f \in DOMAIN m.flows, NEW s \in DOMAIN m.flows[f],
         NextActionType(m.flows[f][s].emit) \in NextActions
  PROVE  LET emit == m.flows[f][s].emit
             fields == NextActionFields[NextActionType(emit)]
         IN  /\ fields.required \subseteq DOMAIN emit.next_action
             /\ DOMAIN emit.next_action \subseteq
                  {"type"} \cup fields.required \cup fields.optional
<1> DEFINE emit == m.flows[f][s].emit
<1>1. CheckSteps(m) = {}
  BY DEF Validated, ManifestFindings
<1> DEFINE steps == {CheckPayload(m.flows[f][t].emit)
                       \cup CheckNamespaces(m.flows[f], m.flows[f][t])
                       \cup CheckTransforms(m.flows[f][t]) : t \in DOMAIN m.flows[f]}
<1>2. UNION steps \subseteq CheckSteps(m)
  BY DEF CheckSteps
<1>3. CheckPayload(emit) \subseteq UNION steps
  OBVIOUS
<1>4. CheckPayload(emit) = {}
  <2> HIDE DEF steps, emit
  <2> QED BY <1>1, <1>2, <1>3
<1> HIDE DEF emit
<1> QED
  BY <1>4 DEF CheckPayload, Rule, emit

-----------------------------------------------------------------------------
(***************************************************************************)
(* The facts about the step dispatch is at.                                *)
(***************************************************************************)
Declared(na) ==
  /\ "type" \in DOMAIN na /\ na["type"] \in NextActions
  /\ na["type"] \in manifest.capabilities.next_actions \cup {"Poll"}
  /\ NextActionFields[na["type"]].required \subseteq DOMAIN na
  /\ DOMAIN na \subseteq {"type"} \cup NextActionFields[na["type"]].required
                                \cup NextActionFields[na["type"]].optional

(* Past prepare the flow of the run is a flow of a validated manifest.     *)
LEMMA FlowOfRun ==
  ASSUME Inv, pc \in PastPrepare
  PROVE  /\ Validated(manifest)
         /\ manifest.operations[cassette.operation] \in DOMAIN manifest.flows
BY ManifestsValidated DEF Inv, Prepared, PrepareError

(* The one Poll the runtime makes itself obeys the payload table.          *)
LEMMA SyntheticPollDeclared == Declared(SyntheticPoll)
<1>1. /\ DOMAIN SyntheticPoll = {"type", "interval_ms"} /\ SyntheticPoll["type"] = "Poll"
  BY DEF SyntheticPoll
<1>2. NextActionFields["Poll"] = Payload({"interval_ms"}, {"not_before"})
  BY DEF NextActionFields, NextActions
<1> QED
  BY <1>1, <1>2 DEF Declared, NextActions, Payload

(* The edges of the step stay in the flow, its status is of the closed set *)
(* and, if it leads on, not terminal.                                      *)
LEMMA StepOfRun ==
  ASSUME Inv, pc = "patch"
  PROVE  /\ step \in DOMAIN Flow
         /\ GotoTargets(Flow[step]) \subseteq DOMAIN Flow
         /\ StatusMapTargets(Flow[step]) \subseteq DOMAIN Flow
         /\ EmitStatus(Flow[step]) \in PaymentStatuses \cup {""}
         /\ Flow[step].goto # "" => EmitStatus(Flow[step]) \notin TerminalStatuses
<1>1. step \in DOMAIN Flow
  BY DEF Inv, TypeOK
<1>2. /\ ~ DanglingGoto(Flow) /\ ~ DanglingStatusMapTarget(Flow)
      /\ ~ OutsideClosedEnum(Flow) /\ ~ TerminalTransitions(Flow)
  BY FlowOfRun, ValidFlow DEF Flow, PastPrepare
<1> QED
  BY <1>1, <1>2 DEF DanglingGoto, DanglingStatusMapTarget, OutsideClosedEnum,
                    TerminalTransitions

(* The next action a step emits has a literal type, announced by the       *)
(* manifest, and evaluating it keeps its type and its fields.              *)
LEMMA OwnNextActionDeclared ==
  ASSUME Inv, pc = "patch", EmitNextAction(Flow[step]) # Nil
  PROVE  Declared(OwnNextAction)
<1> DEFINE f == manifest.operations[cassette.operation]
           emit == Flow[step].emit
           na == emit.next_action
           type == NextActionType(emit)
<1>1. /\ f \in DOMAIN manifest.flows /\ Flow = manifest.flows[f] /\ step \in DOMAIN Flow
      /\ Validated(manifest)
  BY FlowOfRun, StepOfRun DEF Flow, PastPrepare
<1>2. ~ MalformedNextAction(Flow) /\ ~ OutsideClosedEnum(Flow)
  BY <1>1, ValidFlow
<1>3. emit # Nil /\ na # Nil /\ EmitNextAction(Flow[step]) = na
  BY DEF EmitNextAction
<1>4. type \in NextActions
  BY <1>1, <1>2 DEF MalformedNextAction, OutsideClosedEnum
<1>5. "type" \in DOMAIN na /\ na["type"].ns = "literal" /\ na["type"].path = type
  BY <1>3, <1>4 DEF NextActionType, NextActions
<1>6. type \in manifest.capabilities.next_actions
  <2>1. type \in EmittedNextActions(manifest)
    <3>1. Flow \in ValuesOf(manifest.flows) /\ Flow[step] \in ValuesOf(Flow)
      BY <1>1 DEF ValuesOf
    <3>2. Flow[step] \in UNION {ValuesOf(g) : g \in ValuesOf(manifest.flows)}
      BY <3>1
    <3>3. type # ""
      BY <1>4 DEF NextActions
    <3> QED
      BY <3>2, <3>3 DEF EmittedNextActions
  <2> QED
    BY <1>1, <2>1, ValidOperations
<1>7. /\ NextActionFields[type].required \subseteq DOMAIN na
      /\ DOMAIN na \subseteq {"type"} \cup NextActionFields[type].required
                                    \cup NextActionFields[type].optional
  BY <1>1, <1>4, ValidPayload
<1> HIDE DEF type, na, emit
<1>8. DOMAIN OwnNextAction = DOMAIN na /\ OwnNextAction["type"] = type
  BY <1>3, <1>5 DEF OwnNextAction, EvaluateAll, Evaluate
<1> QED
  BY <1>4, <1>5, <1>6, <1>7, <1>8 DEF Declared

-----------------------------------------------------------------------------
(***************************************************************************)
(* The invariant of a run over a validated manifest.                       *)
(***************************************************************************)
StatusOpen == status \in (PaymentStatuses \ TerminalStatuses) \cup {""}
Offered == nextAction # Nil => Declared(nextAction)
ResultClosed ==
  pc = "done" =>
    /\ result.status \in PaymentStatuses \cup {""}
    /\ result.next_action # Nil => Declared(result.next_action)

ValidInv ==
  /\ NoStructuralError /\ StatusOpen /\ Offered
  /\ FailureFollowsTable /\ ResultClosed

LEMMA InitValid == Init => ValidInv
BY DEF Init, ValidInv, NoStructuralError, StatusOpen, Offered, FailureFollowsTable,
       ResultClosed

LEMMA FailValid ==
  ASSUME ValidInv, NEW reason, Fail(reason),
         reason \notin {"unknown-flow", "entry-step", "missing-step"}
  PROVE  ValidInv'
BY DEF ValidInv, Fail, Locals, NoStructuralError, StatusOpen, Offered, Declared,
       FailureFollowsTable, ResultClosed

(* A step that does not return and leaves status and next action alone.    *)
LEMMA KeepValid ==
  ASSUME ValidInv, pc' # "done", UNCHANGED <<manifest, status, nextAction, error>>
  PROVE  ValidInv'
BY DEF ValidInv, NoStructuralError, StatusOpen, Offered, Declared, FailureFollowsTable,
       ResultClosed

LEMMA ReturnValid ==
  ASSUME ValidInv, NEW outcome, Return(outcome),
         outcome.status \in PaymentStatuses \cup {""},
         outcome.next_action # Nil => Declared(outcome.next_action),
         outcome.failure # Nil =>
           /\ outcome.failure.failure_code \in FailureCodes \ {"ProviderTimeout", "Unknown"}
           /\ outcome.failure.retry_class = FailureRetryMap[outcome.failure.failure_code]
           /\ outcome.failure.retry_class # "ResolveFirst"
  PROVE  ValidInv'
<1>1. /\ pc' = "done" /\ result' = outcome
      /\ UNCHANGED <<manifest, status, nextAction, error>>
  BY DEF Return, Locals
<1>2. NoStructuralError' /\ StatusOpen' /\ Offered'
  BY <1>1 DEF ValidInv, NoStructuralError, StatusOpen, Offered, Declared
<1>3. FailureFollowsTable'
  BY <1>1 DEF FailureFollowsTable
<1>4. ResultClosed'
  BY <1>1 DEF ResultClosed, Declared
<1> QED
  BY <1>2, <1>3, <1>4 DEF ValidInv

-----------------------------------------------------------------------------
LEMMA PrepareFailsValid == Inv /\ ValidInv /\ PrepareFails => ValidInv'
<1> SUFFICES ASSUME Inv, ValidInv, PrepareFails PROVE ValidInv'
  OBVIOUS
<1>1. Validated(manifest)
  BY ManifestsValidated DEF Inv, Prepared
<1>2. cassette.operation \in DOMAIN manifest.operations =>
        /\ manifest.operations[cassette.operation] \in DOMAIN manifest.flows
        /\ HasEntryStep(manifest.flows[manifest.operations[cassette.operation]])
  BY <1>1, ValidOperations, ValidFlow DEF ValuesOf
<1>3. PrepareError(manifest, cassette) \notin {"unknown-flow", "entry-step", "missing-step"}
  BY <1>2 DEF PrepareError
<1> QED
  BY <1>3, FailValid DEF PrepareFails

LEMMA TransportFailureValid == ValidInv /\ TransportFailure => ValidInv'
<1> SUFFICES ASSUME ValidInv, TransportFailure PROVE ValidInv'
  OBVIOUS
<1> DEFINE outcome == PaymentResult(cassette, state, "Processing", SyntheticPoll, Nil)
<1>1. /\ outcome.status = "Processing" /\ outcome.next_action = SyntheticPoll
      /\ outcome.failure = Nil /\ Return(outcome)
  BY DEF PaymentResult, TransportFailure
<1> HIDE DEF outcome
<1> QED
  BY <1>1, SyntheticPollDeclared, ReturnValid DEF PaymentStatuses

(* A matched entry gives a failure of the table, or no failure at all.     *)
LEMMA MatchErrorValid == Inv /\ ValidInv /\ MatchError => ValidInv'
<1> SUFFICES ASSUME Inv, ValidInv, MatchError PROVE ValidInv'
  OBVIOUS
<1> DEFINE first == FirstMatch(manifest.errors, Doc, Interaction.response.status)
           entry == manifest.errors[first]
           outcome == ErrorOutcome(cassette, state, entry)
<1>1. MatchingEntries # {} /\ Return(outcome)
  BY DEF MatchError
<1>2. PICK n \in Nat : DOMAIN manifest.errors = 1 .. n
  BY ErrorsAreLists DEF Inv, Prepared
<1>3. first \in DOMAIN manifest.errors
  BY <1>1, <1>2, FirstMatchIsFirst DEF MatchingEntries, Matching
<1>4. Validated(manifest)
  BY ManifestsValidated DEF Inv, Prepared
<1> HIDE DEF first
<1>5. /\ entry.failure_code \in FailureCodes /\ entry.retry_class \in RetryClasses
      /\ FailureRetryMap[entry.failure_code] = entry.retry_class
  BY <1>3, <1>4, ValidErrors
<1> HIDE DEF entry
<1>6. CASE entry.failure_code \in {"ProviderTimeout", "Unknown"}
  <2>1. /\ outcome.status = "Processing" /\ outcome.next_action = SyntheticPoll
        /\ outcome.failure = Nil
    BY <1>6 DEF ErrorOutcome, PaymentResult
  <2> HIDE DEF outcome
  <2> QED
    BY <1>1, <2>1, SyntheticPollDeclared, ReturnValid DEF PaymentStatuses
<1>7. CASE entry.failure_code \notin {"ProviderTimeout", "Unknown"}
  <2>1. /\ outcome.status = "Failed" /\ outcome.next_action = Nil
        /\ outcome.failure = Failure(entry.failure_code, entry.retry_class)
    BY <1>7 DEF ErrorOutcome, PaymentResult
  <2>2. FailureRetryMap[entry.failure_code] # "ResolveFirst"
    BY <1>5, <1>7 DEF FailureRetryMap
  <2>3. /\ outcome.failure.failure_code = entry.failure_code
        /\ outcome.failure.retry_class = entry.retry_class
    BY <2>1 DEF Failure
  <2> HIDE DEF outcome
  <2>4. /\ outcome.status \in PaymentStatuses \cup {""}
        /\ outcome.failure.failure_code \in FailureCodes \ {"ProviderTimeout", "Unknown"}
        /\ outcome.failure.retry_class = FailureRetryMap[outcome.failure.failure_code]
        /\ outcome.failure.retry_class # "ResolveFirst"
    BY <1>5, <1>7, <2>1, <2>2, <2>3 DEF PaymentStatuses
  <2> QED
    BY <1>1, <2>1, <2>4, ReturnValid
<1> QED
  BY <1>6, <1>7

(* Every target of a status_map is a step, so following it cannot fail for *)
(* want of one.                                                            *)
LEMMA FollowStatusMapValid == Inv /\ ValidInv /\ FollowStatusMap => ValidInv'
<1> SUFFICES ASSUME Inv, ValidInv, FollowStatusMap PROVE ValidInv'
  OBVIOUS
<1> DEFINE map == Flow[step].status_map
           target == map.values[Doc[map.path]]
<1>1. CASE Fail("status-path-unresolved") \/ Fail("status-value-unmapped")
  BY <1>1, FailValid
<1>2. CASE Doc[map.path] \in DOMAIN map.values /\ ~ (Enter(target) /\ UNCHANGED <<status, nextAction>>)
           /\ target \notin DOMAIN Flow
  <2>1. map # Nil /\ pc = "patch"
    BY DEF FollowStatusMap, AtEntryStatusMap
  <2>2. target \in StatusMapTargets(Flow[step])
    BY <1>2, <2>1 DEF StatusMapTargets, ValuesOf
  <2> QED
    BY <1>2, <2>1, <2>2, StepOfRun
<1>3. CASE Enter(target) /\ UNCHANGED <<status, nextAction>>
  BY <1>3, KeepValid DEF Enter
<1> QED
  BY <1>1, <1>2, <1>3 DEF FollowStatusMap

(* What a step leaves in status and next_action.                           *)
LEMMA AfterStep ==
  ASSUME Inv, ValidInv, pc = "patch"
  PROVE  /\ StatusAfter \in PaymentStatuses \cup {""}
         /\ Flow[step].goto # "" => StatusAfter \notin TerminalStatuses
         /\ NextActionAfter # Nil => Declared(NextActionAfter)
<1>1. StatusAfter \in PaymentStatuses \cup {""}
      /\ (Flow[step].goto # "" => StatusAfter \notin TerminalStatuses)
  BY StepOfRun DEF ValidInv, StatusOpen, StatusAfter, TerminalStatuses
<1>2. NextActionAfter # Nil => Declared(NextActionAfter)
  BY OwnNextActionDeclared DEF ValidInv, Offered, NextActionAfter
<1> QED
  BY <1>1, <1>2

LEMMA FollowGotoValid == Inv /\ ValidInv /\ FollowGoto => ValidInv'
<1> SUFFICES ASSUME Inv, ValidInv, FollowGoto PROVE ValidInv'
  OBVIOUS
<1>1. pc = "patch" /\ Flow[step].goto # ""
  BY DEF FollowGoto, AtEmit
<1>2. Flow[step].goto \in DOMAIN Flow
  BY <1>1, StepOfRun DEF GotoTargets
<1>3. /\ status' = StatusAfter /\ nextAction' = NextActionAfter /\ pc' = "patch"
      /\ UNCHANGED <<manifest, error>>
  BY <1>2 DEF FollowGoto, Enter
<1>4. StatusOpen' /\ Offered'
  BY <1>1, <1>3, AfterStep DEF StatusOpen, Offered, Declared
<1>5. NoStructuralError' /\ FailureFollowsTable' /\ ResultClosed'
  BY <1>3 DEF ValidInv, NoStructuralError, FailureFollowsTable, ResultClosed
<1> QED
  BY <1>4, <1>5 DEF ValidInv

LEMMA LeafValid == Inv /\ ValidInv /\ Leaf => ValidInv'
<1> SUFFICES ASSUME Inv, ValidInv, Leaf PROVE ValidInv'
  OBVIOUS
<1> DEFINE outcome == PaymentResult(cassette, state, StatusAfter, NextActionAfter, Nil)
<1>1. /\ outcome.status = StatusAfter /\ outcome.next_action = NextActionAfter
      /\ outcome.failure = Nil /\ Return(outcome) /\ pc = "patch"
  BY DEF PaymentResult, Leaf, AtEmit
<1> HIDE DEF outcome
<1> QED
  BY <1>1, AfterStep, ReturnValid

LEMMA StepValid == Inv /\ ValidInv /\ [Next]_vars => ValidInv'
<1> SUFFICES ASSUME Inv, ValidInv, [Next]_vars PROVE ValidInv'
  OBVIOUS
<1>1. CASE Prepare
  BY <1>1, KeepValid DEF Prepare
<1>2. CASE ReceiveWebhook
  <2>1. CASE Enter(Entry) /\ UNCHANGED <<status, nextAction>>
    BY <2>1, KeepValid DEF Enter
  <2> QED
    BY <1>2, <2>1, FailValid DEF ReceiveWebhook
<1>3. CASE NoInteraction
  BY <1>3, FailValid DEF NoInteraction
<1>4. CASE AssertRequest \/ ReceiveResponse
  <2>1. CASE \E label \in {"response", "errors"} : Goto(label)
    BY <2>1, KeepValid DEF Goto, Locals
  <2> QED
    BY <1>4, <2>1, FailValid DEF AssertRequest, ReceiveResponse
<1>5. CASE NoErrorMatches
  BY <1>5, KeepValid DEF NoErrorMatches, Enter
<1>6. CASE \E k \in pending : PatchKey(k)
  <2> PICK k \in pending : PatchKey(k)
    BY <1>6
  <2>1. pc = "patch" /\ (Fail("unresolved-state")
                         \/ UNCHANGED <<manifest, pc, status, nextAction, error>>)
    BY DEF PatchKey
  <2> QED
    BY <2>1, FailValid, KeepValid
<1>7. CASE EmitUnresolved
  BY <1>7, FailValid DEF EmitUnresolved
<1>8. CASE Finished \/ UNCHANGED vars
  BY <1>8 DEF Finished, vars, ValidInv, NoStructuralError, StatusOpen, Offered, Declared,
              FailureFollowsTable, ResultClosed
<1> QED
  BY <1>1, <1>2, <1>3, <1>4, <1>5, <1>6, <1>7, <1>8, PrepareFailsValid,
     TransportFailureValid, MatchErrorValid, FollowStatusMapValid, FollowGotoValid,
     LeafValid DEF Next

(* Every state of every run over validated manifests satisfies ValidInv.   *)
THEOREM ValidInvariance == Spec => [](Inv /\ ValidInv)
BY InitInv, StepInv, InitValid, StepValid, PTL DEF Spec

-----------------------------------------------------------------------------
(* No run over a validated manifest fails for want of a flow, an entry     *)
(* step or a step.                                                         *)
THEOREM StructureIsSound == Spec => []NoStructuralError
<1>1. ValidInv => NoStructuralError
  BY DEF ValidInv
<1> QED
  BY <1>1, ValidInvariance, PTL

(* Invariant I2: no step is taken after one that emitted a terminal status.*)
THEOREM TerminalIsLast == Spec => []TerminalStatusIsLast
<1>1. ValidInv => TerminalStatusIsLast
  BY DEF ValidInv, StatusOpen, TerminalStatusIsLast, TerminalStatuses
<1> QED
  BY <1>1, ValidInvariance, PTL

(* Invariants I4 and I10: a failure has the retry class of the table and   *)
(* is never one that must be resolved first.                               *)
THEOREM FailuresFollowTable == Spec => []FailureFollowsTable
<1>1. ValidInv => FailureFollowsTable
  BY DEF ValidInv
<1> QED
  BY <1>1, ValidInvariance, PTL

(* Invariant I3: a next action is announced by the manifest and carries    *)
(* the payload of its variant.                                             *)
THEOREM NextActionsAreDeclared == Spec => []NextActionIsDeclared
<1>1. ValidInv => NextActionIsDeclared
  BY DEF ValidInv, ResultClosed, Declared, NextActionIsDeclared
<1> QED
  BY <1>1, ValidInvariance, PTL

(* The integrator reads only fields the payload table requires.            *)
LEMMA ReadFieldsRequired ==
  ASSUME NEW type \in NextActions
  PROVE  ReadFields(type) \subseteq NextActionFields[type].required
<1>1. CASE type \in {"None", "Capture"}
  BY <1>1 DEF ReadFields, TextFields, NumberFields, ObjectFields, NextActionFields, Payload
<1>2. CASE type = "RedirectToUrl"
  BY <1>2 DEF ReadFields, TextFields, NumberFields, ObjectFields, NextActionFields, Payload
<1>3. CASE type = "AwaitDevicePush"
  BY <1>3 DEF ReadFields, TextFields, NumberFields, ObjectFields, NextActionFields, Payload
<1>4. CASE type = "SubmitOtp"
  BY <1>4 DEF ReadFields, TextFields, NumberFields, ObjectFields, NextActionFields, Payload
<1>5. CASE type = "DisplayQr"
  BY <1>5 DEF ReadFields, TextFields, NumberFields, ObjectFields, NextActionFields, Payload
<1>6. CASE type = "ShowTransferDetails"
  BY <1>6 DEF ReadFields, TextFields, NumberFields, ObjectFields, NextActionFields, Payload
<1>7. CASE type = "DialUssd"
  BY <1>7 DEF ReadFields, TextFields, NumberFields, ObjectFields, NextActionFields, Payload
<1>8. CASE type = "Poll"
  BY <1>8 DEF ReadFields, TextFields, NumberFields, ObjectFields, NextActionFields, Payload
<1> QED
  BY <1>1, <1>2, <1>3, <1>4, <1>5, <1>6, <1>7, <1>8 DEF NextActions

LEMMA RetryTableIsClosed == \A c \in FailureCodes : FailureRetryMap[c] \in RetryClasses
BY DEF FailureRetryMap, RetryClasses

(* Invariant I12: the integrator meets nothing outside the closed sets and *)
(* misses no required field.                                               *)
THEOREM IntegratorIsClosed == Spec => []IntegratorMeetsClosedSets
<1>1. ValidInv => IntegratorMeetsClosedSets
  <2> SUFFICES ASSUME ValidInv, pc = "done"
               PROVE  Handle(result) \notin
                        {"unknown-status", "unknown-next-action", "missing-field",
                         "unknown-retry-class"}
    BY DEF IntegratorMeetsClosedSets
  <2>1. result.status \in PaymentStatuses \cup {""}
    BY DEF ValidInv, ResultClosed
  <2>2. result.failure # Nil => result.failure.retry_class \in RetryClasses
    BY RetryTableIsClosed DEF ValidInv, FailureFollowsTable
  <2>3. HandleNextAction(result.next_action) \in {"", "no-next-action", "mistyped-field"}
    <3>1. CASE result.next_action = Nil
      BY <3>1 DEF HandleNextAction
    <3>2. CASE result.next_action # Nil
      <4> DEFINE na == result.next_action
      <4>1. /\ "type" \in DOMAIN na /\ na["type"] \in NextActions
            /\ NextActionFields[na["type"]].required \subseteq DOMAIN na
        BY <3>2 DEF ValidInv, ResultClosed, Declared
      <4>2. ReadFields(na["type"]) \subseteq DOMAIN na
        BY <4>1, ReadFieldsRequired
      <4> QED
        BY <3>2, <4>1, <4>2 DEF HandleNextAction
    <3> QED
      BY <3>1, <3>2
  <2> QED
    BY <2>1, <2>2, <2>3 DEF Handle, PaymentStatuses
<1> QED
  BY <1>1, ValidInvariance, PTL

-----------------------------------------------------------------------------
(***************************************************************************)
(* What the integrator can handle.  A nil pointer is no map: the one fact  *)
(* about Nil that the theorem below needs, and states.                     *)
(***************************************************************************)
NilIsNoMap == \A S, T : Nil \notin [S -> T]

Answered(r) ==
  \/ r.status \in {"Succeeded", "Canceled", "Expired"}
  \/ r.status = "Failed" /\ r.failure # Nil
  \/ r.status \in {"RequiresAction", "Processing"} /\ r.next_action # Nil

Answers == pc = "done" /\ LeavesSpeak(Flow) => Answered(result)

(* What is a map is there.                                                 *)
LEMMA MapIsThere == ASSUME NilIsNoMap, NEW S, NEW T, NEW f \in [S -> T] PROVE f # Nil
BY DEF NilIsNoMap

(* The synthesized Poll, a failure and an evaluated next action are maps.  *)
LEMMA PollIsThere == ASSUME NilIsNoMap PROVE SyntheticPoll # Nil
<1>1. SyntheticPoll \in [{"type", "interval_ms"} -> {"Poll", DefaultPollIntervalMs}]
  BY DEF SyntheticPoll
<1> QED
  BY <1>1, MapIsThere, Zenon

LEMMA FailureIsThere == ASSUME NilIsNoMap, NEW code, NEW class PROVE Failure(code, class) # Nil
<1>1. Failure(code, class) \in [{"failure_code", "retry_class"} -> {code, class}]
  BY DEF Failure
<1> QED
  BY <1>1, MapIsThere, Zenon

LEMMA OwnNextActionIsThere == ASSUME NilIsNoMap PROVE OwnNextAction # Nil
<1>1. ASSUME NEW map, NEW ns, NEW st, NEW doc PROVE EvaluateAll(map, ns, st, doc) # Nil
  <2> DEFINE all == EvaluateAll(map, ns, st, doc)
  <2>1. all \in [DOMAIN map -> {all[k] : k \in DOMAIN map}]
    BY DEF EvaluateAll
  <2> QED
    BY <2>1, MapIsThere, Zenon
<1>2. EmptyMap # Nil
  <2>1. EmptyMap \in [{} -> {""}]
    BY DEF EmptyMap
  <2> QED
    BY <2>1, MapIsThere, Zenon
<1> QED
  BY <1>1, <1>2 DEF OwnNextAction

(* A matched entry says Processing with a Poll, or Failed with a failure.  *)
LEMMA ErrorOutcomeAnswers ==
  ASSUME NilIsNoMap, NEW cas, NEW st, NEW entry
  PROVE  Answered(ErrorOutcome(cas, st, entry))
BY PollIsThere, FailureIsThere DEF ErrorOutcome, PaymentResult, Answered

(* A leaf that speaks says something the integrator can act on.            *)
LEMMA LeafAnswers ==
  ASSUME NilIsNoMap, Inv, Leaf, LeavesSpeak(Flow)
  PROVE  Answered(result')
<1>1. /\ pc = "patch" /\ Flow[step].goto = "" /\ ~ AtEntryStatusMap
      /\ result' = PaymentResult(cassette, state, StatusAfter, NextActionAfter, Nil)
  BY DEF Leaf, AtEmit, Return
<1>2. step \in DOMAIN Flow /\ EmitStatus(Flow[step]) \in PaymentStatuses \cup {""}
  BY <1>1, StepOfRun
<1>3. /\ EmitStatus(Flow[step]) \notin {"", "Failed"}
      /\ EmitStatus(Flow[step]) \notin TerminalStatuses => EmitNextAction(Flow[step]) # Nil
  BY <1>1, <1>2 DEF LeavesSpeak, AtEntryStatusMap, Entry
<1>4. /\ result'.status = EmitStatus(Flow[step])
      /\ EmitNextAction(Flow[step]) # Nil => result'.next_action = OwnNextAction
  BY <1>1, <1>3 DEF PaymentResult, StatusAfter, NextActionAfter
<1> QED
  BY <1>2, <1>3, <1>4, OwnNextActionIsThere DEF Answered, PaymentStatuses, TerminalStatuses

(* A run returns in three places only, and what it returns there answers.  *)
LEMMA StepAnswers ==
  ASSUME NilIsNoMap, Inv, Answers, [Next]_vars
  PROVE  Answers'
<1>1. CASE pc' # "done"
  BY <1>1 DEF Answers
<1>2. CASE TransportFailure
  <2>1. Answered(result')
    BY <1>2, PollIsThere DEF TransportFailure, Return, PaymentResult, Answered
  <2> QED
    BY <2>1 DEF Answers, Answered
<1>3. CASE MatchError
  <2>1. Answered(result')
    BY <1>3, ErrorOutcomeAnswers DEF MatchError, Return
  <2> QED
    BY <2>1 DEF Answers, Answered
<1>4. CASE Leaf
  <2>1. LeavesSpeak(Flow) => Answered(result')
    BY <1>4, LeafAnswers
  <2>2. Flow' = Flow
    BY <1>4 DEF Leaf, Return, Flow
  <2> QED
    BY <2>1, <2>2 DEF Answers, Answered, LeavesSpeak
<1>5. CASE UNCHANGED vars
  BY <1>5 DEF vars, Answers, Answered, LeavesSpeak, Flow
<1>6. CASE ~ (TransportFailure \/ MatchError \/ Leaf \/ UNCHANGED vars)
  <2>1. \A reason : Fail(reason) => pc' # "done"
    BY DEF Fail
  <2>2. \A name : Enter(name) => pc' # "done"
    BY DEF Enter
  <2>3. \A label : Goto(label) => pc' = label
    BY DEF Goto
  <2>4. CASE PrepareFails \/ Prepare \/ ReceiveWebhook \/ NoInteraction
    BY <1>1, <2>1, <2>2, <2>4 DEF PrepareFails, Prepare, ReceiveWebhook, NoInteraction
  <2>5. CASE AssertRequest \/ ReceiveResponse \/ NoErrorMatches \/ EmitUnresolved
    BY <1>1, <2>1, <2>2, <2>3, <2>5
       DEF AssertRequest, ReceiveResponse, NoErrorMatches, EmitUnresolved
  <2>6. CASE FollowStatusMap
    BY <1>1, <2>1, <2>2, <2>6 DEF FollowStatusMap
  <2>7. CASE FollowGoto
    BY <1>1, <2>1, <2>2, <2>7 DEF FollowGoto
  <2>8. CASE \E k \in pending : PatchKey(k)
    BY <1>1, <2>1, <2>8 DEF PatchKey
  <2> QED
    BY <1>6, <2>4, <2>5, <2>6, <2>7, <2>8 DEF Next, Finished
<1> QED
  BY <1>2, <1>3, <1>4, <1>5, <1>6

(* The integrator handles every result of a run whose leaves speak, the    *)
(* types of payload values aside.                                          *)
THEOREM ResultsAreHandled == ASSUME NilIsNoMap PROVE Spec => []IntegratorHandles
<1>1. Init => Answers
  BY DEF Init, Answers
<1>2. Inv /\ Answers /\ [Next]_vars => Answers'
  BY StepAnswers
<1>3. Answers /\ IntegratorMeetsClosedSets => IntegratorHandles
  <2> SUFFICES ASSUME Answers, IntegratorMeetsClosedSets, pc = "done", LeavesSpeak(Flow)
               PROVE  Handle(result) \in {"", "mistyped-field"}
    BY DEF IntegratorHandles
  <2>1. Answered(result)
    BY DEF Answers
  <2>2. Handle(result) \notin {"unknown-status", "unknown-next-action", "missing-field",
                               "unknown-retry-class"}
    BY DEF IntegratorMeetsClosedSets
  <2> QED
    BY <2>1, <2>2 DEF Answered, Handle, HandleNextAction
<1> QED
  BY <1>1, <1>2, <1>3, ValidInvariance, IntegratorIsClosed, PTL DEF Spec

=============================================================================
