------------------------- MODULE InterpreterProofs -------------------------
(***************************************************************************)
(* Theorems about the interpreter for every set of manifests, valid or     *)
(* not, and every set of cassettes.  They all follow from one inductive    *)
(* invariant, Inv, that says how much of its work Run has behind it at     *)
(* each pc.                                                                *)
(***************************************************************************)
EXTENDS Interpreter, WellFoundedInduction, TLAPS

PastPrepare == {"webhook", "request", "response", "errors", "patch", "done"}
BeforeFlow == {"webhook", "request", "response", "errors"}

(* The manifest is one of the given ones, and past prepare the operation   *)
(* has a flow with an entry step.                                          *)
Prepared ==
  /\ manifest \in Manifests
  /\ pc \in PastPrepare => PrepareError(manifest, cassette) = ""

(* Before the flow is entered the state is the cassette's.                 *)
Untouched == pc \in BeforeFlow => state = cassette.state

(* Only a webhook skips the exchange, only an answered request gets to     *)
(* errors[], and only a response that matches none of them to the flow.    *)
Routed ==
  /\ pc = "webhook" => cassette.operation = "webhook"
  /\ pc \in {"request", "response", "errors"} => cassette.operation # "webhook"
  /\ pc = "errors" => ~ cassette.transport_failure
  /\ pc = "patch" /\ cassette.operation # "webhook" =>
       ~ cassette.transport_failure /\ MatchingEntries = {}

Inv ==
  /\ Prepared /\ TypeOK /\ Untouched /\ Routed
  /\ StateIsPatched /\ TransportFailureIsUnknown /\ MatchedErrorBypassesFlow

-----------------------------------------------------------------------------
(* A set of natural numbers that is not empty has a least element.         *)
LEMMA LeastNatural ==
  ASSUME NEW T \in SUBSET Nat, T # {}
  PROVE  \E i \in T : \A j \in T : i <= j
<1>1. PICK i \in T : \A j \in T : ~ (<<j, i>> \in OpToRel(<, Nat))
  BY NatLessThanWellFounded, WFMin
<1>2. \A j \in T : ~ (j < i)
  BY <1>1 DEF OpToRel
<1> QED
  BY <1>2

(* matchError returns a matching entry that no matching entry precedes.    *)
LEMMA FirstMatchIsFirst ==
  ASSUME NEW errors, NEW doc, NEW http, NEW n \in Nat, DOMAIN errors = 1 .. n,
         Matching(errors, doc, http) # {}
  PROVE  /\ FirstMatch(errors, doc, http) \in Matching(errors, doc, http)
         /\ \A j \in Matching(errors, doc, http) : FirstMatch(errors, doc, http) <= j
<1> DEFINE M == Matching(errors, doc, http)
<1>1. M \in SUBSET Nat /\ M # {}
  BY DEF Matching
<1>2. \E i \in M : \A j \in M : i <= j
  <2> HIDE DEF M
  <2> QED BY <1>1, LeastNatural
<1> QED
  BY <1>2 DEF FirstMatch

(* The entry step FindEntryStep returns is a step of the flow.             *)
LEMMA EntryIsAStep ==
  ASSUME PrepareError(manifest, cassette) = ""
  PROVE  Entry \in DOMAIN Flow
<1>1. HasEntryStep(Flow)
  BY DEF PrepareError, Flow
<1> QED
  BY <1>1 DEF HasEntryStep, EntryStep, Entry

LEMMA InitInv == Init => Inv
  BY DEF Init, Inv, Prepared, TypeOK, Untouched, Routed, StateIsPatched,
         TransportFailureIsUnknown, MatchedErrorBypassesFlow, PastPrepare, BeforeFlow,
         Labels

-----------------------------------------------------------------------------
(* A run that fails keeps its invariant, whatever the reason.              *)
LEMMA FailInv ==
  ASSUME Inv, pc # "done", NEW reason, reason # "", Fail(reason)
  PROVE  Inv'
<1>1. /\ pc' = "error" /\ error' # "" /\ result' = Nil
      /\ manifest' = manifest
  BY DEF Inv, Fail, TypeOK
<1>2. Prepared'
  BY <1>1 DEF Inv, Prepared, PastPrepare
<1>3. TypeOK'
  BY <1>1 DEF TypeOK, Labels
<1>4. Untouched' /\ Routed'
  BY <1>1 DEF Untouched, Routed, BeforeFlow
<1>5. StateIsPatched' /\ TransportFailureIsUnknown' /\ MatchedErrorBypassesFlow'
  BY <1>1 DEF StateIsPatched, TransportFailureIsUnknown, MatchedErrorBypassesFlow
<1> QED
  BY <1>2, <1>3, <1>4, <1>5 DEF Inv

(* A run that enters a step of its flow keeps its invariant.               *)
LEMMA EnterInv ==
  ASSUME Inv, pc \in PastPrepare \ {"done"}, NEW name \in DOMAIN Flow, Enter(name),
         cassette.operation # "webhook" =>
           ~ cassette.transport_failure /\ MatchingEntries = {}
  PROVE  Inv'
<1>1. /\ pc' = "patch" /\ step' = name /\ pending' = EmitKeys(Flow[name])
      /\ UNCHANGED <<manifest, cassette, state, result, error>>
  BY DEF Enter
<1>2. Flow' = Flow /\ MatchingEntries' = MatchingEntries /\ WrittenKeys' = WrittenKeys
  BY <1>1 DEF Flow, MatchingEntries, Interaction, Doc, WrittenKeys
<1>3. Prepared'
  BY <1>1 DEF Inv, Prepared, PastPrepare
<1>4. TypeOK'
  BY <1>1, <1>2 DEF Inv, TypeOK, Labels, PastPrepare
<1>5. Untouched' /\ Routed'
  BY <1>1, <1>2 DEF Untouched, Routed, BeforeFlow
<1>6. StateIsPatched'
  <2>1. CASE pc \in BeforeFlow
    BY <1>1, <1>2, <2>1 DEF Inv, StateIsPatched, Untouched
  <2>2. CASE pc = "patch"
    BY <1>1, <1>2, <2>2 DEF Inv, StateIsPatched
  <2> QED
    BY <2>1, <2>2 DEF PastPrepare, BeforeFlow
<1>7. TransportFailureIsUnknown' /\ MatchedErrorBypassesFlow'
  BY <1>1 DEF TransportFailureIsUnknown, MatchedErrorBypassesFlow
<1> QED
  BY <1>3, <1>4, <1>5, <1>6, <1>7 DEF Inv

(* A run that moves on to the next label before the flow keeps it too.     *)
LEMMA GotoInv ==
  ASSUME Inv, pc \in {"request", "response"}, NEW label \in {"response", "errors"},
         Goto(label), label = "errors" => ~ cassette.transport_failure
  PROVE  Inv'
<1>1. /\ pc' = label
      /\ UNCHANGED <<manifest, cassette, step, pending, state, status, nextAction,
                     result, error>>
  BY DEF Goto, Locals
<1>2. Prepared' /\ Untouched' /\ Routed'
  BY <1>1 DEF Inv, Prepared, Untouched, Routed, PastPrepare, BeforeFlow
<1>3. TypeOK'
  BY <1>1 DEF Inv, TypeOK, Labels
<1>4. StateIsPatched' /\ TransportFailureIsUnknown' /\ MatchedErrorBypassesFlow'
  BY <1>1 DEF StateIsPatched, TransportFailureIsUnknown, MatchedErrorBypassesFlow
<1> QED
  BY <1>2, <1>3, <1>4 DEF Inv

(* A run that returns keeps its invariant if what it returns obeys the two *)
(* properties about results.                                               *)
LEMMA ReturnInv ==
  ASSUME Inv, pc \in PastPrepare \ {"done"}, NEW outcome, Return(outcome),
         TransportFailureIsUnknown', MatchedErrorBypassesFlow'
  PROVE  Inv'
<1>1. /\ pc' = "done"
      /\ UNCHANGED <<manifest, cassette, step, pending, state, error>>
  BY DEF Return, Locals
<1>2. Prepared' /\ Untouched' /\ Routed'
  BY <1>1 DEF Inv, Prepared, Untouched, Routed, PastPrepare, BeforeFlow
<1>3. TypeOK'
  BY <1>1 DEF Inv, TypeOK, Labels, PastPrepare
<1>4. StateIsPatched'
  <2>1. Flow' = Flow /\ WrittenKeys' = WrittenKeys
    BY <1>1 DEF Flow, WrittenKeys
  <2>2. CASE pc \in BeforeFlow
    BY <1>1, <2>1, <2>2 DEF Inv, StateIsPatched, Untouched
  <2>3. CASE pc = "patch"
    BY <1>1, <2>1, <2>3 DEF Inv, StateIsPatched
  <2> QED
    BY <2>2, <2>3 DEF PastPrepare, BeforeFlow
<1> QED
  BY <1>2, <1>3, <1>4 DEF Inv

-----------------------------------------------------------------------------
LEMMA PrepareInv == Inv /\ Prepare => Inv'
<1> SUFFICES ASSUME Inv, Prepare PROVE Inv'
  OBVIOUS
<1>1. /\ pc = "prepare" /\ pc' \in {"webhook", "request"} /\ state' = cassette.state
      /\ pc' = "webhook" <=> cassette.operation = "webhook"
      /\ UNCHANGED <<manifest, cassette, step, pending, status, nextAction, result, error>>
      /\ PrepareError(manifest, cassette) = ""
  BY DEF Prepare
<1>2. Prepared' /\ Untouched' /\ Routed'
  BY <1>1 DEF Inv, Prepared, Untouched, Routed, PastPrepare, BeforeFlow
<1>3. TypeOK'
  BY <1>1 DEF Inv, TypeOK, Labels
<1>4. StateIsPatched' /\ TransportFailureIsUnknown' /\ MatchedErrorBypassesFlow'
  BY <1>1 DEF StateIsPatched, TransportFailureIsUnknown, MatchedErrorBypassesFlow
<1> QED
  BY <1>2, <1>3, <1>4 DEF Inv

LEMMA ReceiveWebhookInv == Inv /\ ReceiveWebhook => Inv'
<1> SUFFICES ASSUME Inv, ReceiveWebhook PROVE Inv'
  OBVIOUS
<1>1. pc = "webhook" /\ cassette.operation = "webhook"
  BY DEF ReceiveWebhook, Inv, Routed
<1>2. CASE Enter(Entry)
  <2>1. Entry \in DOMAIN Flow
    BY <1>1, EntryIsAStep DEF Inv, Prepared, PastPrepare
  <2> QED
    BY <1>1, <1>2, <2>1, EnterInv DEF PastPrepare
<1>3. CASE \E reason \in {"no-inbound-webhook", "body-not-json"} : Fail(reason)
  BY <1>1, <1>3, FailInv
<1> QED
  BY <1>2, <1>3 DEF ReceiveWebhook

LEMMA AssertRequestInv == Inv /\ AssertRequest => Inv'
<1> SUFFICES ASSUME Inv, AssertRequest PROVE Inv'
  OBVIOUS
<1>1. pc = "request" /\ (Goto("response") \/ Fail("request-mismatch"))
  BY DEF AssertRequest
<1> QED
  BY <1>1, GotoInv, FailInv

(* The result over a transport failure obeys the two properties.           *)
LEMMA TransportFailureInv == Inv /\ TransportFailure => Inv'
<1> SUFFICES ASSUME Inv, TransportFailure PROVE Inv'
  OBVIOUS
<1> DEFINE outcome == PaymentResult(cassette, state, "Processing", SyntheticPoll, Nil)
<1>1. /\ pc = "response" /\ cassette.transport_failure /\ Return(outcome)
      /\ state = cassette.state /\ result' = outcome /\ cassette' = cassette
  BY DEF TransportFailure, Inv, Untouched, BeforeFlow, Return
<1>2. TransportFailureIsUnknown'
  BY <1>1 DEF TransportFailureIsUnknown, PaymentResult
<1>3. MatchedErrorBypassesFlow'
  BY <1>1 DEF MatchedErrorBypassesFlow
<1> HIDE DEF outcome
<1> QED
  BY <1>1, <1>2, <1>3, ReturnInv DEF PastPrepare

LEMMA ReceiveResponseInv == Inv /\ ReceiveResponse => Inv'
<1> SUFFICES ASSUME Inv, ReceiveResponse PROVE Inv'
  OBVIOUS
<1>1. /\ pc = "response" /\ ~ cassette.transport_failure
      /\ Goto("errors") \/ Fail("no-response") \/ Fail("body-not-json")
  BY DEF ReceiveResponse
<1> QED
  BY <1>1, GotoInv, FailInv

-----------------------------------------------------------------------------
LEMMA MatchErrorInv == Inv /\ MatchError => Inv'
<1> SUFFICES ASSUME Inv, MatchError PROVE Inv'
  OBVIOUS
<1> DEFINE first == FirstMatch(manifest.errors, Doc, Interaction.response.status)
           outcome == ErrorOutcome(cassette, state, manifest.errors[first])
<1>1. /\ pc = "errors" /\ MatchingEntries # {} /\ Return(outcome)
      /\ result' = outcome /\ UNCHANGED <<manifest, cassette, step>>
      /\ state = cassette.state /\ step = "" /\ ~ cassette.transport_failure
  BY DEF MatchError, Inv, Untouched, BeforeFlow, TypeOK, Routed, Return, Locals
<1>2. PICK n \in Nat : DOMAIN manifest.errors = 1 .. n
  BY ErrorsAreLists DEF Inv, Prepared
<1>3. /\ first \in MatchingEntries /\ first \in 1 .. n
      /\ \A j \in MatchingEntries : first <= j
  BY <1>1, <1>2, FirstMatchIsFirst DEF MatchingEntries, Matching
<1>4. MatchingEntries' = MatchingEntries
  BY <1>1 DEF MatchingEntries, Doc, Interaction
<1>5. TransportFailureIsUnknown'
  BY <1>1 DEF TransportFailureIsUnknown
<1>6. MatchedErrorBypassesFlow'
  <2>1. /\ result'.state = cassette.state
        /\ IF manifest.errors[first].failure_code \in {"ProviderTimeout", "Unknown"}
           THEN result'.failure = Nil /\ result'.status = "Processing"
           ELSE /\ result'.status = "Failed" /\ result'.next_action = Nil
                /\ result'.failure = Failure(manifest.errors[first].failure_code,
                                             manifest.errors[first].retry_class)
    BY <1>1 DEF ErrorOutcome, PaymentResult
  <2>2. \A j \in DOMAIN manifest.errors : j < first => j \notin MatchingEntries
    <3> HIDE DEF first
    <3> QED BY <1>2, <1>3
  <2> HIDE DEF first
  <2> QED
    BY <1>1, <1>3, <1>4, <2>1, <2>2 DEF MatchedErrorBypassesFlow
<1> HIDE DEF outcome
<1> QED
  BY <1>1, <1>5, <1>6, ReturnInv DEF PastPrepare

LEMMA NoErrorMatchesInv == Inv /\ NoErrorMatches => Inv'
<1> SUFFICES ASSUME Inv, NoErrorMatches PROVE Inv'
  OBVIOUS
<1>1. pc = "errors" /\ MatchingEntries = {} /\ Enter(Entry) /\ ~ cassette.transport_failure
  BY DEF NoErrorMatches, Inv, Routed
<1>2. Entry \in DOMAIN Flow
  BY <1>1, EntryIsAStep DEF Inv, Prepared, PastPrepare
<1> QED
  BY <1>1, <1>2, EnterInv DEF PastPrepare

(* A key that is patched is one that some step of the flow writes.         *)
LEMMA PatchKeyInv == ASSUME Inv, NEW k \in pending, PatchKey(k) PROVE Inv'
<1> DEFINE value == Evaluate(Flow[step].emit.state[k], NS, state, Doc)
<1>1. pc = "patch"
  BY DEF PatchKey
<1>2. CASE Fail("unresolved-state")
  BY <1>1, <1>2, FailInv
<1>3. CASE /\ state' = Patched(state, k, value) /\ pending' = pending \ {k}
           /\ UNCHANGED <<manifest, cassette, pc, step, status, nextAction, result, error>>
  <2> HIDE DEF value
  <2>1. /\ Flow' = Flow /\ WrittenKeys' = WrittenKeys
        /\ MatchingEntries' = MatchingEntries
    BY <1>3 DEF Flow, WrittenKeys, MatchingEntries, Doc, Interaction
  <2>2. k \in WrittenKeys
    BY <1>1 DEF Inv, TypeOK, WrittenKeys
  <2>3. Prepared' /\ Untouched' /\ Routed'
    BY <1>1, <1>3, <2>1 DEF Inv, Prepared, Untouched, Routed, PastPrepare, BeforeFlow
  <2>4. TypeOK'
    BY <1>1, <1>3, <2>1 DEF Inv, TypeOK, Labels
  <2>5. StateIsPatched'
    BY <1>1, <1>3, <2>1, <2>2 DEF Inv, StateIsPatched, Patched, Put
  <2>6. TransportFailureIsUnknown' /\ MatchedErrorBypassesFlow'
    BY <1>1, <1>3 DEF TransportFailureIsUnknown, MatchedErrorBypassesFlow
  <2> QED
    BY <2>3, <2>4, <2>5, <2>6 DEF Inv
<1> QED
  BY <1>2, <1>3 DEF PatchKey

LEMMA FollowStatusMapInv == Inv /\ FollowStatusMap => Inv'
<1> SUFFICES ASSUME Inv, FollowStatusMap PROVE Inv'
  OBVIOUS
<1> DEFINE map == Flow[step].status_map
<1>1. pc = "patch"
  BY DEF FollowStatusMap
<1>2. CASE \E reason \in {"status-path-unresolved", "status-value-unmapped",
                          "missing-step"} : Fail(reason)
  BY <1>1, <1>2, FailInv
<1>3. CASE map.values[Doc[map.path]] \in DOMAIN Flow /\ Enter(map.values[Doc[map.path]])
  BY <1>1, <1>3, EnterInv DEF PastPrepare, Inv, Routed
<1> QED
  BY <1>2, <1>3 DEF FollowStatusMap

LEMMA EmitUnresolvedInv == Inv /\ EmitUnresolved => Inv'
BY FailInv DEF EmitUnresolved, AtEmit

LEMMA FollowGotoInv == Inv /\ FollowGoto => Inv'
<1> SUFFICES ASSUME Inv, FollowGoto PROVE Inv'
  OBVIOUS
<1>1. pc = "patch"
  BY DEF FollowGoto, AtEmit
<1>2. CASE Fail("missing-step")
  BY <1>1, <1>2, FailInv
<1>3. CASE Flow[step].goto \in DOMAIN Flow /\ Enter(Flow[step].goto)
  BY <1>1, <1>3, EnterInv DEF PastPrepare, Inv, Routed
<1> QED
  BY <1>2, <1>3 DEF FollowGoto

(* A run that gets to a leaf had neither a transport failure nor a match.  *)
LEMMA LeafInv == Inv /\ Leaf => Inv'
<1> SUFFICES ASSUME Inv, Leaf PROVE Inv'
  OBVIOUS
<1> DEFINE outcome == PaymentResult(cassette, state, StatusAfter, NextActionAfter, Nil)
<1>1. pc = "patch" /\ Return(outcome)
  BY DEF Leaf, AtEmit
<1>2. UNCHANGED <<manifest, cassette>>
  BY <1>1 DEF Return
<1>3. MatchingEntries' = MatchingEntries
  BY <1>2 DEF MatchingEntries, Doc, Interaction
<1>4. TransportFailureIsUnknown' /\ MatchedErrorBypassesFlow'
  BY <1>1, <1>2, <1>3 DEF Inv, Routed, TransportFailureIsUnknown, MatchedErrorBypassesFlow
<1> HIDE DEF outcome
<1> QED
  BY <1>1, <1>4, ReturnInv DEF PastPrepare

LEMMA StutterInv == Inv /\ UNCHANGED vars => Inv'
<1> SUFFICES ASSUME Inv, UNCHANGED vars PROVE Inv'
  OBVIOUS
<1>1. Flow' = Flow /\ WrittenKeys' = WrittenKeys /\ MatchingEntries' = MatchingEntries
  BY DEF vars, Flow, WrittenKeys, MatchingEntries, Doc, Interaction
<1>2. Prepared' /\ Untouched' /\ Routed'
  BY <1>1 DEF vars, Inv, Prepared, Untouched, Routed
<1>3. TypeOK' /\ StateIsPatched'
  BY <1>1 DEF vars, Inv, TypeOK, StateIsPatched
<1>4. TransportFailureIsUnknown' /\ MatchedErrorBypassesFlow'
  BY <1>1 DEF vars, Inv, TransportFailureIsUnknown, MatchedErrorBypassesFlow
<1> QED
  BY <1>2, <1>3, <1>4 DEF Inv

LEMMA StepInv == Inv /\ [Next]_vars => Inv'
<1> SUFFICES ASSUME Inv, [Next]_vars PROVE Inv'
  OBVIOUS
<1>1. CASE PrepareFails
  BY <1>1, FailInv DEF PrepareFails
<1>2. CASE NoInteraction
  BY <1>2, FailInv DEF NoInteraction
<1>3. CASE \E k \in pending : PatchKey(k)
  BY <1>3, PatchKeyInv
<1>4. CASE UNCHANGED vars
  BY <1>4, StutterInv
<1> QED
  BY <1>1, <1>2, <1>3, <1>4, PrepareInv, ReceiveWebhookInv, AssertRequestInv,
     TransportFailureInv, ReceiveResponseInv, MatchErrorInv, NoErrorMatchesInv,
     FollowStatusMapInv, EmitUnresolvedInv, FollowGotoInv, LeafInv DEF Next, Finished

(* Every state of every run satisfies the inductive invariant.             *)
THEOREM Invariance == Spec => []Inv
BY InitInv, StepInv, PTL DEF Spec

-----------------------------------------------------------------------------
(* Inside dispatch the interpreter is always at a step of the flow, and it *)
(* has a result exactly when it did not fail.                              *)
THEOREM TypeCorrectness == Spec => []TypeOK
<1>1. Inv => TypeOK
  BY DEF Inv
<1> QED
  BY <1>1, Invariance, PTL

(* emit.state only ever patches the state the cassette started from.       *)
THEOREM StatePatching == Spec => []StateIsPatched
<1>1. Inv => StateIsPatched
  BY DEF Inv
<1> QED
  BY <1>1, Invariance, PTL

(* Invariant I4: a transport failure is Processing with a Poll, never a    *)
(* failure.                                                                *)
THEOREM UnknownOutcome == Spec => []TransportFailureIsUnknown
<1>1. Inv => TransportFailureIsUnknown
  BY DEF Inv
<1> QED
  BY <1>1, Invariance, PTL

(* The first matching errors[] entry decides the result by itself.         *)
THEOREM ErrorPrecedence == Spec => []MatchedErrorBypassesFlow
<1>1. Inv => MatchedErrorBypassesFlow
  BY DEF Inv
<1> QED
  BY <1>1, Invariance, PTL

-----------------------------------------------------------------------------
(* The arguments of Run are never assigned.                                *)
LEMMA ArgumentsKept == [Next]_vars => UNCHANGED <<manifest, cassette>>
BY DEF Next, vars, PrepareFails, Prepare, ReceiveWebhook, NoInteraction, AssertRequest,
       TransportFailure, ReceiveResponse, MatchError, NoErrorMatches, PatchKey,
       FollowStatusMap, EmitUnresolved, FollowGoto, Leaf, Finished, Fail, Return, Goto,
       Enter

(* The only way past the request assertion.                                *)
LEMMA PastRequest ==
  ASSUME Inv, [Next]_vars, cassette.operation # "webhook",
         pc \notin {"response", "errors", "patch", "done"},
         pc' \in {"response", "errors", "patch", "done"}
  PROVE  pc = "request" /\ AssertRequest /\ pc' = "response"
<1>1. pc \in {"prepare", "request", "webhook", "error"}
  BY DEF Inv, TypeOK, Labels
<1>2. pc # "webhook"
  BY DEF Inv, Routed
<1>3. pc # "error"
  BY DEF Next, vars, PrepareFails, Prepare, ReceiveWebhook, NoInteraction, AssertRequest,
         TransportFailure, ReceiveResponse, MatchError, NoErrorMatches, PatchKey,
         FollowStatusMap, EmitUnresolved, FollowGoto, Leaf, AtEmit, Finished
<1>4. pc # "prepare"
  BY DEF Next, vars, PrepareFails, Prepare, ReceiveWebhook, NoInteraction, AssertRequest,
         TransportFailure, ReceiveResponse, MatchError, NoErrorMatches, PatchKey,
         FollowStatusMap, EmitUnresolved, FollowGoto, Leaf, AtEmit, Finished, Fail
<1>5. pc = "request"
  BY <1>1, <1>2, <1>3, <1>4
<1>6. AssertRequest
  BY <1>5 DEF Next, vars, PrepareFails, Prepare, ReceiveWebhook, NoInteraction,
         TransportFailure, ReceiveResponse, MatchError, NoErrorMatches, PatchKey,
         FollowStatusMap, EmitUnresolved, FollowGoto, Leaf, AtEmit, Finished, Fail
<1> QED
  BY <1>5, <1>6 DEF AssertRequest, Goto, Fail

(* What the assertion says of the header that auth.apply sets.             *)
LEMMA AppliedHeaderMatches ==
  ASSUME NEW call, NEW req, NEW ns, NEW st, NEW auth,
         RequestMatches(call, req, ns, st, auth),
         NEW h \in DOMAIN ApplyHeader(auth) \cap DOMAIN req.headers
  PROVE  req.headers[h] = Evaluate(ApplyHeader(auth)[h], ns, st, EmptyMap)
<1>1. h \in DOMAIN CallHeaders(call, auth) /\ CallHeaders(call, auth)[h] = ApplyHeader(auth)[h]
  BY DEF CallHeaders
<1>2. /\ h \in DOMAIN EvaluateAll(CallHeaders(call, auth), ns, st, EmptyMap)
      /\ EvaluateAll(CallHeaders(call, auth), ns, st, EmptyMap)[h]
           = Evaluate(ApplyHeader(auth)[h], ns, st, EmptyMap)
  BY <1>1 DEF EvaluateAll
<1> QED
  BY <1>2 DEF RequestMatches

LEMMA CredentialStep == Inv /\ CredentialIsAsserted /\ [Next]_vars => CredentialIsAsserted'
<1> SUFFICES ASSUME Inv, CredentialIsAsserted, [Next]_vars,
                    pc' \in {"response", "errors", "patch", "done"},
                    cassette.operation # "webhook", Flow[Entry].call # Nil,
                    NEW h \in DOMAIN ApplyHeader(manifest.auth)
                              \cap DOMAIN Interaction.request.headers
             PROVE  Interaction.request.headers[h]
                      = Evaluate(ApplyHeader(manifest.auth)[h], NS, cassette.state, EmptyMap)
  BY ArgumentsKept DEF CredentialIsAsserted, Flow, Entry, Interaction, NS
<1>1. CASE pc \in {"response", "errors", "patch", "done"}
  BY <1>1 DEF CredentialIsAsserted
<1>2. CASE pc \notin {"response", "errors", "patch", "done"}
  <2>1. /\ pc = "request" /\ state = cassette.state
        /\ RequestMatches(Flow[Entry].call, Interaction.request, NS, state, manifest.auth)
    BY <1>2, PastRequest DEF AssertRequest, Fail, Inv, Untouched, BeforeFlow
  <2> QED
    BY <2>1, AppliedHeaderMatches
<1> QED
  BY <1>1, <1>2

(* No run gets to a response with a request recorded under another         *)
(* credential than the one auth.apply resolves to.                         *)
THEOREM CredentialAssertion == Spec => []CredentialIsAsserted
<1>1. Init => CredentialIsAsserted
  BY DEF Init, CredentialIsAsserted
<1> QED
  BY <1>1, Invariance, CredentialStep, PTL DEF Spec

=============================================================================
