-------------------------- MODULE ValidatedReplay --------------------------
(***************************************************************************)
(* What `esiipayment validate` buys a replay: every manifest a run meets   *)
(* has passed the static checks of ManifestChecks.  Each property here     *)
(* relates a check made once on the text of a manifest to what no run of   *)
(* the interpreter over it can do, whatever the cassette.                  *)
(***************************************************************************)
EXTENDS Interpreter, ManifestChecks, Integrator

ASSUME ManifestsValidated == \A m \in Manifests : Validated(m)

(* The errors a validated manifest rules out: no entry flow is missing, no *)
(* entry step is ambiguous, and no goto or status_map leaves the flow.     *)
NoStructuralError == error \notin {"unknown-flow", "entry-step", "missing-step"}

(* A terminal status ends the run (Invariant I2): while there is a step    *)
(* left to take, no step before it has emitted a terminal status.          *)
TerminalStatusIsLast == pc = "patch" => status \notin TerminalStatuses

(* A failure is one the manifest's errors[] declares, with the retry class *)
(* the fixed table gives its code (Invariant I10); it is never one whose   *)
(* outcome is unknown, so a caller told Failed is never told ResolveFirst  *)
(* (Invariant I4).                                                         *)
FailureFollowsTable ==
  pc = "done" /\ result.failure # Nil =>
    /\ result.failure.failure_code \in FailureCodes \ {"ProviderTimeout", "Unknown"}
    /\ result.failure.retry_class = FailureRetryMap[result.failure.failure_code]
    /\ result.failure.retry_class # "ResolveFirst"

(* A next action is one the manifest's capabilities announce, or the Poll  *)
(* the runtime makes itself, and carries exactly the fields its variant    *)
(* requires and allows (Invariant I3).                                     *)
NextActionIsDeclared ==
  pc = "done" /\ result.next_action # Nil =>
    LET type == result.next_action["type"] IN
    /\ type \in manifest.capabilities.next_actions \cup {"Poll"}
    /\ NextActionFields[type].required \subseteq DOMAIN result.next_action
    /\ DOMAIN result.next_action \subseteq
         {"type"} \cup NextActionFields[type].required \cup NextActionFields[type].optional

(* The integrator meets no value outside the closed sets it switches on    *)
(* (Invariant I12), and never misses a field the payload table promises:   *)
(* it refuses a result only over a status, a next action or a failure that *)
(* is not there, or a payload value of the wrong type.                     *)
IntegratorMeetsClosedSets ==
  pc = "done" => Handle(result) \notin
    {"unknown-status", "unknown-next-action", "missing-field", "unknown-retry-class"}

(* A flow whose every leaf says how the payment stands: a status that is   *)
(* not Failed, which only errors[] can explain, and a next action unless   *)
(* the status is terminal.                                                 *)
LeavesSpeak(flow) ==
  \A s \in DOMAIN flow :
    flow[s].goto = "" /\ ~ (s = EntryStep(flow) /\ flow[s].status_map # Nil) =>
      /\ EmitStatus(flow[s]) \notin {"", "Failed"}
      /\ EmitStatus(flow[s]) \notin TerminalStatuses => EmitNextAction(flow[s]) # Nil

(* Over a validated manifest with such flows, the generic integrator       *)
(* handles every result, mistyped payload values aside.                    *)
IntegratorHandles ==
  pc = "done" /\ LeavesSpeak(Flow) => Handle(result) \in {"", "mistyped-field"}

=============================================================================
