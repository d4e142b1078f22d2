--------------------------- MODULE ManifestChecks ---------------------------
(***************************************************************************)
(* `esiipayment validate`: the semantic checks of internal/checks/         *)
(* manifest.go.  Each check is the set of rule names it reports for a      *)
(* manifest; how often and in which order a rule is reported, and the      *)
(* wording of the finding, is left out.  A manifest is valid when no rule  *)
(* is reported.                                                            *)
(***************************************************************************)
EXTENDS Flows, FiniteSets

Rule(name, broken) == IF broken THEN {name} ELSE {}
Blank(s) == s \in {"", " "}

CheckRequiredFields(m) ==
  Rule("required-field",
       \/ \E s \in {m.provider, m.spec_version, m.display_name, m.country} : Blank(s)
       \/ {} \in {m.currencies, DOMAIN m.environments, DOMAIN m.operations,
                  DOMAIN m.flows, DOMAIN m.errors})

CheckSpecVersion(v) ==
  Rule("unsupported-spec-version", v # "" /\ v # SupportedSpecVersion)

CheckClosedEnums(m) ==
  Rule("closed-enum",
       \/ m.auth.shape \notin CredentialShapes
       \/ ~ m.capabilities.operations \subseteq Operations
       \/ ~ m.capabilities.next_actions \subseteq NextActions)
  \cup Rule("auth-shape", (m.auth.shape = "none") # (m.auth.fields = {}))

(* AuthApply.Target: the first of header, query and body that is set.  The *)
(* token's refresh_at is in hundredths.                                    *)
ApplyTarget(apply) ==
  IF apply.header # "" THEN "header" ELSE IF apply.query # "" THEN "query"
  ELSE IF apply.body # "" THEN "body" ELSE ""

CheckAuth(a) ==
  Rule("auth-shape",
       \/ (a.shape = "none") # (a.apply = Nil)
       \/ (a.shape = "oauth2_client_credentials") # (a.token # Nil))
  \cup (IF a.shape = "none" \/ a.apply = Nil THEN {}
        ELSE Rule("malformed-auth-apply", ApplyTarget(a.apply) = "")
             \cup Rule("required-field",
                       a.apply.value.ns = "literal" /\ Blank(a.apply.value.path)))
  \cup (IF a.shape # "oauth2_client_credentials" \/ a.token = Nil THEN {}
        ELSE Rule("closed-enum", a.token.method \notin HTTPMethods)
             \cup Rule("range", ~ (0 < a.token.refresh_at /\ a.token.refresh_at <= 100)))

EmittedNextActions(m) ==
  {NextActionType(step.emit) : step \in UNION {ValuesOf(f) : f \in ValuesOf(m.flows)}}
    \ {""}

CheckOperationsAndCapabilities(m) ==
  Rule("operations-mismatch", m.capabilities.operations # DOMAIN m.operations)
  \cup Rule("dangling-entry-flow", ~ ValuesOf(m.operations) \subseteq DOMAIN m.flows)
  \cup Rule("next-actions-mismatch", m.capabilities.next_actions # EmittedNextActions(m))

-----------------------------------------------------------------------------
(* checkFlows, one flow at a time and one rule at a time.                  *)

DanglingGoto(flow) == \E s \in DOMAIN flow : ~ GotoTargets(flow[s]) \subseteq DOMAIN flow

DanglingStatusMapTarget(flow) ==
  \E s \in DOMAIN flow : ~ StatusMapTargets(flow[s]) \subseteq DOMAIN flow

(* Mutant of TerminalTransitions: the step's goto is forgotten.            *)
TerminalBranches(flow) ==
  \E s \in DOMAIN flow :
    EmitStatus(flow[s]) \in TerminalStatuses /\ flow[s].status_map # Nil

(* Invariant I2: a step that emits a terminal status goes nowhere.         *)
TerminalTransitions(flow) ==
  \E s \in DOMAIN flow :
    /\ EmitStatus(flow[s]) \in TerminalStatuses
    /\ flow[s].goto # "" \/ flow[s].status_map # Nil

MalformedNextAction(flow) ==
  \E s \in DOMAIN flow :
    EmitNextAction(flow[s]) # Nil /\ NextActionType(flow[s].emit) = ""

(* Mutant of OutsideClosedEnum: the emitted status is not looked at.       *)
OutsideOtherEnums(flow) ==
  \E s \in DOMAIN flow :
    \/ NextActionType(flow[s].emit) \notin NextActions \cup {""}
    \/ ~ flow[s].triggers \subseteq Triggers
    \/ flow[s].call # Nil /\ flow[s].call.method \notin HTTPMethods

OutsideClosedEnum(flow) ==
  \E s \in DOMAIN flow :
    \/ EmitStatus(flow[s]) \notin PaymentStatuses \cup {""}
    \/ NextActionType(flow[s].emit) \notin NextActions \cup {""}
    \/ ~ flow[s].triggers \subseteq Triggers
    \/ flow[s].call # Nil /\ flow[s].call.method \notin HTTPMethods

(***************************************************************************)
(* The steps the breadth-first search marks, starting at the entry step:   *)
(* the largest level of a fixpoint that cannot need more rounds than there *)
(* are names.  FlowReachability models the search loop itself.             *)
(***************************************************************************)
Reachable(flow, entry) ==
  LET names == DOMAIN flow \cup Targeted(flow)
      level[n \in 0 .. Cardinality(names)] ==
        IF n = 0 THEN {entry}
        ELSE LET seen == level[n - 1]
             IN  seen \cup UNION {Successors(StepAt(flow, s)) : s \in seen}
  IN  level[Cardinality(names)]

UnreachableStep(flow) ==
  HasEntryStep(flow) /\ ~ DOMAIN flow \subseteq Reachable(flow, EntryStep(flow))

CheckFlow(flow) ==
  IF DOMAIN flow = {} THEN {"empty-flow"}
  ELSE UNION {Rule("dangling-goto", DanglingGoto(flow)),
              Rule("dangling-status-map-target", DanglingStatusMapTarget(flow)),
              Rule("closed-enum", OutsideClosedEnum(flow)),
              Rule("malformed-next-action", MalformedNextAction(flow)),
              Rule("terminal-transitions", TerminalTransitions(flow)),
              Rule("no-entry-step", EntrySteps(flow) = {}),
              Rule("ambiguous-entry-step",
                   EntrySteps(flow) # {} /\ ~ HasEntryStep(flow)),
              Rule("unreachable-step", UnreachableStep(flow))}

CheckFlows(m) == UNION {CheckFlow(m.flows[f]) : f \in DOMAIN m.flows}

-----------------------------------------------------------------------------
(* checkErrors: the entries one by one, then the list as a whole.          *)

IsTimeout(entry) == Kind(entry.match) = "transport" /\ entry.match.transport = "timeout"

ErrorClosedEnum(entry) ==
  \/ Kind(entry.match) = "transport" /\ entry.match.transport # "timeout"
  \/ entry.failure_code \notin FailureCodes
  \/ entry.retry_class \notin RetryClasses

(* Invariant I4: a timeout's outcome is unknown, whatever the provider.    *)
TimeoutMappingFixed(entry) ==
  IsTimeout(entry)
    => entry.failure_code = "ProviderTimeout" /\ entry.retry_class = "ResolveFirst"

(* Mutant of RetryClassMismatch: only the codes to resolve are compared.   *)
ResolveFirstMismatch(entry) ==
  /\ entry.failure_code \in FailureCodes /\ entry.retry_class \in RetryClasses
  /\ FailureRetryMap[entry.failure_code] = "ResolveFirst"
  /\ entry.retry_class # "ResolveFirst"

(* Invariant I10: the retry class is a function of the failure code.       *)
RetryClassMismatch(entry) ==
  /\ entry.failure_code \in FailureCodes /\ entry.retry_class \in RetryClasses
  /\ FailureRetryMap[entry.failure_code] # entry.retry_class

StatusOutOfRange(entry) ==
  Kind(entry.match) = "http_status" /\ entry.match.http_status \notin 100 .. 599

CheckError(entry) ==
  UNION {Rule("closed-enum", ErrorClosedEnum(entry)),
         Rule("timeout-mapping-fixed", ~ TimeoutMappingFixed(entry)),
         Rule("range", StatusOutOfRange(entry)),
         Rule("malformed-match", Kind(entry.match) = ""),
         Rule("retry-class-mismatch", RetryClassMismatch(entry))}

(* The pairs of entries the tool can tell match the same response.         *)
SameMatch(a, b) ==
  /\ Kind(a.match) = Kind(b.match)
  /\ \/ Kind(a.match) = "http_status" /\ a.match.http_status = b.match.http_status
     \/ /\ Kind(a.match) = "path"
        /\ a.match.path = b.match.path /\ a.match.equals = b.match.equals

CheckErrors(m) ==
  LET entries  == m.errors
      timeouts == {i \in DOMAIN entries : IsTimeout(entries[i])}
  IN  (UNION {CheckError(entries[i]) : i \in DOMAIN entries})
      \cup Rule("missing-timeout-mapping", timeouts = {})
      \cup Rule("duplicate-timeout-mapping", \E i, j \in timeouts : i # j)
      \cup Rule("ambiguous-error-match",
                \E i, j \in DOMAIN entries : i < j /\ SameMatch(entries[i], entries[j]))

CheckWebhook(m) ==
  IF m.webhook = Nil
  THEN Rule("missing-webhook-section", "webhook" \in m.capabilities.operations)
  ELSE Rule("closed-enum", \/ m.webhook.scheme \notin WebhookSchemes
                           \/ m.webhook.body_format # "json")
       \cup Rule("required-field",
                 /\ m.webhook.scheme # "none"
                 /\ m.webhook.signature_header = "" \/ m.webhook.secret = "")

-----------------------------------------------------------------------------
(***************************************************************************)
(* checkNextActionPayloads, checkInterpolationNamespaces, checkTransforms  *)
(* and checkAuthNamespaces: what a step or the auth block may mention.     *)
(***************************************************************************)
(* Mutant of CheckPayload: a required field may be missing.                *)
CheckUnknownFields(emit) ==
  LET type == NextActionType(emit)
  IN  IF type \notin NextActions THEN {}
      ELSE Rule("next-action-unknown-field",
                ~ DOMAIN emit.next_action \subseteq
                    {"type"} \cup NextActionFields[type].required
                    \cup NextActionFields[type].optional)

CheckPayload(emit) ==
  LET type == NextActionType(emit)
  IN  IF type \notin NextActions THEN {}
      ELSE LET fields == NextActionFields[type]
               given  == DOMAIN emit.next_action
           IN  Rule("next-action-missing-field", ~ fields.required \subseteq given)
               \cup Rule("next-action-unknown-field",
                         ~ given \subseteq {"type"} \cup fields.required \cup fields.optional)

AlwaysAvailable == {"credentials", "ctx", "intent", "state", "idempotency_key"}

(* What the flow's entry step and the step's own triggers make available.  *)
Available(flow, step) ==
  LET entry == EntryStep(flow) IN
  AlwaysAvailable
  \cup (IF HasEntryStep(flow) /\ (flow[entry].call # Nil \/ "webhook" \in flow[entry].triggers)
          THEN {"extract"} ELSE {})
  \cup (IF HasEntryStep(flow) /\ "webhook" \in flow[entry].triggers THEN {"event"} ELSE {})
  \cup (IF "input" \in step.triggers THEN {"input"} ELSE {})

CheckNamespaces(flow, step) ==
  LET used == {t.ns : t \in StepTemplates(step)} \ {"literal"}
      sometimes == {"extract", "event", "input"}
  IN  Rule("namespace-unavailable", ~ used \cap sometimes \subseteq Available(flow, step))
      \cup Rule("unknown-namespace", ~ used \subseteq AlwaysAvailable \cup sometimes)

CheckTransforms(step) ==
  Rule("closed-transform-set",
       ~ {t.transform : t \in StepTemplates(step)} \subseteq Transforms \cup {""})

CheckAuthNamespaces(a) ==
  LET templates == (IF a.apply = Nil THEN {} ELSE {a.apply.value})
                   \cup (IF a.token = Nil THEN {} ELSE a.token.templates)
      allowed   == {"literal", "credentials", "ctx"}
                   \cup (IF a.shape = "oauth2_client_credentials" THEN {"auth"} ELSE {})
  IN  Rule("namespace-unavailable", ~ {t.ns : t \in templates} \subseteq allowed)

CheckSteps(m) ==
  UNION {UNION {CheckPayload(m.flows[f][s].emit)
                \cup CheckNamespaces(m.flows[f], m.flows[f][s])
                \cup CheckTransforms(m.flows[f][s]) : s \in DOMAIN m.flows[f]}
         : f \in DOMAIN m.flows}

(* Every check that looks at the manifest alone.                           *)
ManifestFindings(m) ==
  UNION {CheckRequiredFields(m), CheckSpecVersion(m.spec_version),
         CheckClosedEnums(m), CheckAuth(m.auth), CheckOperationsAndCapabilities(m),
         CheckFlows(m), CheckErrors(m), CheckWebhook(m), CheckSteps(m),
         CheckAuthNamespaces(m.auth)}

Validated(m) == ManifestFindings(m) = {}

=============================================================================
