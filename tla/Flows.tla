------------------------------- MODULE Flows -------------------------------
(***************************************************************************)
(* The graph of one manifest flow: a function from step names to steps.    *)
(*   step.goto        the next step, "" when there is none                 *)
(*   step.status_map  Nil, or [path, values], values a map to step names   *)
(*   step.emit        Nil, or [status, state, next_action]                 *)
(*   step.call        Nil, or [method, path, headers, body]                *)
(*   step.triggers    a set of triggers                                    *)
(* The source computes the entry step three times (replay.FindEntryStep,   *)
(* checks.checkFlows, checks.entryStepOf) by the same formula.             *)
(***************************************************************************)
EXTENDS DomainModel

ZeroStep ==
  [call |-> Nil, triggers |-> {}, status_map |-> Nil, emit |-> Nil, goto |-> ""]

(* Reading a Go map at an absent key yields the zero value.                *)
StepAt(flow, name) == IF name \in DOMAIN flow THEN flow[name] ELSE ZeroStep

GotoTargets(step) == IF step.goto = "" THEN {} ELSE {step.goto}

StatusMapTargets(step) ==
  IF step.status_map = Nil THEN {} ELSE ValuesOf(step.status_map.values)

Successors(step) == GotoTargets(step) \cup StatusMapTargets(step)

Targeted(flow) == UNION {Successors(flow[s]) : s \in DOMAIN flow}

(* The steps no other step targets; a flow must have exactly one.          *)
EntrySteps(flow) == DOMAIN flow \ Targeted(flow)
HasEntryStep(flow) == \E s \in DOMAIN flow : EntrySteps(flow) = {s}
EntryStep(flow) == CHOOSE s \in DOMAIN flow : EntrySteps(flow) = {s}

(* A set of steps that no goto or status_map edge leaves.                  *)
ClosedUnderEdges(flow, S) == \A s \in S : Successors(StepAt(flow, s)) \subseteq S

(***************************************************************************)
(* The strings of a step that may hold interpolations, in call and emit.   *)
(***************************************************************************)
CallTemplates(call) ==
  IF call = Nil THEN {}
  ELSE {call.path} \cup ValuesOf(call.headers) \cup ValuesOf(call.body)

EmitTemplates(emit) ==
  IF emit = Nil THEN {}
  ELSE ValuesOf(emit.state)
       \cup (IF emit.next_action = Nil THEN {} ELSE ValuesOf(emit.next_action))

StepTemplates(step) == CallTemplates(step.call) \cup EmitTemplates(step.emit)

(* The statuses and the state keys a step emits.                           *)
EmitStatus(step) == IF step.emit = Nil THEN "" ELSE step.emit.status
EmitKeys(step) == IF step.emit = Nil THEN {} ELSE DOMAIN step.emit.state
EmitNextAction(step) == IF step.emit = Nil THEN Nil ELSE step.emit.next_action

=============================================================================
