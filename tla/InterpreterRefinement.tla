----------------------- MODULE InterpreterRefinement -----------------------
(***************************************************************************)
(* The interpreter, which patches the state key by key, implements the     *)
(* walk of FlowWalk, which writes a step's emit at once, over manifests    *)
(* whose emits do not read what they write.  The auxiliary variable        *)
(* arrival remembers the state as it was when the run came to its step.    *)
(***************************************************************************)
EXTENDS Interpreter

VARIABLE arrival

(* No template of an emit.state reads a key that the same emit writes.     *)
OrderFree(m) ==
  \A f \in DOMAIN m.flows : \A s \in DOMAIN m.flows[f] :
    \A k \in EmitKeys(m.flows[f][s]) :
      LET t == m.flows[f][s].emit.state[k]
      IN  t.ns = "state" => t.path \notin EmitKeys(m.flows[f][s])

ASSUME OrderNeverMatters == \A m \in Manifests : OrderFree(m)

(* The state of a cassette is a map.                                       *)
ASSUME StatesAreMaps ==
  \A c \in Cassettes : c.state = [k \in DOMAIN c.state |-> c.state[k]]

Arrives == pc' = "patch" /\ ~ (pc = "patch" /\ pending # {})

InitWithArrival == Init /\ arrival = EmptyMap
NextWithArrival == Next /\ arrival' = IF Arrives THEN state ELSE arrival
SpecWithArrival == InitWithArrival /\ [][NextWithArrival]_<<vars, arrival>>

Abstract == INSTANCE FlowWalk WITH
  walking <- pc = "patch",
  at      <- IF pc = "patch" THEN step ELSE "",
  state   <- arrival,
  outcome <- IF pc = "done" THEN [answered |-> TRUE, error |-> "", result |-> result]
             ELSE IF pc = "error"
             THEN [answered |-> TRUE, error |-> error, result |-> Nil]
             ELSE [answered |-> FALSE]

(* Replay is a function of the manifest and the cassette: in whatever      *)
(* order the keys of an emit.state are visited, a run walks the steps that *)
(* FlowWalk walks and answers with its result or its error.                *)
ImplementsWalk == Abstract!Spec

=============================================================================
