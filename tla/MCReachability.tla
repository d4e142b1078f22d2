--------------------------- MODULE MCReachability ---------------------------
(* Flows of three steps over four names, one of them not a step, as far as *)
(* they have an entry step: gotos, status_maps with up to two targets,     *)
(* cycles, islands.                                                        *)
EXTENDS FlowReachability, TLC

Edge(goto, targets) ==
  [ZeroStep EXCEPT !.goto = goto,
     !.status_map = IF targets = {} THEN Nil
                    ELSE [path |-> "status", values |-> [t \in targets |-> t]]]

Steps(gotos, targets) == {Edge(g, t) : g \in gotos, t \in targets}

SmallFlows ==
  {"a" :> x @@ "b" :> y @@ "c" :> z :
     x \in Steps({"", "b"}, {{}, {"b", "c"}, {"c", "ghost"}}),
     y \in Steps({"", "b", "c", "ghost"}, {{}, {"a", "c"}}),
     z \in Steps({"", "b", "c"}, {{}, {"b"}, {"b", "c"}})}

FlowsWithEntry == {f \in SmallFlows : HasEntryStep(f)}
=============================================================================
