----------------------------- MODULE MCTwoRuns ------------------------------
(* A validated manifest whose emit reads one of the keys it writes.        *)
EXTENDS TwoRuns, MCReplay

Swapping ==
  Manifest("collect",
    "start" :> Step(Post, Nil,
                    Emit("Processing", "x" :> Literal("1") @@ "y" :> Ref("state", "x"), Poll), ""),
    <<Timeout>>)

SwappingManifests == {m \in {Swapping} : Validated(m)}
SwappingCassettes ==
  {[Answered(Body("ok")) EXCEPT !.state = map] : map \in {"x" :> "7", EmptyMap}}
=============================================================================
