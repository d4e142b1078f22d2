---------------------------- MODULE MCRefinement ----------------------------
(* The manifests of Patches whose emits do not read what they write, and   *)
(* the flows of Shapes, valid or not, that come to an end.                 *)
EXTENDS InterpreterRefinement, MCReplay

Redirecting == {Nil, Emit("RequiresAction", EmptyMap, Redirect(Ref("extract", "url")))}

OrderFreeManifests ==
  {m \in Patches("collect") \cup Patches("webhook")
         \cup Shapes({Nil, Emit("Processing", EmptyMap, Poll)}, {Nil}, Redirecting) :
     OrderFree(m)}

RefinementCassettes == ShapeCassettes \cup PatchCassettes
=============================================================================
