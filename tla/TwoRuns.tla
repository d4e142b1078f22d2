------------------------------ MODULE TwoRuns -------------------------------
(***************************************************************************)
(* The interpreter run twice, one run after the other, on one manifest and *)
(* one cassette: what the golden files of spec/06-conformance.md rest on.  *)
(***************************************************************************)
EXTENDS Interpreter

VARIABLES pc2, step2, pending2, state2, status2, nextAction2, result2, error2

vars2 == <<pc2, step2, pending2, state2, status2, nextAction2, result2, error2>>

Second == INSTANCE Interpreter WITH
  pc <- pc2, step <- step2, pending <- pending2, state <- state2,
  status <- status2, nextAction <- nextAction2, result <- result2, error <- error2

Over(label) == label \in {"done", "error"}

InitTwice == Init /\ Second!Init
NextTwice ==
  \/ ~ Over(pc) /\ Next /\ UNCHANGED vars2
  \/ Over(pc) /\ Second!Next /\ UNCHANGED vars
SpecTwice == InitTwice /\ [][NextTwice]_<<vars, vars2>> /\ WF_<<vars, vars2>>(NextTwice)

(* spec/04-expression-language.md:128: every extraction, interpolation and *)
(* condition is a pure function of its inputs, so two runs of one cassette *)
(* against one manifest end with the same result or the same error.        *)
Deterministic == Over(pc) /\ Over(pc2) => result = result2 /\ error = error2

=============================================================================
