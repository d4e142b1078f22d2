------------------------- MODULE DocumentedContract -------------------------
(***************************************************************************)
(* What the specification documents, the vectors, the tutorials and the    *)
(* comments of this repository say a replay does, where the code does      *)
(* otherwise.  Each property is the document's sentence; the run that      *)
(* checks it shows a validated manifest and a cassette that refute it.     *)
(***************************************************************************)
EXTENDS ValidatedReplay

(* spec/01-domain-model.md:320-329: next_action is null for a terminal     *)
(* status and present for any other, and failure is non-null if and only   *)
(* if status is Failed.                                                    *)
ResultIsWellFormed ==
  pc = "done" =>
    /\ result.next_action = Nil <=> result.status \in TerminalStatuses
    /\ result.failure # Nil <=> result.status = "Failed"

(* internal/replay/interp.go:19: a flow that makes a second call, or that  *)
(* dispatches on a status_map again, returns an error rather than a wrong  *)
(* answer.                                                                 *)
SecondDispatchIsAnError ==
  pc = "done" /\ step \notin {"", Entry} =>
    Flow[step].call = Nil /\ Flow[step].status_map = Nil

(* docs/tutorials/modify-the-spec/02-rule-of-least-power.md:3: the DSL has *)
(* no loops; every replay comes to an end.                                 *)
EveryRunEnds == <>(pc \in {"done", "error"})

(* vectors/errors/match-kinds.json:59: the absence of a body never         *)
(* prevents an http_status match.                                          *)
HttpStatusIgnoresBody ==
  error = "body-not-json" /\ cassette.operation # "webhook" =>
    ~ \E i \in DOMAIN manifest.errors :
        ErrorMatches(manifest.errors[i], EmptyMap, Interaction.response.status)

=============================================================================
