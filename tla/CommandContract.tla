-------------------------- MODULE CommandContract ---------------------------
(***************************************************************************)
(* What the exit status of a command, and its output, may be taken for.    *)
(***************************************************************************)
EXTENDS Commands

Succeeded == at = "exited" /\ exit = 0

(* The directories a command has to replay.                                *)
Subjects ==
  IF command.name = "replay"
  THEN {Target} \ {p \in {Target} : IsNativeProvider(Directory(repo, p))}
  ELSE {p \in Providers(repo) : ~ IsNativeProvider(repo.providers[p])}

LinesOf(p) == {i \in DOMAIN report : report[i].dir = p}

(* What a line that passes has to show: a result that is the golden file,  *)
(* byte for byte, or that the integrator can handle.                       *)
Shows(p, n, r) ==
  /\ r # Nil
  /\ IF command.name = "replay"
     THEN Golden => LET expected == Directory(repo, p).expected
                    IN  /\ n \in DOMAIN expected /\ expected[n].text = "canonical"
                        /\ expected[n].value = r
     ELSE Handle(r) = ""

(* Exit status 0 is earned: `replay --assert-golden` returns it only when  *)
(* every cassette file of the directory has produced a result whose        *)
(* canonical JSON is its golden file, and `conformance-integrator` only    *)
(* when the integrator has handled a result for every cassette of every    *)
(* manifest provider.  A failure early in a loop is not forgotten by the   *)
(* passes that follow.  It says nothing of a native directory, which       *)
(* replay passes over (spec/06-conformance.md:154), nor of a directory     *)
(* without cassettes, of which none has to pass.                           *)
ExitIsEarned ==
  Succeeded /\ command.name \in {"replay", "conformance-integrator"} =>
    \A p \in Subjects : Loads(p) /\ \A n \in CassetteFiles(Directory(repo, p)) :
      \E i \in LinesOf(p) : report[i].cassette = n /\ Shows(p, n, report[i].result)

(* A failing cassette hides no other: once the process has ended, each     *)
(* directory that loads has one line for each of its cassette files, in    *)
(* the byte order of their names, whatever became of the ones before.      *)
(* This is what the usage text says of replay ("replays every cassette",   *)
(* cmd/esiipayment/main.go:64) and main.go:196 of conformance-integrator;  *)
(* spec/06-conformance.md:83 has replay fail on the first mismatch, and    *)
(* the loop at main.go:183 goes on behind it.                              *)
EveryCassetteIsReported ==
  at = "exited" /\ checkedAny =>
    \A p \in Subjects : Loads(p) =>
      /\ {report[i].cassette : i \in LinesOf(p)} = CassetteFiles(Directory(repo, p))
      /\ \A i, j \in LinesOf(p) :
           i < j => Rank[report[i].cassette] < Rank[report[j].cassette]

(* CI takes `validate` and `replay --assert-golden` together for the proof *)
(* that a provider does what it announces (spec/06-conformance.md): when   *)
(* both succeed, each declared operation has a cassette that was replayed  *)
(* to its golden result.                                                   *)
EveryOperationIsShown ==
  Succeeded /\ command.name = "replay" /\ Golden =>
    \A p \in Subjects : ValidateProvider(Directory(repo, p)) = {} =>
      \A op \in Directory(repo, p).manifest.doc.capabilities.operations :
        \E i \in DOMAIN report : report[i].ok /\ report[i].result.operation = op

(* Invariant I12 rests on `conformance-integrator` over every provider     *)
(* (spec/02-invariants.md:275), and lint validates every provider: when    *)
(* both succeed there is a manifest provider, each declares operations,    *)
(* and the integrator has handled a result of each one.  The first command *)
(* alone promises none of it: main.go:236 counts a provider before it is   *)
(* replayed, and one without cassettes has no result that could fail.      *)
EveryOperationIsHandled ==
  Succeeded /\ command.name = "conformance-integrator" /\ LintRepo(repo) = {} =>
    /\ Subjects # {}
    /\ \A p \in Subjects :
         LET operations == Load(Directory(repo, p).manifest).capabilities.operations
         IN  /\ operations # {}
             /\ \A op \in operations : \E i \in LinesOf(p) :
                  /\ report[i].result # Nil /\ report[i].result.operation = op
                  /\ Handle(report[i].result) = ""

(* A repository without lint findings has a catalog, with one row for each *)
(* provider, in the order of their slugs, that ticks exactly the           *)
(* operations the provider declares.                                       *)
LintVouchesForCatalog ==
  at = "exited" /\ command.name = "catalog" /\ LintRepo(repo) = {} =>
    /\ exit = 0 /\ ToSet(printed) = Providers(repo)
    /\ \A i \in DOMAIN printed :
         LET row == LoadRow(repo.providers[printed[i]])
         IN  /\ Ticked(row) = row.operations
             /\ i > 1 => Rank[LoadRow(repo.providers[printed[i - 1]]).provider]
                           <= Rank[row.provider]

(* In a repository without lint findings every failure a replay of one of  *)
(* its providers reports has a message in every language, although the     *)
(* codes are checked in the manifests and the messages one by one.         *)
EveryFailureHasMessage ==
  at = "exited" /\ report # <<>> /\ repo.messages # Nil /\ LintRepo(repo) = {} =>
    \A i \in DOMAIN report : \A language \in DOMAIN repo.messages :
      /\ IsProvider(Directory(repo, report[i].dir))
      /\ report[i].result # Nil /\ report[i].result.failure # Nil
      => LET code == report[i].result.failure.failure_code
             said == repo.messages[language].messages
         IN  code \in DOMAIN said /\ said[code] \notin {"", " "}

(* lint accepts the provider template exactly when the nine sections can   *)
(* be read in it in their order, the settler pattern before the second     *)
(* provider, other headings and repetitions aside.                         *)
TemplateInOrder ==
  at = "exited" /\ command.name = "lint" /\ repo.template # Nil =>
    ("missing-template-section" \notin printed
       <=> \E S \in SUBSET DOMAIN repo.template :
             /\ Cardinality(S) = 9
             /\ \A k \in S : repo.template[k] = Cardinality({j \in S : j <= k}))

(* Every command over flows without goto cycles ends the process.          *)
NoGotoCycles ==
  repo.providers # Nil =>
    \A p \in DOMAIN repo.providers :
      LET m == Load(repo.providers[p].manifest) IN m # Nil => AcyclicFlows(m)
CommandEnds == NoGotoCycles ~> at = "exited"

=============================================================================
