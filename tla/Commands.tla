------------------------------ MODULE Commands ------------------------------
(***************************************************************************)
(* The command line (cmd/esiipayment/main.go with replay/runall.go): one   *)
(* process, one command, over the repository on disk.  replay and          *)
(* conformance-integrator call the interpreter for each cassette of a      *)
(* directory: its steps are steps of this machine, whose variables it      *)
(* leaves alone.                                                           *)
(***************************************************************************)
EXTENDS Interpreter, Lint, Catalog, Integrator

CONSTANTS
  Repositories,             \* what may be checked out
  CommandLines,             \* os.Args: [name, args]; "" for no command
  Encodable(_)              \* whether json.Marshal has a form for the value

ASSUME NamesAreRanked ==
  \A r \in Repositories : r.providers # Nil =>
    /\ DOMAIN r.providers \subseteq DOMAIN Rank
    /\ \A p \in DOMAIN r.providers : CassetteFiles(r.providers[p]) \subseteq DOMAIN Rank

(* What the interpreter is given is what is loaded.                        *)
ASSUME ManifestsAreLoaded ==
  \A r \in Repositories : r.providers # Nil =>
    \A p \in DOMAIN r.providers : Load(r.providers[p].manifest) \in Manifests \cup {Nil}

ASSUME DirectoriesAreFinite ==
  \A r \in Repositories : r.providers # Nil => IsFiniteSet(DOMAIN r.providers)

(* A page is read as the numbers of its headings.                          *)
ASSUME TemplatesAreHeadings ==
  \A r \in Repositories : r.template # Nil => r.template \in Seq(Nat)

VARIABLES
  repo, command,            \* the checkout and the arguments, never assigned
  at,                       \* where the command stands
  dirs,                     \* directories still to visit
  dir,                      \* the name of the one being replayed, or ""
  names,                    \* its cassettes still to run
  results,                  \* its results still to be judged
  report,                   \* a line for each result judged
  failed, checkedAny,       \* the locals that decide the exit status
  printed,                  \* the findings, or the rows of the catalog
  exit                      \* the exit status, Nil while the process runs

runVars == vars
commandVars ==
  <<repo, command, at, dirs, dir, names, results, report, failed, checkedAny,
    printed, exit>>
allVars == <<runVars, commandVars>>

Golden == "--assert-golden" \in ToSet(command.args)
LastPath(args) ==
  LET paths == SelectSeq(args, LAMBDA a : a # "--assert-golden")
  IN  IF paths = <<>> THEN "" ELSE Last(paths)
Target == LastPath(command.args)
Current == Directory(repo, dir)

CommandInit ==
  /\ repo \in Repositories /\ command \in CommandLines
  /\ at = "main" /\ dirs = {} /\ dir = "" /\ names = {} /\ results = <<>> /\ report = <<>>
  /\ failed = FALSE /\ checkedAny = FALSE /\ printed = {} /\ exit = Nil
  /\ manifest = Nil /\ cassette = Nil /\ pc = "idle" /\ step = "" /\ pending = {}
  /\ state = EmptyMap /\ status = "" /\ nextAction = Nil /\ result = Nil /\ error = ""

-----------------------------------------------------------------------------
(* A command that ends the process with what it has printed.               *)
Exit(code, output) ==
  /\ at' = "exited" /\ exit' = code /\ printed' = output
  /\ UNCHANGED <<runVars, repo, command, dirs, dir, names, results, report,
                 failed, checkedAny>>

Main ==
  /\ at = "main"
  /\ command.name \notin {"validate", "replay", "lint", "catalog", "conformance-integrator"}
  /\ Exit(IF command.name = "help" THEN 0 ELSE 2, {})

Validate ==
  /\ at = "main" /\ command.name = "validate"
  /\ IF Len(command.args) # 1 THEN Exit(1, {})
     ELSE LET findings == ValidateProvider(Directory(repo, Head(command.args)))
          IN  Exit(IF findings = {} THEN 0 ELSE 1, findings)

RunLint ==
  /\ at = "main" /\ command.name = "lint"
  /\ Exit(IF LintRepo(repo) = {} THEN 0 ELSE 1, LintRepo(repo))

RunCatalog ==
  /\ at = "main" /\ command.name = "catalog"
  /\ IF Generates(repo) THEN \E rows \in Catalogs(repo) : Exit(0, rows) ELSE Exit(1, {})

-----------------------------------------------------------------------------
(* What replay and conformance-integrator look for before they start.      *)
HasTables == repo.version /\ repo.exponents

ReplayNothing ==
  /\ at = "main" /\ command.name = "replay"
  /\ \/ Target = "" /\ Exit(1, {})
     \/ Target # "" /\ IsNativeProvider(Directory(repo, Target)) /\ Exit(0, {})
     \/ /\ Target # "" /\ ~ IsNativeProvider(Directory(repo, Target)) /\ ~ HasTables
        /\ Exit(1, {})

Begin(visiting, first) ==
  /\ at' = "walk" /\ dirs' = visiting /\ dir' = first
  /\ UNCHANGED <<runVars, repo, command, names, results, report, failed, checkedAny,
                 printed, exit>>

Replay ==
  /\ at = "main" /\ command.name = "replay" /\ Target # ""
  /\ ~ IsNativeProvider(Directory(repo, Target)) /\ HasTables
  /\ Begin({Target}, "")

Conformance ==
  /\ at = "main" /\ command.name = "conformance-integrator"
  /\ IF HasTables /\ repo.providers # Nil THEN Begin(DOMAIN repo.providers, "")
     ELSE Exit(1, {})

(* runConformanceIntegrator passes over what is no manifest provider.      *)
Skipped(name) ==
  command.name # "replay"
  /\ (~ IsProvider(Directory(repo, name)) \/ IsNativeProvider(Directory(repo, name)))

Skip ==
  /\ at = "walk" /\ dirs # {} /\ Skipped(First(dirs)) /\ dirs' = dirs \ {First(dirs)}
  /\ UNCHANGED <<runVars, repo, command, at, dir, names, results, report, failed,
                 checkedAny, printed, exit>>

(* RunAll and RunAllResults: nothing is replayed unless everything loads.  *)
Loads(name) ==
  /\ Load(Directory(repo, name).manifest) # Nil
  /\ LoadCassettes(Directory(repo, name)) # Nil

Open ==
  /\ at = "walk" /\ dirs # {} /\ ~ Skipped(First(dirs))
  /\ dirs' = dirs \ {First(dirs)} /\ checkedAny' = TRUE
  /\ IF Loads(First(dirs))
     THEN /\ at' = "run" /\ dir' = First(dirs)
          /\ names' = DOMAIN LoadCassettes(Directory(repo, First(dirs))) /\ UNCHANGED failed
     ELSE /\ failed' = TRUE /\ UNCHANGED <<at, dir, names>>
  /\ UNCHANGED <<runVars, repo, command, results, report, printed, exit>>

-----------------------------------------------------------------------------
(* The loop over a directory's cassettes.                                  *)
RunCassette ==
  /\ at = "run" /\ names # {} /\ pc = "idle"
  /\ manifest' = Load(Current.manifest)
  /\ cassette' = LoadCassettes(Current)[First(names)]
  /\ pc' = "prepare" /\ step' = "" /\ pending' = {}
  /\ state' = EmptyMap /\ status' = "" /\ nextAction' = Nil /\ result' = Nil /\ error' = ""
  /\ UNCHANGED commandVars

Interpret == pc \notin {"idle", "done", "error"} /\ Next /\ UNCHANGED commandVars

Values(map) == IF map = Nil THEN {} ELSE ValuesOf(map)

(* RunAll cannot render a result with a value that JSON has no form for;   *)
(* RunAllResults renders nothing.                                          *)
Rendered ==
  \/ command.name # "replay"
  \/ \A v \in Values(result.state) \cup Values(result.next_action) : Encodable(v)

Outcome == IF pc = "done" /\ Rendered THEN result ELSE Nil

(* Mutant of Collect: the first error ends the loop.                       *)
CollectAndStop ==
  /\ at = "run" /\ pc \in {"done", "error"} /\ pc' = "idle"
  /\ results' = Append(results, [cassette |-> First(names), result |-> Outcome])
  /\ names' = IF Outcome = Nil THEN {} ELSE names \ {First(names)}
  /\ UNCHANGED <<manifest, cassette, Locals, result, error, repo, command, at, dirs, dir,
                 report, failed, checkedAny, printed, exit>>

(* Mutant of Collect: a cassette without a result is run again.            *)
CollectOrRetry ==
  /\ at = "run" /\ pc \in {"done", "error"} /\ pc' = "idle"
  /\ results' = IF Outcome = Nil THEN results
                ELSE Append(results, [cassette |-> First(names), result |-> Outcome])
  /\ names' = IF Outcome = Nil THEN names ELSE names \ {First(names)}
  /\ UNCHANGED <<manifest, cassette, Locals, result, error, repo, command, at, dirs, dir,
                 report, failed, checkedAny, printed, exit>>

Collect ==
  /\ at = "run" /\ pc \in {"done", "error"} /\ pc' = "idle"
  /\ results' = Append(results, [cassette |-> First(names), result |-> Outcome])
  /\ names' = names \ {First(names)}
  /\ UNCHANGED <<manifest, cassette, Locals, result, error, repo, command, at, dirs, dir,
                 report, failed, checkedAny, printed, exit>>

Collected ==
  /\ at = "run" /\ names = {} /\ at' = "judge"
  /\ UNCHANGED <<runVars, repo, command, dirs, dir, names, results, report, failed,
                 checkedAny, printed, exit>>

-----------------------------------------------------------------------------
(* The loop over the results.  An absent golden file reads as an empty one.*)
MatchesGolden(r) ==
  /\ r.cassette \in DOMAIN Current.expected
  /\ Current.expected[r.cassette].text = "canonical"
  /\ Current.expected[r.cassette].value = r.result

Passes(r) ==
  /\ r.result # Nil
  /\ IF command.name = "replay" THEN Golden => MatchesGolden(r) ELSE Handle(r.result) = ""

Line(r) == [dir |-> dir, cassette |-> r.cassette, result |-> r.result, ok |-> Passes(r)]

(* Mutant of Judge: a later result overwrites an earlier failure.          *)
JudgeLast ==
  /\ at = "judge" /\ results # <<>> /\ results' = Tail(results)
  /\ report' = Append(report, Line(Head(results)))
  /\ failed' = ~ Passes(Head(results))
  /\ UNCHANGED <<runVars, repo, command, at, dirs, dir, names, checkedAny, printed, exit>>

(* Mutant of Judge: the integrator's loop prints a replay error and passes *)
(* on.                                                                     *)
JudgeHandled ==
  /\ at = "judge" /\ results # <<>> /\ results' = Tail(results)
  /\ report' = Append(report, Line(Head(results)))
  /\ failed' = \/ failed
               \/ ~ Passes(Head(results))
                  /\ (command.name = "replay" \/ Head(results).result # Nil)
  /\ UNCHANGED <<runVars, repo, command, at, dirs, dir, names, checkedAny, printed, exit>>

Judge ==
  /\ at = "judge" /\ results # <<>> /\ results' = Tail(results)
  /\ report' = Append(report, Line(Head(results)))
  /\ failed' = (failed \/ ~ Passes(Head(results)))
  /\ UNCHANGED <<runVars, repo, command, at, dirs, dir, names, checkedAny, printed, exit>>

Close ==
  /\ at = "judge" /\ results = <<>> /\ at' = "walk" /\ dir' = ""
  /\ UNCHANGED <<runVars, repo, command, dirs, names, results, report, failed, checkedAny,
                 printed, exit>>

Conclude ==
  /\ at = "walk" /\ dirs = {}
  /\ Exit(IF failed \/ ~ checkedAny THEN 1 ELSE 0, {})

Exited == at = "exited" /\ UNCHANGED allVars

CommandNext ==
  \/ Main \/ Validate \/ RunLint \/ RunCatalog
  \/ ReplayNothing \/ Replay \/ Conformance \/ Skip \/ Open
  \/ RunCassette \/ Interpret \/ Collect \/ Collected \/ Judge \/ Close \/ Conclude
  \/ Exited

(* One process, and no step of it waits.                                   *)
CommandSpec == CommandInit /\ [][CommandNext]_allVars /\ WF_allVars(CommandNext)

=============================================================================
